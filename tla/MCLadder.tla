------------------------------ MODULE MCLadder ------------------------------
(* Two models, which may share a label, and the command lines that make
   the launches differ: fresh, resumed, other modes, other model, unparsable
   modes, another label and a dry run. *)
EXTENDS Ladder

AllUnits == {"u1", "u2"}
AllLabels == {"l1", "l2"}
Models == [u1 |-> "A", u2 |-> "B"]
Line(u, l, raw, resume, dry) ==
    [unit |-> u, label |-> l, raw |-> raw, resume |-> resume, dry |-> dry]
Lines == {Line("u1", "l1", <<"off", "on">>, FALSE, FALSE),
          Line("u1", "l1", <<"off", "on">>, TRUE, FALSE),
          Line("u1", "l1", <<"", "on", "on">>, TRUE, FALSE),
          Line("u2", "l1", <<"off">>, TRUE, FALSE),
          Line("u1", "l2", <<"off">>, TRUE, FALSE),
          Line("u1", "l1", <<"bad">>, FALSE, FALSE),
          Line("u1", "l1", <<"off">>, FALSE, TRUE)}
=============================================================================
