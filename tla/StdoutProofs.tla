---------------------------- MODULE StdoutProofs ----------------------------
(***************************************************************************)
(* What the drive of a subprocess worker guarantees for every limit, any   *)
(* number of events and resumes, and any order in which the readers get to *)
(* them.                                                                   *)
(*                                                                         *)
(* The dictionary the threads share is right only relative to what is      *)
(* still in the pipe, so the invariant speaks of both: turns counted plus  *)
(* finishes unread (Counted), budget stops known or unread (Heard), and the *)
(* order of starts and ends across what was read and what was not          *)
(* (Alternates: OneFinish, OneStart).                                      *)
(***************************************************************************)
EXTENDS StdoutDrive, FiniteSetTheorems, TLAPS

(***************************************************************************)
(* Events and anomalies.                                                   *)
(***************************************************************************)
Starts == {e \in Events : e.type = "step_start"}
Tools == {e \in Events : e.type = "tool_use"}
Finishes == {e \in Events : e.type = "step_finish"}
Errors == {e \in Events : e.type = "error"}

Terminals == {"truncated", "unclassified", "transport_error", "stream_died_open"}

Anomalies == [step : Nat, terminal : Terminals, unmetered : BOOLEAN, retried : BOOLEAN]

States ==
    [session : BOOLEAN, turns : Nat, tokens : Nat, completed : BOOLEAN, budget : BOOLEAN,
     silent : BOOLEAN, tools : BOOLEAN, step : Nat, open : BOOLEAN, stamped : BOOLEAN,
     anomalies : Seq(Anomalies), unretried : Nat, finished : SUBSET Nat,
     used : SUBSET Nat]

\* A state whose mark is on one of its anomalies, or on none.
Sound(s) ==
    /\ s \in States /\ s.unretried <= Len(s.anomalies)
    /\ s.finished \subseteq 0 .. s.step /\ s.used \subseteq 0 .. s.step

\* Two lists of anomalies that differ in what was retried only.
SameNotes(a, b) ==
    /\ Len(b) = Len(a)
    /\ \A i \in 1 .. Len(a) : b[i].step = a[i].step /\ b[i].terminal = a[i].terminal

\* The fields the properties are about, but for the anomalies and the tools.
SameBooks(s, t) ==
    /\ t.turns = s.turns /\ t.budget = s.budget /\ t.silent = s.silent /\ t.step = s.step
    /\ t.open = s.open /\ t.stamped = s.stamped /\ t.finished = s.finished

SameTools(s, t) == t.tools = s.tools /\ t.used = s.used

\* An event is of one of four types, and its fields are what its type says.
LEMMA EventTypes ==
    /\ Events = Starts \cup Tools \cup Finishes \cup Errors
    /\ \A e \in Starts : e.type = "step_start" /\ e.stamped \in Stamps /\ e.stamped \in BOOLEAN
    /\ \A e \in Tools : e.type = "tool_use"
    /\ \A e \in Finishes : e.type = "step_finish" /\ e.tokens \in Nat
    /\ \A e \in Errors : e.type = "error" /\ e.budget \in BOOLEAN
BY StdoutAssumption DEF Events, Starts, Tools, Finishes, Errors

\* An anomaly of the drive is well typed.
LEMMA AnomalyType ==
    ASSUME NEW k \in Nat, NEW t \in Terminals, NEW u \in BOOLEAN
    PROVE  /\ Anomaly(k, t, u) \in Anomalies
           /\ Anomaly(k, t, u).step = k /\ Anomaly(k, t, u).terminal = t
BY DEF Anomaly, Anomalies

\* Marking an anomaly as retried changes nothing else.
LEMMA MarkRetriedKeeps ==
    ASSUME NEW s, Sound(s)
    PROVE  /\ Sound(MarkRetried(s))
           /\ SameNotes(s.anomalies, MarkRetried(s).anomalies)
           /\ SameBooks(s, MarkRetried(s)) /\ SameTools(s, MarkRetried(s))
<1> DEFINE u == s.unretried
           a == s.anomalies
           b == IF u = 0 THEN a ELSE [a EXCEPT ![u].retried = TRUE]
           t == MarkRetried(s)
<1>1. a \in Seq(Anomalies) /\ u \in Nat /\ u <= Len(a) /\ s \in States
  BY DEF Sound, States
<1>2. t = [s EXCEPT !.unretried = 0, !.anomalies = b]
  <2>1. [s EXCEPT !.unretried = 0].anomalies = a
    BY <1>1 DEF States
  <2>2. QED
    BY <2>1, Zenon DEF MarkRetried
<1> HIDE DEF t
<1>3. b \in Seq(Anomalies) /\ SameNotes(a, b)
  <2>1. CASE u = 0
    BY <1>1, <2>1 DEF SameNotes
  <2>2. CASE u # 0
    <3>1. u \in 1 .. Len(a) /\ a[u] \in Anomalies
      BY <1>1, <2>2
    <3> DEFINE x == [a[u] EXCEPT !.retried = TRUE]
    <3>2. x \in Anomalies /\ x.step = a[u].step /\ x.terminal = a[u].terminal
      BY <3>1 DEF Anomalies
    <3>3. b = [a EXCEPT ![u] = x]
      BY <2>2
    <3> HIDE DEF x, b, a, u
    <3>4. QED
      BY <1>1, <3>1, <3>2, <3>3 DEF SameNotes
  <2>3. QED
    BY <2>1, <2>2
<1> HIDE DEF b
<1>4. t \in States /\ t.unretried = 0 /\ t.anomalies = b
  BY <1>1, <1>2, <1>3 DEF States
<1>5. SameBooks(s, t) /\ SameTools(s, t)
  BY <1>1, <1>2 DEF States, SameBooks, SameTools
<1>6. t.unretried <= Len(t.anomalies)
  BY <1>1, <1>3, <1>4 DEF SameNotes
<1>7. QED
  BY <1>3, <1>4, <1>5, <1>6 DEF Sound, SameBooks, SameTools, t

\* A new anomaly goes to the end of the list, and carries the mark.
LEMMA AppendKeeps ==
    ASSUME NEW s, Sound(s), NEW x \in Anomalies
    PROVE  /\ Sound(AppendAnomaly(s, x))
           /\ AppendAnomaly(s, x).anomalies = Append(s.anomalies, x)
           /\ SameBooks(s, AppendAnomaly(s, x)) /\ SameTools(s, AppendAnomaly(s, x))
<1> DEFINE t == AppendAnomaly(s, x)
<1>1. s.anomalies \in Seq(Anomalies) /\ s \in States
  BY DEF Sound, States
<1>2. t = [s EXCEPT !.anomalies = Append(s.anomalies, x), !.unretried = Len(s.anomalies) + 1]
  BY <1>1 DEF AppendAnomaly
<1> HIDE DEF t
<1>3. Append(s.anomalies, x) \in Seq(Anomalies) /\ Len(s.anomalies) + 1 \in Nat
      /\ Len(Append(s.anomalies, x)) = Len(s.anomalies) + 1
  BY <1>1
<1>4. t \in States /\ t.unretried = Len(s.anomalies) + 1 /\ t.anomalies = Append(s.anomalies, x)
  BY <1>1, <1>2, <1>3 DEF States
<1>5. SameBooks(s, t) /\ SameTools(s, t)
  BY <1>1, <1>2 DEF States, SameBooks, SameTools
<1>6. QED
  BY <1>3, <1>4, <1>5 DEF Sound, SameBooks, SameTools, t

(***************************************************************************)
(* What the readers make of an event.                                      *)
(***************************************************************************)
\* A step begins.
LEMMA StartRead ==
    ASSUME NEW s, Sound(s), NEW e \in Starts
    PROVE  LET t == ReadEvent(s, e)
           IN  /\ Sound(t) /\ SameNotes(s.anomalies, t.anomalies)
               /\ t.turns = s.turns /\ t.budget = s.budget /\ t.finished = s.finished
               /\ t.step = s.step + 1 /\ t.silent = FALSE /\ t.stamped = e.stamped
               /\ t.used = s.used
<1> DEFINE r == MarkRetried(s)
           t == ReadEvent(s, e)
<1>1. Sound(r) /\ SameNotes(s.anomalies, r.anomalies) /\ SameBooks(s, r)
      /\ SameTools(s, r)
  BY MarkRetriedKeeps
<1>2. e.type = "step_start" /\ e.stamped \in BOOLEAN
  BY EventTypes
<1>3. t = StepStart(s, e)
  BY <1>2 DEF ReadEvent
<1>4. t = [r EXCEPT !.completed = FALSE, !.tools = FALSE, !.silent = FALSE,
                    !.step = r.step + 1, !.open = TRUE, !.stamped = e.stamped]
  BY <1>3 DEF StepStart
<1> HIDE DEF r, t
<1>5. r \in States /\ r.step \in Nat
  BY <1>1 DEF Sound, States
<1>6. /\ t \in States
      /\ t.anomalies = r.anomalies /\ t.unretried = r.unretried /\ t.finished = r.finished
      /\ t.turns = r.turns /\ t.budget = r.budget /\ t.used = r.used
      /\ t.step = r.step + 1 /\ t.silent = FALSE /\ t.stamped = e.stamped
  <2> DEFINE k == r.step + 1
             b == e.stamped
  <2>1. k \in Nat /\ b \in BOOLEAN
    BY <1>2, <1>5
  <2>2. t = [r EXCEPT !.completed = FALSE, !.tools = FALSE, !.silent = FALSE,
                      !.step = k, !.open = TRUE, !.stamped = b]
    BY <1>4
  <2> HIDE DEF k, b
  <2>3. t \in States
    BY <2>1, <2>2, <1>5 DEF States
  <2>4. t.anomalies = r.anomalies /\ t.unretried = r.unretried /\ t.finished = r.finished
    BY <2>2, <1>5 DEF States
  <2>5. t.turns = r.turns /\ t.budget = r.budget /\ t.used = r.used
    BY <2>2, <1>5 DEF States
  <2>6. t.step = k /\ t.silent = FALSE /\ t.stamped = b
    BY <2>2, <1>5 DEF States
  <2>7. QED
    BY <2>3, <2>4, <2>5, <2>6 DEF k, b
<1>7. r.finished \subseteq 0 .. (r.step + 1) /\ r.used \subseteq 0 .. (r.step + 1)
  BY <1>1, <1>5 DEF Sound
<1>8. QED
  BY <1>1, <1>6, <1>7 DEF Sound, SameBooks, SameTools, t

\* A tool is used.
LEMMA ToolRead ==
    ASSUME NEW s, Sound(s), NEW e \in Tools
    PROVE  LET t == ReadEvent(s, e)
           IN  /\ Sound(t) /\ t.anomalies = s.anomalies /\ SameBooks(s, t)
               /\ t.tools = TRUE /\ t.used = s.used \cup {s.step}
<1> DEFINE t == ReadEvent(s, e)
           w == s.used \cup {s.step}
<1>1. s \in States /\ w \in SUBSET Nat /\ w \subseteq 0 .. s.step
  BY DEF Sound, States
<1>2. t = [s EXCEPT !.tools = TRUE, !.used = w]
  BY EventTypes DEF ReadEvent
<1> HIDE DEF t, w
<1>3. /\ t \in States /\ t.anomalies = s.anomalies /\ t.unretried = s.unretried
      /\ SameBooks(s, t) /\ t.tools = TRUE /\ t.used = w
  BY <1>1, <1>2 DEF States, SameBooks
<1>4. QED
  BY <1>1, <1>3 DEF Sound, SameBooks, t, w

\* A step ends: a turn that is counted, and silent only if the transport did not cut it.
LEMMA FinishRead ==
    ASSUME NEW s, Sound(s), NEW e \in Finishes
    PROVE  LET t == ReadEvent(s, e)
           IN  /\ Sound(t)
               /\ t.turns = s.turns + 1 /\ t.budget = s.budget /\ t.step = s.step
               /\ t.finished = s.finished \cup {s.step}
               /\ t.open = FALSE /\ t.stamped = FALSE
               /\ t.used = s.used /\ (t.silent => ~s.tools)
               /\ \/ t.anomalies = s.anomalies
                  \/ \E x \in Anomalies : /\ t.anomalies = Append(s.anomalies, x)
                                          /\ x.step = s.step
                                          /\ \/ x.terminal = "truncated" /\ ~t.silent
                                             \/ x.terminal = "unclassified"
<1> DEFINE q == e.reason \notin Truncated /\ ~s.tools
           c == s.completed \/ e.reason = "stop"
           u == [s EXCEPT !.turns = s.turns + 1, !.tokens = s.tokens + e.tokens,
                          !.finished = s.finished \cup {s.step},
                          !.open = FALSE, !.stamped = FALSE, !.tools = FALSE,
                          !.completed = c, !.silent = q]
           t == ReadEvent(s, e)
           cut == Anomaly(s.step, "truncated", e.tokens = 0)
           odd == Anomaly(s.step, "unclassified", FALSE)
<1>1. /\ s \in States /\ s.step \in Nat /\ s.turns + 1 \in Nat /\ s.tokens \in Nat
      /\ s.completed \in BOOLEAN /\ s.finished \in SUBSET Nat
      /\ s.finished \cup {s.step} \subseteq 0 .. s.step
      /\ s.unretried <= Len(s.anomalies) /\ s.used \subseteq 0 .. s.step
  BY DEF Sound, States
<1>2. s.tokens + e.tokens \in Nat /\ e.type = "step_finish"
  BY <1>1, EventTypes
<1>3. q \in BOOLEAN /\ c \in BOOLEAN
  OBVIOUS
<1>4. t = IF e.reason \in Truncated THEN AppendAnomaly(u, cut)
          ELSE IF e.reason \notin Normal THEN AppendAnomaly(u, odd)
          ELSE u
  BY <1>2 DEF ReadEvent, StepFinish
<1>5. cut \in Anomalies /\ cut.step = s.step /\ cut.terminal = "truncated"
      /\ odd \in Anomalies /\ odd.step = s.step /\ odd.terminal = "unclassified"
  <2> DEFINE z == e.tokens = 0
  <2>1. z \in BOOLEAN /\ "truncated" \in Terminals /\ "unclassified" \in Terminals
    BY DEF Terminals
  <2> HIDE DEF z
  <2>2. /\ Anomaly(s.step, "truncated", z) \in Anomalies
        /\ Anomaly(s.step, "truncated", z).step = s.step
        /\ Anomaly(s.step, "truncated", z).terminal = "truncated"
    BY <1>1, <2>1, AnomalyType
  <2>3. odd \in Anomalies /\ odd.step = s.step /\ odd.terminal = "unclassified"
    BY <1>1, <2>1, AnomalyType
  <2>4. QED
    BY <2>2, <2>3 DEF z
<1>6. (e.reason \in Truncated => ~q) /\ (q => ~s.tools)
  OBVIOUS
<1> HIDE DEF q, c, cut, odd, t
<1>7. /\ u \in States
      /\ u.anomalies = s.anomalies /\ u.unretried = s.unretried
  BY <1>1, <1>2, <1>3 DEF States
<1>8. /\ u.turns = s.turns + 1 /\ u.budget = s.budget /\ u.step = s.step
      /\ u.finished = s.finished \cup {s.step}
      /\ u.open = FALSE /\ u.stamped = FALSE /\ u.silent = q /\ u.used = s.used
  BY <1>1 DEF States
<1> HIDE DEF u
<1>9. Sound(u)
  BY <1>1, <1>7, <1>8 DEF Sound
<1>10. CASE e.reason \in Truncated
  <2>1. Sound(t) /\ t.anomalies = Append(u.anomalies, cut) /\ SameBooks(u, t)
        /\ SameTools(u, t)
    BY <1>4, <1>5, <1>9, <1>10, AppendKeeps
  <2>2. QED
    BY <2>1, <1>5, <1>6, <1>7, <1>8, <1>10 DEF SameBooks, SameTools, t
<1>11. CASE e.reason \notin Truncated /\ e.reason \notin Normal
  <2>1. Sound(t) /\ t.anomalies = Append(u.anomalies, odd) /\ SameBooks(u, t)
        /\ SameTools(u, t)
    BY <1>4, <1>5, <1>9, <1>11, AppendKeeps
  <2>2. QED
    BY <2>1, <1>5, <1>6, <1>7, <1>8 DEF SameBooks, SameTools, t
<1>12. CASE e.reason \notin Truncated /\ e.reason \in Normal
  BY <1>4, <1>6, <1>7, <1>8, <1>9, <1>12 DEF t
<1>13. QED
  BY <1>10, <1>11, <1>12

\* An error: a budget stop is noted, any other is an anomaly of the step.
LEMMA ErrorRead ==
    ASSUME NEW s, Sound(s), NEW e \in Errors
    PROVE  LET t == ReadEvent(s, e)
           IN  /\ Sound(t)
               /\ t.turns = s.turns /\ t.step = s.step /\ t.finished = s.finished
               /\ t.silent = s.silent /\ t.used = s.used
               /\ \/ /\ e.budget /\ t.budget = TRUE /\ t.anomalies = s.anomalies
                     /\ t.open = s.open /\ t.stamped = s.stamped /\ t.tools = s.tools
                  \/ /\ ~e.budget /\ t.budget = s.budget /\ ~t.open /\ ~t.stamped
                     /\ \E x \in Anomalies : /\ t.anomalies = Append(s.anomalies, x)
                                             /\ x.step = s.step
                                             /\ x.terminal = "transport_error"
<1> DEFINE t == ReadEvent(s, e)
           u == [s EXCEPT !.open = FALSE, !.stamped = FALSE, !.tools = FALSE]
           x == Anomaly(s.step, "transport_error", TRUE)
<1>1. s \in States /\ s.step \in Nat
  BY DEF Sound, States
<1>2. e.budget \in BOOLEAN
      /\ t = IF e.budget THEN [s EXCEPT !.budget = TRUE] ELSE AppendAnomaly(u, x)
  BY EventTypes DEF ReadEvent, ErrorEvent
<1>3. x \in Anomalies /\ x.step = s.step /\ x.terminal = "transport_error"
  BY <1>1, AnomalyType DEF Terminals
<1> HIDE DEF x, t
<1>4. CASE e.budget
  <2>1. t = [s EXCEPT !.budget = TRUE]
    BY <1>2, <1>4
  <2>2. /\ t \in States /\ t.budget = TRUE /\ t.anomalies = s.anomalies
        /\ t.unretried = s.unretried
        /\ t.turns = s.turns /\ t.step = s.step /\ t.finished = s.finished
        /\ t.silent = s.silent /\ t.open = s.open /\ t.stamped = s.stamped
        /\ t.tools = s.tools /\ t.used = s.used
    BY <1>1, <2>1 DEF States
  <2>3. QED
    BY <1>4, <2>2 DEF Sound, t
<1>5. CASE ~e.budget
  <2>1. /\ u \in States /\ u.anomalies = s.anomalies /\ u.unretried = s.unretried
        /\ u.turns = s.turns /\ u.step = s.step /\ u.finished = s.finished
        /\ u.silent = s.silent /\ u.budget = s.budget /\ u.open = FALSE /\ u.stamped = FALSE
        /\ u.used = s.used
    BY <1>1 DEF States
  <2> HIDE DEF u
  <2>2. Sound(u)
    BY <2>1 DEF Sound
  <2>3. Sound(t) /\ t.anomalies = Append(u.anomalies, x) /\ SameBooks(u, t)
        /\ SameTools(u, t)
    BY <1>2, <1>3, <1>5, <2>2, AppendKeeps
  <2>4. QED
    BY <1>3, <1>5, <2>1, <2>3 DEF SameBooks, SameTools, t
<1>6. QED
  BY <1>2, <1>4, <1>5

(***************************************************************************)
(* Counting in lists.                                                      *)
(***************************************************************************)
\* The positions at which the list has a member of K.
Places(p, K) == {i \in 1 .. Len(p) : p[i] \in K}

\* A list has finitely many places.
LEMMA PlacesFinite ==
    ASSUME NEW S, NEW p \in Seq(S), NEW K
    PROVE  IsFiniteSet(Places(p, K)) /\ Cardinality(Places(p, K)) \in Nat
<1>1. IsFiniteSet(1 .. Len(p)) /\ Places(p, K) \in SUBSET (1 .. Len(p))
  BY FS_Interval DEF Places
<1>2. QED
  BY <1>1, FS_Subset, FS_CardinalityType

\* Appending adds a place if the new member is in K.
LEMMA PlacesAppend ==
    ASSUME NEW S, NEW p \in Seq(S), NEW e \in S, NEW K
    PROVE  Cardinality(Places(Append(p, e), K))
             = Cardinality(Places(p, K)) + (IF e \in K THEN 1 ELSE 0)
<1> DEFINE q == Append(p, e)
           n == Len(p) + 1
<1>1. /\ Len(q) = n /\ q[n] = e /\ \A i \in 1 .. Len(p) : q[i] = p[i]
      /\ Len(p) \in Nat
  OBVIOUS
<1> HIDE DEF q
<1>2. Places(q, K) = IF e \in K THEN Places(p, K) \cup {n} ELSE Places(p, K)
  BY <1>1 DEF Places
<1>3. n \notin Places(p, K)
  BY <1>1 DEF Places
<1>4. IsFiniteSet(Places(p, K)) /\ Cardinality(Places(p, K)) \in Nat
  BY PlacesFinite
<1>5. Cardinality(Places(p, K) \cup {n}) = Cardinality(Places(p, K)) + 1
  BY <1>3, <1>4, FS_AddElement
<1>6. QED
  BY <1>2, <1>4, <1>5 DEF q

\* Taking the head away takes its place away, if it had one.
LEMMA PlacesTail ==
    ASSUME NEW S, NEW p \in Seq(S), p # <<>>, NEW K
    PROVE  Cardinality(Places(p, K))
             = Cardinality(Places(Tail(p), K)) + (IF Head(p) \in K THEN 1 ELSE 0)
<1> DEFINE q == Tail(p)
           P == Places(p, K)
           Q == Places(q, K)
           f == [i \in Q |-> i + 1]
<1>1. /\ q \in Seq(S) /\ Len(p) \in Nat /\ Len(p) >= 1 /\ Len(q) = Len(p) - 1
      /\ \A i \in 1 .. Len(q) : q[i] = p[i + 1]
      /\ Head(p) = p[1]
  OBVIOUS
<1> HIDE DEF q
<1>2. f \in Bijection(Q, P \ {1})
  <2>1. \A i \in Q : i + 1 \in P \ {1}
    BY <1>1 DEF Places
  <2>2. \A i, j \in Q : i + 1 = j + 1 => i = j
    BY <1>1 DEF Places
  <2>3. \A j \in P \ {1} : j - 1 \in Q /\ (j - 1) + 1 = j
    BY <1>1 DEF Places
  <2> HIDE DEF P, Q
  <2>4. f \in [Q -> P \ {1}]
    BY <2>1
  <2>5. \A i, j \in Q : f[i] = f[j] => i = j
    BY <2>2
  <2>6. \A j \in P \ {1} : \E i \in Q : f[i] = j
    BY <2>3
  <2> HIDE DEF f
  <2>7. DOMAIN f = Q
    BY <2>4
  <2>8. f \in Injection(Q, P \ {1})
    BY <2>4, <2>5, <2>7, Zenon DEF Injection, IsInjective
  <2>9. f \in Surjection(Q, P \ {1})
    BY <2>4, <2>6, Zenon DEF Surjection
  <2>10. QED
    BY <2>8, <2>9, Zenon DEF Bijection
<1>3. IsFiniteSet(P) /\ Cardinality(P) \in Nat /\ IsFiniteSet(Q) /\ Cardinality(Q) \in Nat
  BY <1>1, PlacesFinite
<1>4. 1 \in P <=> Head(p) \in K
  BY <1>1 DEF Places
<1> HIDE DEF P, Q, f
<1>5. Cardinality(P \ {1}) = Cardinality(Q)
  <2>1. ExistsBijection(Q, P \ {1})
    BY <1>2 DEF ExistsBijection
  <2>2. QED
    BY <2>1, <1>3, FS_Bijection
<1>6. Cardinality(P \ {1}) = IF 1 \in P THEN Cardinality(P) - 1 ELSE Cardinality(P)
  BY <1>3, FS_RemoveElement
<1>7. QED
  BY <1>3, <1>4, <1>5, <1>6 DEF P, Q, q

\* An invocation's turns that died open.
DiedOpen == {x \in Anomalies : x.terminal = "stream_died_open"}

\* Died counts them.
LEMMA DiedPlaces ==
    ASSUME NEW a \in Seq(Anomalies)
    PROVE  /\ Died(a) = Cardinality(Places(a, DiedOpen)) /\ Died(a) \in Nat
<1>1. DOMAIN a = 1 .. Len(a) /\ \A i \in 1 .. Len(a) : a[i] \in Anomalies
  OBVIOUS
<1>2. {i \in DOMAIN a : a[i].terminal = "stream_died_open"} = Places(a, DiedOpen)
  BY <1>1 DEF Places, DiedOpen
<1>3. QED
  BY <1>2, PlacesFinite DEF Died

\* Marking changes it nothing; an anomaly adds to it if it is such a turn.
LEMMA DiedChanges ==
    ASSUME NEW a \in Seq(Anomalies)
    PROVE  /\ \A b \in Seq(Anomalies) : SameNotes(a, b) => Died(b) = Died(a)
           /\ \A x \in Anomalies :
                Died(Append(a, x)) = Died(a) + (IF x.terminal = "stream_died_open" THEN 1 ELSE 0)
<1>1. ASSUME NEW b \in Seq(Anomalies), SameNotes(a, b) PROVE Died(b) = Died(a)
  <2>1. \A i \in 1 .. Len(a) : a[i] \in Anomalies /\ b[i] \in Anomalies
    BY <1>1 DEF SameNotes
  <2>2. Places(a, DiedOpen) = Places(b, DiedOpen)
    BY <1>1, <2>1 DEF Places, DiedOpen, SameNotes
  <2>3. QED
    BY <2>2, DiedPlaces
<1>2. ASSUME NEW x \in Anomalies
      PROVE  Died(Append(a, x)) = Died(a) + (IF x.terminal = "stream_died_open" THEN 1 ELSE 0)
  <2>1. Append(a, x) \in Seq(Anomalies)
    OBVIOUS
  <2>2. Cardinality(Places(Append(a, x), DiedOpen))
          = Cardinality(Places(a, DiedOpen)) + (IF x \in DiedOpen THEN 1 ELSE 0)
    BY PlacesAppend
  <2>3. x \in DiedOpen <=> x.terminal = "stream_died_open"
    BY DEF DiedOpen
  <2>4. QED
    BY <2>1, <2>2, <2>3, DiedPlaces
<1>3. QED
  BY <1>1, <1>2

(***************************************************************************)
(* Two kinds of events that take turns.                                    *)
(***************************************************************************)
\* After the first n events a B may come: an A came and no B since, or, if one could
\* come before the first of them (c), no B at all.
Primed(p, c, A, B, n) ==
    \/ \E j \in 1 .. n : p[j] \in A /\ \A k \in j + 1 .. n : p[k] \notin B
    \/ c /\ \A k \in 1 .. n : p[k] \notin B

\* Every C in the list comes when a B may, and one may follow if b.
Alternates(p, c, A, B, C, b) ==
    /\ \A n \in 1 .. Len(p) : p[n] \in C => Primed(p, c, A, B, n - 1)
    /\ b => Primed(p, c, A, B, Len(p))

\* Events are written when they may come.
LEMMA AlternatesAppend ==
    ASSUME NEW S, NEW p \in Seq(S), NEW e \in S, NEW A, NEW B, NEW C,
           NEW c \in BOOLEAN, NEW b \in BOOLEAN, NEW b2 \in BOOLEAN,
           Alternates(p, c, A, B, C, b),
           e \in C => b,
           b2 => e \in A \/ (b /\ e \notin B)
    PROVE  Alternates(Append(p, e), c, A, B, C, b2)
<1> DEFINE q == Append(p, e)
           L == Len(p)
<1>1. /\ Len(q) = L + 1 /\ q[L + 1] = e /\ \A i \in 1 .. L : q[i] = p[i]
      /\ L \in Nat
  OBVIOUS
<1> HIDE DEF q, L
<1>2. ASSUME NEW n \in 0 .. L, Primed(p, c, A, B, n) PROVE Primed(q, c, A, B, n)
  BY <1>1, <1>2 DEF Primed
<1>3. b => Primed(q, c, A, B, L)
  BY <1>1, <1>2 DEF Alternates, L
<1>4. ASSUME NEW n \in 1 .. Len(q), q[n] \in C PROVE Primed(q, c, A, B, n - 1)
  <2>1. CASE n = L + 1
    <3>1. n - 1 = L /\ e \in C
      BY <1>1, <1>4, <2>1
    <3>2. QED
      BY <3>1, <1>3
  <2>2. CASE n # L + 1
    <3>1. n \in 1 .. L /\ n - 1 \in 0 .. L /\ p[n] \in C
      BY <1>1, <1>4, <2>2
    <3>2. Primed(p, c, A, B, n - 1)
      BY <3>1 DEF Alternates, L
    <3>3. QED
      BY <3>1, <3>2, <1>2
  <2>3. QED
    BY <2>1, <2>2
<1>5. ASSUME b2 PROVE Primed(q, c, A, B, L + 1)
  <2>1. CASE e \in A
    <3>1. L + 1 \in 1 .. L + 1 /\ q[L + 1] \in A /\ \A k \in (L + 1) + 1 .. L + 1 : q[k] \notin B
      BY <1>1, <2>1
    <3>2. QED
      BY <3>1 DEF Primed
  <2>2. CASE b /\ e \notin B
    <3>1. Primed(q, c, A, B, L)
      BY <1>3, <2>2
    <3>2. CASE \E j \in 1 .. L : q[j] \in A /\ \A k \in j + 1 .. L : q[k] \notin B
      <4>1. PICK j \in 1 .. L : q[j] \in A /\ \A k \in j + 1 .. L : q[k] \notin B
        BY <3>2
      <4>2. j \in 1 .. L + 1 /\ \A k \in j + 1 .. L + 1 : q[k] \notin B
        BY <4>1, <1>1, <2>2
      <4>3. QED
        BY <4>1, <4>2 DEF Primed
    <3>3. CASE c /\ \A k \in 1 .. L : q[k] \notin B
      <4>1. \A k \in 1 .. L + 1 : q[k] \notin B
        BY <3>3, <1>1, <2>2
      <4>2. QED
        BY <4>1, <3>3 DEF Primed
    <3>4. QED
      BY <3>1, <3>2, <3>3 DEF Primed
  <2>3. QED
    BY <1>5, <2>1, <2>2
<1>6. QED
  BY <1>1, <1>4, <1>5 DEF Alternates, q

\* What may come before the first event has come is what the reader knows.
LEMMA AlternatesTail ==
    ASSUME NEW S, NEW p \in Seq(S), p # <<>>, NEW A, NEW B, NEW C,
           NEW c \in BOOLEAN, NEW b \in BOOLEAN, NEW c2 \in BOOLEAN,
           Alternates(p, c, A, B, C, b),
           Head(p) \in A => c2,
           Head(p) \notin B /\ c => c2
    PROVE  Alternates(Tail(p), c2, A, B, C, b)
<1> DEFINE q == Tail(p)
           L == Len(q)
<1>1. /\ L \in Nat /\ Len(p) = L + 1
      /\ \A i \in 1 .. L : q[i] = p[i + 1]
      /\ Head(p) = p[1]
  OBVIOUS
<1> HIDE DEF q, L
<1>2. ASSUME NEW n \in 0 .. L, Primed(p, c, A, B, n + 1) PROVE Primed(q, c2, A, B, n)
  <2>1. CASE \E j \in 1 .. n + 1 : p[j] \in A /\ \A k \in j + 1 .. n + 1 : p[k] \notin B
    <3>1. PICK j \in 1 .. n + 1 : p[j] \in A /\ \A k \in j + 1 .. n + 1 : p[k] \notin B
      BY <2>1
    <3>2. \A k \in 1 .. n : k + 1 \in 1 .. n + 1 /\ q[k] = p[k + 1]
      BY <1>1
    <3>3. CASE j = 1
      <4>1. c2
        BY <3>1, <3>3, <1>1
      <4>2. \A k \in 1 .. n : q[k] \notin B
        BY <3>1, <3>2, <3>3
      <4>3. QED
        BY <4>1, <4>2 DEF Primed
    <3>4. CASE j # 1
      <4>1. j - 1 \in 1 .. n /\ q[j - 1] \in A
        BY <3>1, <3>2, <3>4
      <4>2. \A k \in (j - 1) + 1 .. n : q[k] \notin B
        BY <3>1, <3>2, <3>4
      <4>3. QED
        BY <4>1, <4>2 DEF Primed
    <3>5. QED
      BY <3>3, <3>4
  <2>2. CASE c /\ \A k \in 1 .. n + 1 : p[k] \notin B
    <3>1. p[1] \notin B /\ \A k \in 1 .. n : q[k] \notin B
      BY <2>2, <1>1
    <3>2. QED
      BY <2>2, <3>1, <1>1 DEF Primed
  <2>3. QED
    BY <1>2, <2>1, <2>2 DEF Primed
<1>3. ASSUME NEW n \in 1 .. L, q[n] \in C PROVE Primed(q, c2, A, B, n - 1)
  <2>1. n + 1 \in 1 .. Len(p) /\ p[n + 1] \in C /\ (n + 1) - 1 = n /\ n - 1 \in 0 .. L
        /\ (n - 1) + 1 = n
    BY <1>1, <1>3
  <2>2. Primed(p, c, A, B, n)
    BY <2>1 DEF Alternates
  <2>3. QED
    BY <2>1, <2>2, <1>2
<1>4. b => Primed(q, c2, A, B, L)
  <2>1. b => Primed(p, c, A, B, L + 1)
    BY <1>1 DEF Alternates
  <2>2. L \in 0 .. L
    BY <1>1
  <2>3. QED
    BY <2>1, <2>2, <1>2
<1>5. QED
  BY <1>3, <1>4 DEF Alternates, q, L

\* A C at the head came when it might.
LEMMA AlternatesHead ==
    ASSUME NEW S, NEW p \in Seq(S), p # <<>>, NEW A, NEW B, NEW C, NEW c, NEW b,
           Alternates(p, c, A, B, C, b), Head(p) \in C
    PROVE  c
<1>1. 1 \in 1 .. Len(p) /\ p[1] \in C /\ 1 - 1 = 0
  OBVIOUS
<1>2. Primed(p, c, A, B, 0)
  BY <1>1 DEF Alternates
<1>3. QED
  BY <1>2 DEF Primed

\* More may come once more is known; and before there is anything to read.
LEMMA AlternatesWeaken ==
    ASSUME NEW p, NEW A, NEW B, NEW C, NEW c \in BOOLEAN, NEW b \in BOOLEAN, NEW c2 \in BOOLEAN,
           Alternates(p, c, A, B, C, b), c => c2
    PROVE  Alternates(p, c2, A, B, C, b)
BY DEF Alternates, Primed

LEMMA AlternatesEmpty ==
    ASSUME NEW A, NEW B, NEW C, NEW b
    PROVE  Alternates(<<>>, TRUE, A, B, C, b)
BY DEF Alternates, Primed

(***************************************************************************)
(* One event read.                                                         *)
(***************************************************************************)
\* A step has an anomaly.
HasNote(s, i) == \E a \in 1 .. Len(s.anomalies) : s.anomalies[a].step = i

\* A turn the transport cut is one that finished.
Noted(s) ==
    \A i \in 1 .. Len(s.anomalies) :
      s.anomalies[i].terminal = "truncated" => s.anomalies[i].step \in s.finished

Alive(s) == \A i \in 1 .. Len(s.anomalies) : s.anomalies[i].terminal # "stream_died_open"

\* Silence was not brought about by the transport.
Chosen(s) ==
    s.silent =>
        /\ ~s.open
        /\ \A i \in 1 .. Len(s.anomalies) :
             s.anomalies[i].terminal \in {"truncated", "stream_died_open"}
                 => s.anomalies[i].step < s.step

\* An error was reported in the step.
Erred(s) ==
    \E i \in 1 .. Len(s.anomalies) :
      s.anomalies[i].terminal = "transport_error" /\ s.anomalies[i].step = s.step

\* A silent step is over, and if it used a tool an error was reported in it; what a step
\* that is not over has used is known, but for an error.
Idle(s) == s.silent => s.step \in s.finished /\ (s.step \in s.used => Erred(s))

Tooled(s) == s.step \notin s.finished /\ s.step \in s.used => s.tools \/ Erred(s)

\* The open step, if there is one, has been accounted for.
Known(s) == s.budget \/ s.step = 0 \/ s.step \in s.finished \/ HasNote(s, s.step)

\* Every step begun is accounted for, but for one that has just begun.
Shown(s) ==
    ~s.budget => \A i \in 1 .. s.step :
                   i \in s.finished \/ HasNote(s, i) \/ (i = s.step /\ s.stamped)

\* An anomaly that is appended leaves those before it as they were.
LEMMA NotesAppended ==
    ASSUME NEW s, Sound(s), NEW x \in Anomalies, NEW t, t.anomalies = Append(s.anomalies, x)
    PROVE  /\ Len(t.anomalies) = Len(s.anomalies) + 1 /\ Len(s.anomalies) \in Nat
           /\ t.anomalies[Len(s.anomalies) + 1] = x
           /\ \A i \in 1 .. Len(s.anomalies) : t.anomalies[i] = s.anomalies[i]
           /\ HasNote(t, x.step)
           /\ \A i : HasNote(s, i) => HasNote(t, i)
<1>1. s.anomalies \in Seq(Anomalies)
  BY DEF Sound, States
<1>2. /\ Len(t.anomalies) = Len(s.anomalies) + 1 /\ Len(s.anomalies) \in Nat
      /\ t.anomalies[Len(s.anomalies) + 1] = x
      /\ \A i \in 1 .. Len(s.anomalies) : t.anomalies[i] = s.anomalies[i]
  BY <1>1
<1>3. HasNote(t, x.step)
  BY <1>2 DEF HasNote
<1>4. \A i : HasNote(s, i) => HasNote(t, i)
  BY <1>2 DEF HasNote
<1>5. QED
  BY <1>2, <1>3, <1>4

\* The readers count a turn for each step_finish, lose no budget stop, and take no turn
\* for dead.
LEMMA ReadCounts ==
    ASSUME NEW s, Sound(s), NEW e \in Events
    PROVE  LET t == ReadEvent(s, e)
           IN  /\ Sound(t)
               /\ t.turns = s.turns + (IF e \in Finishes THEN 1 ELSE 0)
               /\ Died(t.anomalies) = Died(s.anomalies)
               /\ s.budget => t.budget
               /\ e \in Errors /\ e.budget => t.budget
<1> DEFINE t == ReadEvent(s, e)
<1>1. /\ s.anomalies \in Seq(Anomalies) /\ s.turns \in Nat /\ Died(s.anomalies) \in Nat
      /\ Sound(t) => t.anomalies \in Seq(Anomalies)
  BY DiedPlaces DEF Sound, States
<1> HIDE DEF t
<1>2. ASSUME NEW x \in Anomalies, x.terminal # "stream_died_open",
             t.anomalies = Append(s.anomalies, x)
      PROVE  Died(t.anomalies) = Died(s.anomalies)
  <2>1. Died(Append(s.anomalies, x))
          = Died(s.anomalies) + (IF x.terminal = "stream_died_open" THEN 1 ELSE 0)
    BY <1>1, DiedChanges
  <2>2. QED
    BY <1>1, <1>2, <2>1
<1>3. ASSUME Sound(t), SameNotes(s.anomalies, t.anomalies)
      PROVE  Died(t.anomalies) = Died(s.anomalies)
  <2>1. \A b \in Seq(Anomalies) : SameNotes(s.anomalies, b) => Died(b) = Died(s.anomalies)
    BY <1>1, DiedChanges
  <2>2. QED
    BY <1>1, <1>3, <2>1
<1>4. CASE e \in Starts
  <2>1. /\ Sound(t) /\ SameNotes(s.anomalies, t.anomalies)
        /\ t.turns = s.turns /\ t.budget = s.budget
    BY <1>4, StartRead DEF t
  <2>2. e \notin Finishes /\ e \notin Errors
    BY <1>4, EventTypes
  <2>3. QED
    BY <1>1, <1>3, <2>1, <2>2 DEF t
<1>5. CASE e \in Tools
  <2>1. Sound(t) /\ t.anomalies = s.anomalies /\ SameBooks(s, t)
    BY <1>5, ToolRead DEF t
  <2>2. e \notin Finishes /\ e \notin Errors
    BY <1>5, EventTypes
  <2>3. QED
    BY <1>1, <2>1, <2>2 DEF t, SameBooks
<1>6. CASE e \in Finishes
  <2>1. Sound(t) /\ t.turns = s.turns + 1 /\ t.budget = s.budget
    BY <1>6, FinishRead DEF t
  <2>2. \/ t.anomalies = s.anomalies
        \/ \E x \in Anomalies : t.anomalies = Append(s.anomalies, x)
                                  /\ x.terminal # "stream_died_open"
    <3>1. \/ t.anomalies = s.anomalies
          \/ \E x \in Anomalies : /\ t.anomalies = Append(s.anomalies, x)
                                  /\ x.step = s.step
                                  /\ \/ x.terminal = "truncated" /\ ~t.silent
                                     \/ x.terminal = "unclassified"
      BY <1>6, FinishRead DEF t
    <3>2. QED
      BY <3>1
  <2>3. Died(t.anomalies) = Died(s.anomalies)
    BY <1>2, <2>2
  <2>4. e \notin Errors
    BY <1>6, EventTypes
  <2>5. QED
    BY <1>6, <2>1, <2>3, <2>4 DEF t
<1>7. CASE e \in Errors
  <2>1. Sound(t) /\ t.turns = s.turns /\ (s.budget => t.budget) /\ (e.budget => t.budget)
    BY <1>7, ErrorRead DEF t
  <2>2. \/ t.anomalies = s.anomalies
        \/ \E x \in Anomalies : t.anomalies = Append(s.anomalies, x)
                                  /\ x.terminal = "transport_error"
    BY <1>7, ErrorRead DEF t
  <2>3. Died(t.anomalies) = Died(s.anomalies)
    BY <1>2, <2>2
  <2>4. e \notin Finishes
    BY <1>7, EventTypes
  <2>5. QED
    BY <1>1, <2>1, <2>3, <2>4 DEF t
<1>8. QED
  BY <1>4, <1>5, <1>6, <1>7, EventTypes

\* What is known of the open step, after an event.
LEMMA ReadKnows ==
    ASSUME NEW s, Sound(s), NEW e \in Events
    PROVE  LET t == ReadEvent(s, e)
           IN  /\ e \in Finishes \cup Errors => Known(t)
               /\ e \notin Starts /\ Known(s) => Known(t)
               /\ e \in Starts => t.step \notin t.finished
               /\ e \notin Finishes /\ s.step \notin s.finished => t.step \notin t.finished
<1> DEFINE t == ReadEvent(s, e)
<1>1. s.step \in Nat /\ s.finished \subseteq 0 .. s.step
  BY DEF Sound, States
<1> HIDE DEF t
<1>2. CASE e \in Starts
  <2>1. t.finished = s.finished /\ t.step = s.step + 1
    BY <1>2, StartRead DEF t
  <2>2. t.step \notin t.finished
    BY <1>1, <2>1
  <2>3. e \notin Finishes \cup Errors
    BY <1>2, EventTypes
  <2>4. QED
    BY <1>2, <2>2, <2>3 DEF t
<1>3. CASE e \in Tools
  <2>1. t.anomalies = s.anomalies /\ SameBooks(s, t)
    BY <1>3, ToolRead DEF t
  <2>2. (Known(s) => Known(t)) /\ t.step = s.step /\ t.finished = s.finished
    BY <2>1 DEF SameBooks, Known, HasNote
  <2>3. e \notin Finishes \cup Errors \cup Starts
    BY <1>3, EventTypes
  <2>4. QED
    BY <2>2, <2>3 DEF t
<1>4. CASE e \in Finishes
  <2>1. t.step \in t.finished
    BY <1>4, FinishRead DEF t
  <2>2. e \notin Starts
    BY <1>4, EventTypes
  <2>3. QED
    BY <1>4, <2>1, <2>2 DEF Known, t
<1>5. CASE e \in Errors
  <2>1. t.step = s.step /\ t.finished = s.finished
    BY <1>5, ErrorRead DEF t
  <2>2. t.budget \/ HasNote(t, t.step)
    <3>1. \/ t.budget = TRUE
          \/ \E x \in Anomalies : t.anomalies = Append(s.anomalies, x) /\ x.step = s.step
      BY <1>5, ErrorRead DEF t
    <3>2. ASSUME NEW x \in Anomalies, t.anomalies = Append(s.anomalies, x), x.step = s.step
          PROVE  HasNote(t, t.step)
      BY <2>1, <3>2, NotesAppended
    <3>3. QED
      BY <3>1, <3>2
  <2>3. e \notin Starts
    BY <1>5, EventTypes
  <2>4. QED
    BY <2>1, <2>2, <2>3 DEF Known, t
<1>6. QED
  BY <1>2, <1>3, <1>4, <1>5, EventTypes

\* Silence stays chosen: the step that ends was not cut before.
LEMMA ReadChooses ==
    ASSUME NEW s, Sound(s), NEW e \in Events, Noted(s), Alive(s), Chosen(s),
           e \in Finishes => s.step \notin s.finished
    PROVE  Noted(ReadEvent(s, e)) /\ Alive(ReadEvent(s, e)) /\ Chosen(ReadEvent(s, e))
<1> DEFINE t == ReadEvent(s, e)
<1>1. /\ s.step \in Nat /\ s.finished \subseteq 0 .. s.step
      /\ s.anomalies \in Seq(Anomalies) /\ s.silent \in BOOLEAN
  BY DEF Sound, States
<1> HIDE DEF t
<1>2. CASE e \in Starts
  <2>1. SameNotes(s.anomalies, t.anomalies) /\ t.finished = s.finished /\ t.silent = FALSE
    BY <1>2, StartRead DEF t
  <2>2. QED
    BY <2>1 DEF SameNotes, Noted, Alive, Chosen, t
<1>3. CASE e \in Tools
  <2>1. t.anomalies = s.anomalies /\ SameBooks(s, t)
    BY <1>3, ToolRead DEF t
  <2>2. Noted(t)
    BY <2>1 DEF SameBooks, Noted
  <2>3. Alive(t)
    BY <2>1 DEF Alive
  <2>4. Chosen(t)
    BY <2>1 DEF SameBooks, Chosen
  <2>5. QED
    BY <2>2, <2>3, <2>4 DEF t
<1>4. CASE e \in Finishes
  <2>1. t.step = s.step /\ t.finished = s.finished \cup {s.step} /\ t.open = FALSE
    BY <1>4, FinishRead DEF t
  <2>2. ASSUME NEW i \in 1 .. Len(s.anomalies)
        PROVE  /\ s.anomalies[i].terminal = "truncated" => s.anomalies[i].step \in s.finished
               /\ s.anomalies[i].terminal # "stream_died_open"
               /\ s.anomalies[i].terminal = "truncated" => s.anomalies[i].step < s.step
    <3>1. /\ s.anomalies[i].terminal = "truncated" => s.anomalies[i].step \in s.finished
          /\ s.anomalies[i].terminal # "stream_died_open"
      BY DEF Noted, Alive
    <3>2. \A k \in s.finished : k < s.step
      BY <1>1, <1>4
    <3>3. QED
      BY <3>1, <3>2
  <2>3. CASE t.anomalies = s.anomalies
    BY <2>1, <2>2, <2>3 DEF Noted, Alive, Chosen, t
  <2>4. ASSUME NEW x \in Anomalies, t.anomalies = Append(s.anomalies, x), x.step = s.step,
               (x.terminal = "truncated" /\ ~t.silent) \/ x.terminal = "unclassified"
        PROVE  Noted(t) /\ Alive(t) /\ Chosen(t)
    <3>1. /\ Len(t.anomalies) = Len(s.anomalies) + 1 /\ Len(s.anomalies) \in Nat
          /\ t.anomalies[Len(s.anomalies) + 1] = x
          /\ \A i \in 1 .. Len(s.anomalies) : t.anomalies[i] = s.anomalies[i]
      BY <2>4, NotesAppended
    <3>2. \A i \in 1 .. Len(t.anomalies) : i \in 1 .. Len(s.anomalies) \/ t.anomalies[i] = x
      BY <3>1
    <3>3. Noted(t)
      BY <2>1, <2>2, <2>4, <3>1, <3>2 DEF Noted
    <3>4. Alive(t)
      BY <2>2, <2>4, <3>1, <3>2 DEF Alive
    <3>5. Chosen(t)
      BY <2>1, <2>2, <2>4, <3>1, <3>2 DEF Chosen
    <3>6. QED
      BY <3>3, <3>4, <3>5
  <2>5. \/ t.anomalies = s.anomalies
        \/ \E x \in Anomalies : /\ t.anomalies = Append(s.anomalies, x)
                                /\ x.step = s.step
                                /\ \/ x.terminal = "truncated" /\ ~t.silent
                                   \/ x.terminal = "unclassified"
    BY <1>4, FinishRead DEF t
  <2>6. QED
    BY <2>3, <2>4, <2>5 DEF t
<1>5. CASE e \in Errors
  <2>1. t.step = s.step /\ t.finished = s.finished /\ t.silent = s.silent
    BY <1>5, ErrorRead DEF t
  <2>2. CASE t.anomalies = s.anomalies /\ t.open = s.open
    <3>1. Noted(t)
      BY <2>1, <2>2 DEF Noted
    <3>2. Alive(t)
      BY <2>2 DEF Alive
    <3>3. Chosen(t)
      BY <2>1, <2>2 DEF Chosen
    <3>4. QED
      BY <3>1, <3>2, <3>3 DEF t
  <2>3. ASSUME ~t.open, NEW x \in Anomalies, t.anomalies = Append(s.anomalies, x),
               x.terminal = "transport_error"
        PROVE  Noted(t) /\ Alive(t) /\ Chosen(t)
    <3>1. /\ Len(t.anomalies) = Len(s.anomalies) + 1 /\ Len(s.anomalies) \in Nat
          /\ t.anomalies[Len(s.anomalies) + 1] = x
          /\ \A i \in 1 .. Len(s.anomalies) : t.anomalies[i] = s.anomalies[i]
      BY <2>3, NotesAppended
    <3>2. \A i \in 1 .. Len(t.anomalies) : i \in 1 .. Len(s.anomalies) \/ t.anomalies[i] = x
      BY <3>1
    <3>3. Noted(t)
      BY <2>1, <2>3, <3>1, <3>2 DEF Noted
    <3>4. Alive(t)
      BY <2>3, <3>1, <3>2 DEF Alive
    <3>5. Chosen(t)
      BY <2>1, <2>3, <3>1, <3>2 DEF Chosen
    <3>6. QED
      BY <3>3, <3>4, <3>5
  <2>4. \/ t.anomalies = s.anomalies /\ t.open = s.open
        \/ ~t.open /\ \E x \in Anomalies : /\ t.anomalies = Append(s.anomalies, x)
                                           /\ x.terminal = "transport_error"
    <3>1. \/ /\ e.budget /\ t.budget = TRUE /\ t.anomalies = s.anomalies
             /\ t.open = s.open /\ t.stamped = s.stamped /\ t.tools = s.tools
          \/ /\ ~e.budget /\ t.budget = s.budget /\ ~t.open /\ ~t.stamped
             /\ \E x \in Anomalies : /\ t.anomalies = Append(s.anomalies, x)
                                     /\ x.step = s.step
                                     /\ x.terminal = "transport_error"
      BY <1>5, ErrorRead DEF t
    <3>2. QED
      BY <3>1
  <2>5. QED
    BY <2>2, <2>3, <2>4 DEF t
<1>6. QED
  BY <1>2, <1>3, <1>4, <1>5, EventTypes DEF t

\* No step goes unaccounted for: the one that was open is known when the next begins.
LEMMA ReadShows ==
    ASSUME NEW s, Sound(s), NEW e \in Events, Stamps = {TRUE}, Shown(s),
           e \in Starts => Known(s)
    PROVE  Shown(ReadEvent(s, e))
<1> DEFINE t == ReadEvent(s, e)
<1>1. s.step \in Nat
  BY DEF Sound, States
<1> HIDE DEF t
<1>2. CASE e \in Starts
  <2>1. /\ SameNotes(s.anomalies, t.anomalies) /\ t.finished = s.finished
        /\ t.step = s.step + 1 /\ t.stamped = e.stamped /\ t.budget = s.budget
    BY <1>2, StartRead DEF t
  <2>2. t.stamped = TRUE
    BY <1>2, <2>1, EventTypes
  <2>3. \A i : HasNote(s, i) => HasNote(t, i)
    BY <2>1 DEF SameNotes, HasNote
  <2>4. ASSUME ~t.budget, NEW i \in 1 .. t.step
        PROVE  i \in t.finished \/ HasNote(t, i) \/ (i = t.step /\ t.stamped)
    <3>1. CASE i = t.step
      BY <2>2, <3>1
    <3>2. CASE i # t.step
      <4>1. i \in 1 .. s.step /\ s.step # 0
        BY <1>1, <2>1, <3>2
      <4>2. i \in s.finished \/ HasNote(s, i) \/ i = s.step
        BY <2>1, <2>4, <4>1 DEF Shown
      <4>3. s.step \in s.finished \/ HasNote(s, s.step)
        BY <1>2, <2>1, <2>4, <4>1 DEF Known
      <4>4. QED
        BY <2>1, <2>3, <4>2, <4>3
    <3>3. QED
      BY <3>1, <3>2
  <2>5. QED
    BY <2>4 DEF Shown, t
<1>3. CASE e \in Tools
  <2>1. t.anomalies = s.anomalies /\ SameBooks(s, t)
    BY <1>3, ToolRead DEF t
  <2>2. Shown(t)
    BY <2>1 DEF SameBooks, Shown, HasNote
  <2>3. QED
    BY <2>2 DEF t
<1>4. CASE e \in Finishes
  <2>1. t.step = s.step /\ t.finished = s.finished \cup {s.step} /\ t.budget = s.budget
    BY <1>4, FinishRead DEF t
  <2>2. \/ t.anomalies = s.anomalies
        \/ \E x \in Anomalies : t.anomalies = Append(s.anomalies, x)
    <3>1. \/ t.anomalies = s.anomalies
          \/ \E x \in Anomalies : /\ t.anomalies = Append(s.anomalies, x)
                                  /\ x.step = s.step
                                  /\ \/ x.terminal = "truncated" /\ ~t.silent
                                     \/ x.terminal = "unclassified"
      BY <1>4, FinishRead DEF t
    <3>2. QED
      BY <3>1
  <2>3. \A i : HasNote(s, i) => HasNote(t, i)
    BY <2>2, NotesAppended DEF HasNote
  <2>4. QED
    BY <2>1, <2>3 DEF Shown, t
<1>5. CASE e \in Errors
  <2>1. t.step = s.step /\ t.finished = s.finished
    BY <1>5, ErrorRead DEF t
  <2>2. \/ t.budget
        \/ /\ t.budget = s.budget
           /\ \E x \in Anomalies : t.anomalies = Append(s.anomalies, x) /\ x.step = s.step
    BY <1>5, ErrorRead DEF t
  <2>3. ASSUME NEW x \in Anomalies, t.anomalies = Append(s.anomalies, x), x.step = s.step
        PROVE  HasNote(t, t.step) /\ \A i : HasNote(s, i) => HasNote(t, i)
    BY <2>1, <2>3, NotesAppended
  <2>4. QED
    BY <2>1, <2>2, <2>3 DEF Shown, t
<1>6. QED
  BY <1>2, <1>3, <1>4, <1>5, EventTypes DEF t

\* Silence stays the absence of tools.
LEMMA ReadIdles ==
    ASSUME NEW s, Sound(s), NEW e \in Events, Idle(s), Tooled(s),
           e \in Tools \cup Finishes => s.step \notin s.finished
    PROVE  Idle(ReadEvent(s, e)) /\ Tooled(ReadEvent(s, e))
<1> DEFINE t == ReadEvent(s, e)
<1>1. s.step \in Nat /\ s.used \subseteq 0 .. s.step
  BY DEF Sound, States
<1>2. ASSUME NEW x \in Anomalies, t.anomalies = Append(s.anomalies, x), t.step = s.step, Erred(s)
      PROVE  Erred(t)
  <2>1. /\ Len(t.anomalies) = Len(s.anomalies) + 1 /\ Len(s.anomalies) \in Nat
        /\ \A i \in 1 .. Len(s.anomalies) : t.anomalies[i] = s.anomalies[i]
    BY <1>2, NotesAppended
  <2>2. QED
    BY <1>2, <2>1 DEF Erred
<1> HIDE DEF t
<1>3. CASE e \in Starts
  <2>1. t.used = s.used /\ t.step = s.step + 1 /\ t.silent = FALSE
    BY <1>3, StartRead DEF t
  <2>2. t.step \notin t.used
    BY <1>1, <2>1
  <2>3. QED
    BY <2>1, <2>2 DEF Idle, Tooled, t
<1>4. CASE e \in Tools
  <2>1. SameBooks(s, t) /\ t.tools = TRUE
    BY <1>4, ToolRead DEF t
  <2>2. t.silent = s.silent /\ ~s.silent
    BY <1>4, <2>1 DEF SameBooks, Idle
  <2>3. QED
    BY <2>1, <2>2 DEF Idle, Tooled, t
<1>5. CASE e \in Finishes
  <2>1. /\ t.step = s.step /\ t.finished = s.finished \cup {s.step}
        /\ t.used = s.used /\ (t.silent => ~s.tools)
    BY <1>5, FinishRead DEF t
  <2>2. t.anomalies = s.anomalies \/ \E x \in Anomalies : t.anomalies = Append(s.anomalies, x)
    <3>1. \/ t.anomalies = s.anomalies
          \/ \E x \in Anomalies : /\ t.anomalies = Append(s.anomalies, x)
                                  /\ x.step = s.step
                                  /\ \/ x.terminal = "truncated" /\ ~t.silent
                                     \/ x.terminal = "unclassified"
      BY <1>5, FinishRead DEF t
    <3>2. QED
      BY <3>1
  <2>3. Erred(s) => Erred(t)
    BY <1>2, <2>1, <2>2 DEF Erred
  <2>4. s.step \notin s.finished
    BY <1>5
  <2>5. Tooled(t)
    BY <2>1 DEF Tooled
  <2>6. Idle(t)
    BY <2>1, <2>3, <2>4 DEF Idle, Tooled
  <2>7. QED
    BY <2>5, <2>6 DEF t
<1>6. CASE e \in Errors
  <2>1. /\ t.step = s.step /\ t.finished = s.finished /\ t.silent = s.silent
        /\ t.used = s.used
    BY <1>6, ErrorRead DEF t
  <2>2. CASE t.anomalies = s.anomalies /\ t.tools = s.tools
    BY <2>1, <2>2 DEF Idle, Tooled, Erred, t
  <2>3. ASSUME NEW x \in Anomalies, t.anomalies = Append(s.anomalies, x), x.step = s.step,
               x.terminal = "transport_error"
        PROVE  Erred(t)
    <3>1. /\ Len(t.anomalies) = Len(s.anomalies) + 1 /\ Len(s.anomalies) \in Nat
          /\ t.anomalies[Len(s.anomalies) + 1] = x
      BY <2>3, NotesAppended
    <3>2. QED
      BY <2>1, <2>3, <3>1 DEF Erred
  <2>4. \/ t.anomalies = s.anomalies /\ t.tools = s.tools
        \/ \E x \in Anomalies : /\ t.anomalies = Append(s.anomalies, x)
                                /\ x.step = s.step /\ x.terminal = "transport_error"
    BY <1>6, ErrorRead DEF t
  <2>5. QED
    BY <2>1, <2>2, <2>3, <2>4 DEF Idle, Tooled, t
<1>7. QED
  BY <1>3, <1>4, <1>5, <1>6, EventTypes DEF t

\* The session id changes nothing of all that.
LEMMA SessionKeeps ==
    ASSUME NEW s, Sound(s), NEW b \in BOOLEAN
    PROVE  LET t == [s EXCEPT !.session = b]
           IN  Sound(t) /\ t.anomalies = s.anomalies /\ SameBooks(s, t) /\ SameTools(s, t)
<1> DEFINE t == [s EXCEPT !.session = b]
<1>1. /\ t \in States /\ t.anomalies = s.anomalies /\ t.unretried = s.unretried
      /\ SameBooks(s, t) /\ SameTools(s, t)
  BY DEF Sound, States, SameBooks, SameTools
<1>2. QED
  BY <1>1 DEF Sound, SameBooks, SameTools

(***************************************************************************)
(* The invariant.                                                          *)
(***************************************************************************)
StdoutTypes ==
    /\ Sound(state)
    /\ pipe \in Seq(Events) /\ stderr \in Nat /\ busy \in BOOLEAN
    /\ client \in {"up", "exited", "killed"} /\ inner \in BOOLEAN
    /\ finishes \in Nat /\ refused \in Nat /\ spared \in BOOLEAN
    /\ sum \in [turns : Nat, budget : BOOLEAN, died : Nat]

\* Each turn that finished is counted or still to be read; nothing else counts but a turn
\* that died open.
Counted ==
    sum.turns + state.turns + Cardinality(Places(pipe, Finishes))
      = finishes + sum.died + Died(state.anomalies)

\* A budget stop is known or still to be read.
Stops == {e \in Errors : e.budget}

Heard ==
    refused > 0 => \/ sum.budget \/ state.budget \/ stderr > 0
                   \/ \E i \in 1 .. Len(pipe) : pipe[i] \in Stops

\* A run that returned has read everything.
Drained ==
    /\ pc \in {"join", "returned"} => client # "up"
    /\ pc = "returned" => pipe = <<>> /\ stderr = 0

\* A limit takes the worker in the container along, or the kill hook failed.
Gone ==
    /\ client = "exited" => ~inner
    /\ pc \in {"poll", "judge"} => client # "killed" /\ reason = "none"
    /\ reason # "none" => ~inner \/ spared

\* Only the return closes a turn that died open.
Cut ==
    /\ Noted(state) /\ Chosen(state) /\ Idle(state)
    /\ pc # "returned" => Alive(state) /\ Tooled(state)

\* Between two finishes a step starts, as it does between a finish and a tool; and between
\* two starts a step ends.
OneFinish == Alternates(pipe, state.step \notin state.finished, Starts, Finishes, Finishes \cup Tools, busy)

OneStart == Alternates(pipe, Known(state), Finishes \cup Errors, Starts, Starts, ~busy)

StdoutInv ==
    /\ StdoutTypes /\ Counted /\ Heard /\ Drained /\ Gone /\ Cut
    /\ OneFinish /\ OneStart

\* The first invocation, and any that resumes, begins with nothing known.
LEMMA FreshState ==
    ASSUME NEW b \in BOOLEAN
    PROVE  LET s == Fresh(b)
           IN  /\ Sound(s) /\ Noted(s) /\ Alive(s) /\ Chosen(s) /\ Known(s) /\ Shown(s)
               /\ Idle(s) /\ Tooled(s)
               /\ s.turns = 0 /\ s.anomalies = <<>> /\ Died(s.anomalies) = 0
               /\ s.step \notin s.finished
<1> DEFINE s == Fresh(b)
<1>1. /\ s.turns = 0 /\ s.anomalies = <<>> /\ s.step = 0 /\ s.finished = {} /\ s.silent = FALSE
      /\ s.used = {}
      /\ s.unretried = 0 /\ s \in States
  BY DEF Fresh, States
<1> HIDE DEF s
<1>2. Sound(s)
  BY <1>1 DEF Sound
<1>3. Noted(s) /\ Alive(s) /\ Chosen(s) /\ Known(s) /\ Shown(s) /\ Idle(s) /\ Tooled(s)
  BY <1>1 DEF Noted, Alive, Chosen, Known, Shown, Idle, Tooled
<1>4. Died(s.anomalies) = 0
  <2>1. {i \in DOMAIN s.anomalies : s.anomalies[i].terminal = "stream_died_open"} = {}
    BY <1>1
  <2>2. QED
    BY <2>1, FS_EmptySet DEF Died
<1>5. QED
  BY <1>1, <1>2, <1>3, <1>4 DEF s

LEMMA StdoutInit == Init => StdoutInv
<1> SUFFICES ASSUME Init PROVE StdoutInv
  OBVIOUS
<1>1. /\ Sound(state) /\ Noted(state) /\ Alive(state) /\ Chosen(state) /\ Known(state)
      /\ Idle(state) /\ Tooled(state)
      /\ state.turns = 0 /\ Died(state.anomalies) = 0 /\ state.step \notin state.finished
  BY FreshState DEF Init
<1>2. pipe = <<>> /\ Len(pipe) = 0 /\ Cardinality(Places(pipe, Finishes)) = 0
  <2>1. pipe = <<>> /\ Len(pipe) = 0
    BY DEF Init
  <2>2. Places(pipe, Finishes) = {}
    BY <2>1 DEF Places
  <2>3. QED
    BY <2>1, <2>2, FS_EmptySet
<1>3. StdoutTypes
  <2>1. sum = [turns |-> 0, budget |-> FALSE, died |-> 0] /\ pipe = <<>>
    BY DEF Init
  <2>2. sum \in [turns : Nat, budget : BOOLEAN, died : Nat] /\ pipe \in Seq(Events)
    BY <2>1
  <2>3. QED
    BY <1>1, <2>2 DEF Init, StdoutTypes
<1>4. Counted /\ Heard /\ Drained /\ Gone
  BY <1>1, <1>2 DEF Init, Counted, Heard, Drained, Gone
<1>5. Cut
  BY <1>1 DEF Cut
<1>6. OneFinish /\ OneStart
  <2>1. (state.step \notin state.finished) = TRUE
    BY <1>1
  <2>2. Known(state) = TRUE
    BY <1>1 DEF Known
  <2>3. QED
    BY <1>2, <2>1, <2>2, AlternatesEmpty DEF OneFinish, OneStart
<1>7. QED
  BY <1>3, <1>4, <1>5, <1>6 DEF StdoutInv

(***************************************************************************)
(* The steps.                                                              *)
(***************************************************************************)
\* The worker writes an event.
LEMMA EmitKeeps ==
    ASSUME StdoutInv, Emit, UNCHANGED <<loop, state>>
    PROVE  StdoutInv'
<1>1. PICK e \in Events :
        /\ Emits(e) /\ pipe' = Append(pipe, e)
        /\ finishes' = IF e.type = "step_finish" THEN finishes + 1 ELSE finishes
        /\ refused' = IF e.type = "error" /\ e.budget THEN refused + 1 ELSE refused
  BY DEF Emit
<1>2. /\ client = "up" /\ UNCHANGED <<inner, client, stderr, state, pc, seen, reason, spared, runs, sum>>
  BY DEF Emit, loop
<1>3. /\ pipe \in Seq(Events) /\ finishes \in Nat /\ refused \in Nat /\ busy \in BOOLEAN
      /\ Sound(state) /\ sum.turns \in Nat /\ state.turns \in Nat /\ sum.died \in Nat
      /\ state.anomalies \in Seq(Anomalies)
  BY DEF StdoutInv, StdoutTypes, Sound, States
<1>4. busy' \in BOOLEAN
  BY <1>1, <1>3 DEF Emits
<1>5. StdoutTypes'
  BY <1>1, <1>2, <1>3, <1>4 DEF StdoutInv, StdoutTypes
<1>6. Counted'
  <2>1. e.type = "step_finish" <=> e \in Finishes
    BY DEF Finishes
  <2>2. Cardinality(Places(Append(pipe, e), Finishes))
          = Cardinality(Places(pipe, Finishes)) + (IF e \in Finishes THEN 1 ELSE 0)
    BY <1>3, PlacesAppend
  <2>3. Cardinality(Places(pipe, Finishes)) \in Nat
    BY <1>3, PlacesFinite
  <2>4. Died(state.anomalies) \in Nat /\ Counted
    BY <1>3, DiedPlaces DEF StdoutInv
  <2>5. pipe' = Append(pipe, e) /\ sum' = sum /\ state' = state
        /\ finishes' = finishes + (IF e \in Finishes THEN 1 ELSE 0)
    BY <1>1, <1>2, <1>3, <2>1
  <2> DEFINE n == Cardinality(Places(pipe, Finishes))
             m == Cardinality(Places(pipe', Finishes))
             d == Died(state.anomalies)
             k == IF e \in Finishes THEN 1 ELSE 0
  <2>6. m = n + k /\ k \in Nat /\ n \in Nat /\ d \in Nat
    BY <2>2, <2>3, <2>4, <2>5
  <2>7. sum.turns + state.turns + n = finishes + sum.died + d
    BY <2>4 DEF Counted
  <2>8. Counted' <=> sum.turns + state.turns + m = finishes' + sum.died + d
    BY <2>5 DEF Counted
  <2>9. finishes' = finishes + k
    BY <2>5
  <2> DEFINE a == sum.turns
             b == state.turns
             c == sum.died
  <2>10. a \in Nat /\ b \in Nat /\ c \in Nat /\ finishes \in Nat
    BY <1>3
  <2>11. a + b + n = finishes + c + d
    BY <2>7
  <2> HIDE DEF n, m, d, k, a, b, c
  <2>12. a + b + m = finishes' + c + d
    BY <2>6, <2>9, <2>10, <2>11
  <2>13. sum.turns + state.turns + m = finishes' + sum.died + d
    BY <2>12 DEF a, b, c
  <2>14. QED
    BY <2>8, <2>13
<1>7. Heard'
  <2>1. /\ Len(pipe') = Len(pipe) + 1 /\ pipe'[Len(pipe) + 1] = e /\ Len(pipe) \in Nat
        /\ \A i \in 1 .. Len(pipe) : pipe'[i] = pipe[i]
    BY <1>1, <1>3
  <2>2. CASE e \in Stops
    BY <2>1, <2>2 DEF Heard
  <2>3. CASE e \notin Stops
    <3>1. refused' = refused
      BY <1>1, <2>3 DEF Stops, Errors
    <3>2. Heard
      BY DEF StdoutInv
    <3>3. QED
      BY <1>2, <2>1, <3>1, <3>2 DEF Heard
  <2>4. QED
    BY <2>2, <2>3
<1>8. Drained' /\ Gone'
  BY <1>2 DEF StdoutInv, Drained, Gone
<1>9. Cut'
  BY <1>2 DEF StdoutInv, Cut
<1>10. OneFinish'
  <2> DEFINE c == state.step \notin state.finished
  <2>1. e \in Finishes \cup Tools => busy
    BY <1>1 DEF Emits, Finishes, Tools
  <2>2. busy' => e \in Starts \/ (busy /\ e \notin Finishes)
    BY <1>1 DEF Emits, Finishes, Starts
  <2>3. Alternates(pipe, c, Starts, Finishes, Finishes \cup Tools, busy) /\ c \in BOOLEAN
    BY DEF StdoutInv, OneFinish
  <2> HIDE DEF c
  <2>4. Alternates(Append(pipe, e), c, Starts, Finishes, Finishes \cup Tools, busy')
    BY <1>3, <1>4, <2>1, <2>2, <2>3, AlternatesAppend
  <2>5. QED
    BY <1>1, <1>2, <2>4 DEF OneFinish, c
<1>11. OneStart'
  <2> DEFINE c == Known(state)
             A == Finishes \cup Errors
             b == ~busy
             b2 == ~busy'
  <2>1. e \in Starts => b
    BY <1>1 DEF Emits, Starts
  <2>2. b2 => e \in A \/ (b /\ e \notin Starts)
    BY <1>1, <1>3, <1>4 DEF Emits, Finishes, Errors, Starts
  <2>3. Alternates(pipe, c, A, Starts, Starts, b)
    BY DEF StdoutInv, OneStart
  <2>4. c \in BOOLEAN
    BY <1>3 DEF Known, Sound, States, HasNote
  <2>5. b \in BOOLEAN /\ b2 \in BOOLEAN
    OBVIOUS
  <2> HIDE DEF c, A, b, b2
  <2>6. Alternates(Append(pipe, e), c, A, Starts, Starts, b2)
    BY <1>3, <2>1, <2>2, <2>3, <2>4, <2>5, AlternatesAppend
  <2>7. QED
    BY <1>1, <1>2, <2>6 DEF OneStart, c, A, b2
<1>12. QED
  BY <1>5, <1>6, <1>7, <1>8, <1>9, <1>10, <1>11 DEF StdoutInv

\* An event is read.
LEMMA StdoutReaderKeeps ==
    ASSUME StdoutInv, StdoutReader
    PROVE  StdoutInv'
<1> DEFINE e == Head(pipe)
           s == ReadEvent(state, e)
<1>1. PICK sid \in BOOLEAN : state' = [s EXCEPT !.session = s.session \/ sid]
  BY DEF StdoutReader
<1>2. /\ pipe # <<>> /\ pipe' = Tail(pipe)
      /\ UNCHANGED <<inner, client, busy, stderr, finishes, refused, pc, reason, spared, sum>>
  BY DEF StdoutReader, loop
<1>3. /\ pipe \in Seq(Events) /\ e \in Events /\ Sound(state)
      /\ finishes \in Nat /\ sum.turns \in Nat /\ state.turns \in Nat /\ sum.died \in Nat
      /\ state.anomalies \in Seq(Anomalies) /\ busy \in BOOLEAN
  BY <1>2 DEF StdoutInv, StdoutTypes, Sound, States
<1>4. /\ Sound(s)
      /\ s.turns = state.turns + (IF e \in Finishes THEN 1 ELSE 0)
      /\ Died(s.anomalies) = Died(state.anomalies)
      /\ state.budget => s.budget
      /\ e \in Errors /\ e.budget => s.budget
  BY <1>3, ReadCounts
<1>5. /\ e \in Finishes \cup Errors => Known(s)
      /\ e \notin Starts /\ Known(state) => Known(s)
      /\ e \in Starts => s.step \notin s.finished
      /\ e \notin Finishes /\ state.step \notin state.finished => s.step \notin s.finished
  BY <1>3, ReadKnows
<1>6. Noted(s) /\ Alive(s) /\ Chosen(s) /\ Idle(s) /\ Tooled(s)
  <2>1. pc # "returned"
    BY <1>2 DEF StdoutInv, Drained
  <2>2. Noted(state) /\ Alive(state) /\ Chosen(state) /\ Idle(state) /\ Tooled(state)
    BY <2>1 DEF StdoutInv, Cut
  <2>3. e \in Finishes \cup Tools => state.step \notin state.finished
    BY <1>2, <1>3, AlternatesHead DEF StdoutInv, OneFinish
  <2>4. QED
    BY <1>3, <2>2, <2>3, ReadChooses, ReadIdles
<1> HIDE DEF s, e
<1>7. Sound(state') /\ state'.anomalies = s.anomalies /\ SameBooks(s, state')
      /\ SameTools(s, state')
  <2>1. (s.session \/ sid) \in BOOLEAN
    BY <1>4 DEF Sound, States
  <2>2. QED
    BY <1>1, <1>4, <2>1, SessionKeeps
<1>8. StdoutTypes'
  BY <1>2, <1>3, <1>7 DEF StdoutInv, StdoutTypes
<1>9. Counted'
  <2>1. Cardinality(Places(pipe, Finishes))
          = Cardinality(Places(pipe', Finishes)) + (IF e \in Finishes THEN 1 ELSE 0)
    BY <1>2, <1>3, PlacesTail DEF e
  <2>2. pipe' \in Seq(Events)
    BY <1>8 DEF StdoutTypes
  <2>3. Cardinality(Places(pipe', Finishes)) \in Nat
    BY <2>2, PlacesFinite
  <2>4. state'.turns = s.turns /\ Died(state'.anomalies) = Died(state.anomalies)
    BY <1>4, <1>7 DEF SameBooks
  <2>5. Died(state.anomalies) \in Nat /\ Counted
    BY <1>3, DiedPlaces DEF StdoutInv
  <2> DEFINE n == Cardinality(Places(pipe, Finishes))
             m == Cardinality(Places(pipe', Finishes))
             d == Died(state.anomalies)
             k == IF e \in Finishes THEN 1 ELSE 0
  <2>6. n = m + k /\ m \in Nat /\ d \in Nat
    BY <2>1, <2>3, <2>5
  <2>7. sum.turns + state.turns + n = finishes + sum.died + d
    BY <2>5 DEF Counted
  <2>8. Counted' <=> sum.turns + s.turns + m = finishes + sum.died + d
    BY <1>2, <2>4 DEF Counted
  <2>9. s.turns = state.turns + k /\ k \in Nat
    BY <1>4
  <2> HIDE DEF n, m, d, k
  <2>10. sum.turns + s.turns + m = finishes + sum.died + d
    BY <1>3, <2>6, <2>7, <2>9
  <2>11. QED
    BY <2>8, <2>10
<1>10. Heard'
  <2>1. state'.budget = s.budget
    BY <1>7 DEF SameBooks
  <2>2. Heard
    BY DEF StdoutInv
  <2>3. CASE \E i \in 1 .. Len(pipe) : pipe[i] \in Stops
    <3>1. PICK i \in 1 .. Len(pipe) : pipe[i] \in Stops
      BY <2>3
    <3>2. CASE i = 1
      <4>1. e \in Stops
        BY <1>2, <1>3, <3>1, <3>2 DEF e
      <4>2. s.budget
        BY <1>4, <4>1 DEF Stops
      <4>3. QED
        BY <2>1, <4>2 DEF Heard
    <3>3. CASE i # 1
      <4>1. i - 1 \in 1 .. Len(pipe') /\ pipe'[i - 1] = pipe[i]
        BY <1>2, <1>3, <3>3
      <4>2. QED
        BY <3>1, <4>1 DEF Heard
    <3>4. QED
      BY <3>2, <3>3
  <2>4. CASE ~\E i \in 1 .. Len(pipe) : pipe[i] \in Stops
    BY <1>2, <1>4, <2>1, <2>2, <2>4 DEF Heard
  <2>5. QED
    BY <2>3, <2>4
<1>11. Drained' /\ Gone'
  <2>1. pc # "returned"
    BY <1>2 DEF StdoutInv, Drained
  <2>2. QED
    BY <1>2, <2>1 DEF StdoutInv, Drained, Gone
<1>12. Cut'
  <2>1. Noted(state') /\ Alive(state')
    BY <1>6, <1>7 DEF SameBooks, Noted, Alive
  <2>2. Chosen(state')
    BY <1>6, <1>7 DEF SameBooks, Chosen
  <2>3. Idle(state') /\ Tooled(state')
    BY <1>6, <1>7 DEF SameBooks, SameTools, Idle, Tooled, Erred
  <2>4. QED
    BY <2>1, <2>2, <2>3 DEF Cut
<1>13. OneFinish'
  <2> DEFINE c == state.step \notin state.finished
             c2 == s.step \notin s.finished
  <2>1. Alternates(pipe, c, Starts, Finishes, Finishes \cup Tools, busy) /\ c \in BOOLEAN /\ c2 \in BOOLEAN
    BY DEF StdoutInv, OneFinish
  <2>2. (e \in Starts => c2) /\ (e \notin Finishes /\ c => c2)
    BY <1>5
  <2>3. state'.step = s.step /\ state'.finished = s.finished
    BY <1>7 DEF SameBooks
  <2> HIDE DEF c
  <2>4. OneFinish' = Alternates(Tail(pipe), c2, Starts, Finishes, Finishes \cup Tools, busy)
    BY <1>2, <2>3 DEF OneFinish
  <2> HIDE DEF c2
  <2>5. Alternates(Tail(pipe), c2, Starts, Finishes, Finishes \cup Tools, busy)
    BY <1>2, <1>3, <2>1, <2>2, AlternatesTail DEF e
  <2>6. QED
    BY <2>4, <2>5
<1>14. OneStart'
  <2> DEFINE c == Known(state)
             c2 == Known(s)
             A == Finishes \cup Errors
             b == ~busy
  <2>1. Alternates(pipe, c, A, Starts, Starts, b)
    BY DEF StdoutInv, OneStart
  <2>2. (e \in A => c2) /\ (e \notin Starts /\ c => c2)
    BY <1>5
  <2>3. c \in BOOLEAN /\ c2 \in BOOLEAN /\ b \in BOOLEAN
    BY <1>3, <1>4 DEF Known, Sound, States, HasNote
  <2>4. Known(state') = c2
    BY <1>7 DEF SameBooks, Known, HasNote
  <2> HIDE DEF c, c2, A, b
  <2>5. Alternates(Tail(pipe), c2, A, Starts, Starts, b)
    BY <1>2, <1>3, <2>1, <2>2, <2>3, AlternatesTail DEF e
  <2>6. QED
    BY <1>2, <2>4, <2>5 DEF OneStart, A, b
<1>15. QED
  BY <1>8, <1>9, <1>10, <1>11, <1>12, <1>13, <1>14 DEF StdoutInv

\* Of the other steps, most leave the books and what is to be read alone.
LEMMA BooksKept ==
    ASSUME StdoutInv,
           UNCHANGED <<state, pipe, stderr, busy, finishes, refused, sum>>,
           Drained', Gone',
           client' \in {"up", "exited", "killed"}, inner' \in BOOLEAN, spared' \in BOOLEAN,
           pc = "returned" => pc' = "returned"
    PROVE  StdoutInv'
<1>1. StdoutTypes'
  BY DEF StdoutInv, StdoutTypes
<1>2. Counted'
  BY DEF StdoutInv, Counted
<1>3. Heard'
  BY DEF StdoutInv, Heard
<1>4. Cut'
  BY DEF StdoutInv, Cut
<1>5. OneFinish' /\ OneStart'
  BY DEF StdoutInv, OneFinish, OneStart
<1>6. QED
  BY <1>1, <1>2, <1>3, <1>4, <1>5 DEF StdoutInv

\* The worker writes on stderr that the budget stopped it.
LEMMA ComplainKeeps ==
    ASSUME StdoutInv, Complain, UNCHANGED <<loop, state>>
    PROVE  StdoutInv'
<1>1. /\ UNCHANGED <<state, pipe, busy, finishes, sum, client, inner, pc, reason, spared>>
      /\ client = "up" /\ stderr' = stderr + 1 /\ refused' = refused + 1
  BY DEF Complain, loop
<1>2. StdoutTypes'
  BY <1>1 DEF StdoutInv, StdoutTypes
<1>3. Counted'
  BY <1>1 DEF StdoutInv, Counted
<1>4. Heard'
  <2>1. stderr' > 0
    BY <1>1 DEF StdoutInv, StdoutTypes
  <2>2. QED
    BY <2>1 DEF Heard
<1>5. Drained' /\ Gone'
  BY <1>1 DEF StdoutInv, Drained, Gone
<1>6. Cut'
  BY <1>1 DEF StdoutInv, Cut
<1>7. OneFinish' /\ OneStart'
  BY <1>1 DEF StdoutInv, OneFinish, OneStart
<1>8. QED
  BY <1>2, <1>3, <1>4, <1>5, <1>6, <1>7 DEF StdoutInv

\* A line of it is read.
LEMMA StderrReaderKeeps ==
    ASSUME StdoutInv, StderrReader
    PROVE  StdoutInv'
<1>1. /\ UNCHANGED <<pipe, busy, finishes, refused, sum, client, inner, pc, reason, spared>>
      /\ stderr > 0 /\ stderr' = stderr - 1
      /\ state' = [state EXCEPT !.budget = TRUE]
  BY DEF StderrReader, loop
<1>2. Sound(state) /\ stderr \in Nat
  BY DEF StdoutInv, StdoutTypes
<1>3. /\ state' \in States /\ state'.budget = TRUE
      /\ state'.anomalies = state.anomalies /\ state'.unretried = state.unretried
      /\ state'.turns = state.turns /\ state'.silent = state.silent
      /\ state'.step = state.step /\ state'.open = state.open
      /\ state'.finished = state.finished
      /\ state'.used = state.used /\ state'.tools = state.tools
  BY <1>1, <1>2 DEF Sound, States
<1>4. StdoutTypes'
  <2>1. Sound(state')
    BY <1>2, <1>3 DEF Sound
  <2>2. stderr' \in Nat
    BY <1>1, <1>2
  <2>3. QED
    BY <1>1, <2>1, <2>2 DEF StdoutInv, StdoutTypes
<1>5. Counted'
  BY <1>1, <1>3 DEF StdoutInv, Counted
<1>6. Heard'
  BY <1>3 DEF Heard
<1>7. Drained' /\ Gone'
  BY <1>1 DEF StdoutInv, Drained, Gone
<1>8. Cut'
  <2>1. pc # "returned" /\ Cut
    BY <1>1 DEF StdoutInv, Drained
  <2>2. Noted(state') /\ Alive(state') /\ Chosen(state')
    BY <1>3, <2>1 DEF Cut, Noted, Alive, Chosen
  <2>3. Idle(state') /\ Tooled(state')
    BY <1>3, <2>1 DEF Cut, Idle, Tooled, Erred
  <2>4. QED
    BY <2>2, <2>3 DEF Cut
<1>9. OneFinish'
  BY <1>1, <1>3 DEF StdoutInv, OneFinish
<1>10. OneStart'
  <2> DEFINE c == Known(state)
             b == ~busy
             A == Finishes \cup Errors
  <2>1. Alternates(pipe, c, A, Starts, Starts, b)
    BY DEF StdoutInv, OneStart
  <2>2. Known(state') = TRUE
    BY <1>3 DEF Known
  <2>3. c \in BOOLEAN /\ b \in BOOLEAN
    BY <1>2 DEF Known, Sound, States, HasNote
  <2> HIDE DEF c, b, A
  <2>4. Alternates(pipe, TRUE, A, Starts, Starts, b)
    BY <2>1, <2>3, AlternatesWeaken
  <2>5. QED
    BY <1>1, <2>2, <2>4 DEF OneStart, b, A
<1>11. QED
  BY <1>4, <1>5, <1>6, <1>7, <1>8, <1>9, <1>10 DEF StdoutInv

\* The readers are joined: a step that is still open has died.
LEMMA JoinKeeps ==
    ASSUME StdoutInv, Join
    PROVE  StdoutInv' /\ state'.stamped = FALSE
<1> DEFINE s == state
           u == [s EXCEPT !.turns = s.turns + 1, !.stamped = FALSE, !.tools = FALSE,
                          !.silent = FALSE]
           x == Anomaly(s.step, "stream_died_open", TRUE)
<1>1. /\ pc = "join" /\ pipe = <<>> /\ stderr = 0 /\ pc' = "returned"
      /\ state' = CloseOpen(s)
      /\ UNCHANGED <<worker, seen, reason, spared, runs, sum>>
  BY DEF Join
<1>2. UNCHANGED <<inner, client, busy, pipe, stderr, finishes, refused, sum, reason, spared>>
  BY <1>1 DEF worker
<1>3. /\ Sound(s) /\ s \in States /\ s.turns \in Nat /\ s.step \in Nat /\ s.stamped \in BOOLEAN
      /\ s.anomalies \in Seq(Anomalies) /\ Died(s.anomalies) \in Nat
  BY DiedPlaces DEF StdoutInv, StdoutTypes, Sound, States
<1>4. Noted(s) /\ Alive(s) /\ Chosen(s) /\ Idle(s) /\ Counted
  BY <1>1 DEF StdoutInv, Cut
<1>5. ASSUME s.stamped
      PROVE  /\ Sound(state') /\ state'.stamped = FALSE /\ state'.budget = s.budget
             /\ state'.finished = s.finished /\ state'.step = s.step
             /\ Noted(state') /\ Chosen(state') /\ Idle(state') /\ Counted'
             /\ Known(s) => Known(state')
  <2>1. state' = AppendAnomaly(u, x)
    BY <1>1, <1>5 DEF CloseOpen
  <2>2. x \in Anomalies /\ x.step = s.step /\ x.terminal = "stream_died_open"
    BY <1>3, AnomalyType DEF Terminals
  <2>3. /\ u \in States /\ u.anomalies = s.anomalies /\ u.unretried = s.unretried
        /\ u.finished = s.finished /\ u.step = s.step /\ u.budget = s.budget
        /\ u.turns = s.turns + 1 /\ u.stamped = FALSE /\ u.silent = FALSE /\ u.used = s.used
    <3> HIDE DEF s
    <3>1. s.turns + 1 \in Nat
      BY <1>3
    <3>2. u \in States
      BY <1>3, <3>1 DEF States
    <3>3. /\ u.anomalies = s.anomalies /\ u.unretried = s.unretried /\ u.used = s.used
          /\ u.finished = s.finished /\ u.step = s.step /\ u.budget = s.budget
      BY <1>3 DEF States
    <3>4. u.turns = s.turns + 1 /\ u.stamped = FALSE /\ u.silent = FALSE
      BY <1>3 DEF States
    <3>5. QED
      BY <3>2, <3>3, <3>4
  <2> HIDE DEF s, u, x
  <2>4. Sound(u)
    BY <1>3, <2>3 DEF Sound
  <2>5. /\ Sound(state') /\ state'.anomalies = Append(s.anomalies, x) /\ SameBooks(u, state')
    BY <2>1, <2>2, <2>3, <2>4, AppendKeeps
  <2>6. /\ state'.finished = s.finished /\ state'.step = s.step /\ state'.budget = s.budget
        /\ state'.turns = s.turns + 1 /\ state'.stamped = FALSE /\ state'.silent = FALSE
    BY <2>3, <2>5 DEF SameBooks
  <2>7. Died(state'.anomalies) = Died(s.anomalies) + 1
    BY <1>3, <2>2, <2>5, DiedChanges
  <2>8. Noted(state') /\ Chosen(state')
    <3>1. /\ Len(state'.anomalies) = Len(s.anomalies) + 1 /\ Len(s.anomalies) \in Nat
          /\ state'.anomalies[Len(s.anomalies) + 1] = x
          /\ \A i \in 1 .. Len(s.anomalies) : state'.anomalies[i] = s.anomalies[i]
      BY <1>3, <2>2, <2>5, NotesAppended
    <3>2. \A i \in 1 .. Len(state'.anomalies) :
            i \in 1 .. Len(s.anomalies) \/ state'.anomalies[i] = x
      BY <3>1
    <3>3. QED
      BY <1>4, <2>2, <2>6, <3>1, <3>2 DEF Noted, Chosen
  <2>9. \A i : HasNote(s, i) => HasNote(state', i)
    BY <1>3, <2>2, <2>5, NotesAppended
  <2>10. Known(s) => Known(state')
    BY <2>6, <2>9 DEF Known
  <2>11. Counted'
    <3> DEFINE n == Cardinality(Places(pipe, Finishes))
               d == Died(s.anomalies)
               a == sum.turns
               b == s.turns
               c == sum.died
    <3>1. n \in Nat /\ a \in Nat /\ c \in Nat /\ finishes \in Nat /\ b \in Nat /\ d \in Nat
      BY <1>3, PlacesFinite DEF StdoutInv, StdoutTypes
    <3>2. a + b + n = finishes + c + d
      BY <1>4 DEF Counted, s
    <3>3. Counted' <=> a + (b + 1) + n = finishes + c + (d + 1)
      BY <1>2, <2>6, <2>7 DEF Counted
    <3> HIDE DEF n, a, b, c, d
    <3>4. a + (b + 1) + n = finishes + c + (d + 1)
      BY <3>1, <3>2
    <3>5. QED
      BY <3>3, <3>4
  <2>12. QED
    BY <2>5, <2>6, <2>8, <2>10, <2>11 DEF s, Idle
<1>6. ASSUME ~s.stamped
      PROVE  /\ Sound(state') /\ state'.stamped = FALSE /\ state'.budget = s.budget
             /\ state'.finished = s.finished /\ state'.step = s.step
             /\ Noted(state') /\ Chosen(state') /\ Idle(state') /\ Counted'
             /\ Known(s) => Known(state')
  <2>1. state' = s
    BY <1>1, <1>6 DEF CloseOpen
  <2>2. Counted'
    BY <1>2, <1>4, <2>1 DEF Counted
  <2>3. QED
    BY <1>3, <1>4, <1>6, <2>1, <2>2
<1>7. /\ Sound(state') /\ state'.stamped = FALSE /\ state'.budget = s.budget
      /\ state'.finished = s.finished /\ state'.step = s.step
      /\ Noted(state') /\ Chosen(state') /\ Idle(state') /\ Counted'
      /\ Known(s) => Known(state')
  BY <1>3, <1>5, <1>6
<1>8. StdoutTypes'
  BY <1>2, <1>7 DEF StdoutInv, StdoutTypes
<1>9. Heard'
  BY <1>2, <1>7 DEF StdoutInv, Heard
<1>10. Drained' /\ Gone'
  BY <1>1, <1>2 DEF StdoutInv, Drained, Gone
<1>11. Cut'
  BY <1>1, <1>7 DEF Cut
<1>12. OneFinish'
  BY <1>2, <1>7 DEF StdoutInv, OneFinish
<1>13. OneStart'
  <2> DEFINE c == Known(s)
             c2 == Known(state')
             b == ~busy
             A == Finishes \cup Errors
  <2>1. Alternates(pipe, c, A, Starts, Starts, b) /\ (c => c2)
    BY <1>7 DEF StdoutInv, OneStart
  <2>2. c \in BOOLEAN /\ c2 \in BOOLEAN /\ b \in BOOLEAN
    BY <1>3, <1>7 DEF Known, Sound, States, HasNote
  <2>3. OneStart' = Alternates(pipe, c2, A, Starts, Starts, b)
    BY <1>2 DEF OneStart
  <2> HIDE DEF c, c2, b, A
  <2>4. QED
    BY <2>1, <2>2, <2>3, AlternatesWeaken
<1>14. QED
  BY <1>7, <1>8, <1>9, <1>10, <1>11, <1>12, <1>13 DEF StdoutInv

\* The worker is resumed, once everything has been read.
LEMMA ResumeKeeps ==
    ASSUME StdoutInv, Resume
    PROVE  StdoutInv'
<1>1. /\ pc = "returned" /\ pc' = "poll"
      /\ sum' = [turns |-> sum.turns + state.turns, budget |-> sum.budget \/ state.budget,
                 died |-> sum.died + Died(state.anomalies)]
      /\ state' = Fresh(TRUE)
      /\ inner' = TRUE /\ client' = "up" /\ busy' = FALSE /\ reason' = "none" /\ spared' = FALSE
      /\ UNCHANGED <<pipe, stderr, finishes, refused>>
  BY DEF Resume
<1>2. pipe = <<>> /\ Len(pipe) = 0 /\ stderr = 0
  BY <1>1 DEF StdoutInv, Drained
<1>3. /\ Sound(state) /\ state.turns \in Nat /\ Died(state.anomalies) \in Nat
      /\ sum.turns \in Nat /\ sum.died \in Nat /\ sum.budget \in BOOLEAN
      /\ state.budget \in BOOLEAN /\ finishes \in Nat
  BY DiedPlaces DEF StdoutInv, StdoutTypes, Sound, States
<1>4. /\ Sound(state') /\ Noted(state') /\ Alive(state') /\ Chosen(state') /\ Known(state')
      /\ Idle(state') /\ Tooled(state')
      /\ state'.turns = 0 /\ Died(state'.anomalies) = 0 /\ state'.step \notin state'.finished
  BY <1>1, FreshState
<1>5. /\ sum'.turns = sum.turns + state.turns
      /\ sum'.budget = (sum.budget \/ state.budget)
      /\ sum'.died = sum.died + Died(state.anomalies)
      /\ sum' \in [turns : Nat, budget : BOOLEAN, died : Nat]
  BY <1>1, <1>3
<1>6. StdoutTypes'
  BY <1>1, <1>4, <1>5 DEF StdoutInv, StdoutTypes
<1>7. Counted'
  <2> DEFINE n == Cardinality(Places(pipe, Finishes))
             d == Died(state.anomalies)
             a == sum.turns
             b == state.turns
             c == sum.died
  <2>1. n = 0
    <3>1. Places(pipe, Finishes) = {}
      BY <1>2 DEF Places
    <3>2. QED
      BY <3>1, FS_EmptySet
  <2>2. a + b + n = finishes + c + d
    BY DEF StdoutInv, Counted
  <2>3. Counted' <=> (a + b) + 0 + n = finishes + (c + d) + 0
    BY <1>1, <1>4, <1>5 DEF Counted
  <2>4. a \in Nat /\ b \in Nat /\ c \in Nat /\ d \in Nat
    BY <1>3
  <2> HIDE DEF n, a, b, c, d
  <2>5. (a + b) + 0 + n = finishes + (c + d) + 0
    BY <1>3, <2>1, <2>2, <2>4
  <2>6. QED
    BY <2>3, <2>5
<1>8. Heard'
  <2>1. Heard
    BY DEF StdoutInv
  <2>2. refused > 0 => sum.budget \/ state.budget
    BY <1>2, <2>1 DEF Heard
  <2>3. QED
    BY <1>1, <1>5, <2>2 DEF Heard
<1>9. Drained' /\ Gone'
  BY <1>1 DEF Drained, Gone
<1>10. Cut'
  BY <1>4 DEF Cut
<1>11. OneFinish' /\ OneStart'
  <2>1. (state'.step \notin state'.finished) = TRUE
    BY <1>4
  <2>2. Known(state') = TRUE
    BY <1>4 DEF Known
  <2>3. pipe' = <<>>
    BY <1>1, <1>2
  <2>4. QED
    BY <2>1, <2>2, <2>3, AlternatesEmpty DEF OneFinish, OneStart
<1>12. QED
  BY <1>6, <1>7, <1>8, <1>9, <1>10, <1>11 DEF StdoutInv

\* Each step keeps the invariant.
LEMMA StdoutStep == StdoutInv /\ [Next]_vars => StdoutInv'
<1> SUFFICES ASSUME StdoutInv, [Next]_vars PROVE StdoutInv'
  OBVIOUS
<1>0. client \in {"up", "exited", "killed"} /\ inner \in BOOLEAN /\ spared \in BOOLEAN /\ Drained /\ Gone
  BY DEF StdoutInv, StdoutTypes
<1>1. CASE Emit /\ UNCHANGED <<loop, state>>
  BY <1>1, EmitKeeps
<1>2. CASE Complain /\ UNCHANGED <<loop, state>>
  BY <1>2, ComplainKeeps
<1>3. CASE Exit /\ UNCHANGED <<loop, state>>
  <2>1. /\ UNCHANGED <<state, pipe, stderr, busy, finishes, refused, sum, pc, reason, spared>>
        /\ inner' = FALSE /\ client' = "exited"
    BY <1>3 DEF Exit, loop
  <2>2. Drained' /\ Gone'
    BY <1>0, <2>1 DEF Drained, Gone
  <2>3. QED
    BY <1>0, <2>1, <2>2, BooksKept
<1>4. CASE Expire
  <2>1. /\ UNCHANGED <<state, pipe, stderr, busy, finishes, refused, sum, pc, reason, spared>>
        /\ UNCHANGED <<inner, client>>
    BY <1>4 DEF Expire, loop
  <2>2. Drained' /\ Gone'
    BY <1>0, <2>1 DEF Drained, Gone
  <2>3. QED
    BY <1>0, <2>1, <2>2, BooksKept
<1>5. CASE StdoutReader
  BY <1>5, StdoutReaderKeeps
<1>6. CASE StderrReader
  BY <1>6, StderrReaderKeeps
<1>7. CASE Poll
  <2>1. /\ UNCHANGED <<state, pipe, stderr, busy, finishes, refused, sum, reason, spared, inner, client>>
        /\ pc = "poll" /\ pc' = IF client = "up" THEN "judge" ELSE "join"
    BY <1>7 DEF Poll, worker
  <2>2. Drained' /\ Gone'
    BY <1>0, <2>1 DEF Drained, Gone
  <2>3. QED
    BY <1>0, <2>1, <2>2, BooksKept
<1>8. CASE CompletionGrace
  <2>1. /\ UNCHANGED <<state, pipe, stderr, busy, finishes, refused, sum, reason, spared, inner>>
        /\ pc = "judge" /\ pc' = "join"
        /\ client' = IF client = "up" THEN "killed" ELSE client
    BY <1>8 DEF CompletionGrace, KillClient
  <2>2. Drained' /\ Gone' /\ client' \in {"up", "exited", "killed"}
    BY <1>0, <2>1 DEF Drained, Gone
  <2>3. QED
    BY <1>0, <2>1, <2>2, BooksKept
<1>9. CASE LimitKill
  <2>1. /\ UNCHANGED <<state, pipe, stderr, busy, finishes, refused, sum>>
        /\ pc = "judge" /\ pc' = "join"
        /\ \/ inner' = FALSE /\ spared' = spared
           \/ inner' = inner /\ spared' = TRUE
        /\ client' = IF client = "up" THEN "killed" ELSE client
    BY <1>9 DEF LimitKill, KillClient, RunKillHook
  <2>2. Drained' /\ Gone' /\ client' \in {"up", "exited", "killed"}
    BY <1>0, <2>1 DEF Drained, Gone
  <2>3. QED
    BY <1>0, <2>1, <2>2, BooksKept
<1>10. CASE Sleep
  <2>1. /\ UNCHANGED <<state, pipe, stderr, busy, finishes, refused, sum, reason, spared, inner, client>>
        /\ pc = "judge" /\ pc' = "poll"
    BY <1>10 DEF Sleep, worker
  <2>2. Drained' /\ Gone'
    BY <1>0, <2>1 DEF Drained, Gone
  <2>3. QED
    BY <1>0, <2>1, <2>2, BooksKept
<1>11. CASE Join
  BY <1>11, JoinKeeps
<1>12. CASE Resume
  BY <1>12, ResumeKeeps
<1>13. CASE UNCHANGED vars
  <2>1. /\ UNCHANGED <<state, pipe, stderr, busy, finishes, refused, sum, pc, reason, spared>>
        /\ UNCHANGED <<inner, client>>
    BY <1>13 DEF vars, worker, loop
  <2>2. Drained' /\ Gone'
    BY <1>0, <2>1 DEF Drained, Gone
  <2>3. QED
    BY <1>0, <2>1, <2>2, BooksKept
<1>14. QED
  BY <1>1, <1>2, <1>3, <1>4, <1>5, <1>6, <1>7, <1>8, <1>9, <1>10, <1>11, <1>12, <1>13
  DEF Next, Worker, Readers, Loop

LEMMA StdoutInvariant == Spec => []StdoutInv
BY StdoutInit, StdoutStep, PTL DEF Spec

(***************************************************************************)
(* The theorems.                                                           *)
(***************************************************************************)
\* Nothing the worker said goes unheard: when the readers are joined, every step_finish it
\* wrote is a turn counted once, over all the invocations, and a budget stop it reported,
\* in an event or on stderr, is known (the reader threads and their joins).
THEOREM EverythingIsHeard == Spec => []NothingUnheard
<1>1. StdoutInv => NothingUnheard
  <2> SUFFICES ASSUME StdoutInv, pc = "returned"
               PROVE  /\ sum.turns + state.turns = finishes + sum.died + Died(state.anomalies)
                      /\ refused > 0 => sum.budget \/ state.budget
    BY DEF NothingUnheard
  <2>1. pipe = <<>> /\ Len(pipe) = 0 /\ stderr = 0
    BY DEF StdoutInv, Drained
  <2>2. Cardinality(Places(pipe, Finishes)) = 0
    <3>1. Places(pipe, Finishes) = {}
      BY <2>1 DEF Places
    <3>2. QED
      BY <3>1, FS_EmptySet
  <2>3. /\ sum.turns + state.turns + Cardinality(Places(pipe, Finishes))
             = finishes + sum.died + Died(state.anomalies)
        /\ Heard
    BY DEF StdoutInv, Counted
  <2>4. sum.turns \in Nat /\ state.turns \in Nat
    BY DEF StdoutInv, StdoutTypes, Sound, States
  <2>5. sum.turns + state.turns = finishes + sum.died + Died(state.anomalies)
    BY <2>2, <2>3, <2>4
  <2>6. refused > 0 => sum.budget \/ state.budget
    BY <2>1, <2>3 DEF Heard
  <2>7. QED
    BY <2>5, <2>6
<1>2. QED
  BY <1>1, StdoutInvariant, PTL

\* A worker is nudged only for a silence of its own: the turn that earns it was ended by the
\* worker, not by the transport, and used no tool, unless an error was reported in it (the
\* resumes of _run_opencode_with_zero_tool_resumes).
THEOREM SilenceIsTheWorkers == Spec => []SilenceIsChosen
<1>1. StdoutInv => SilenceIsChosen
  <2> DEFINE a == state.anomalies
             noted == {a[i].terminal : i \in {i \in DOMAIN a : a[i].step = state.step}}
  <2> SUFFICES ASSUME StdoutInv, state.silent
               PROVE  /\ ~state.open /\ state.step \in state.finished
                      /\ noted \cap {"truncated", "stream_died_open"} = {}
                      /\ state.step \in state.used => "transport_error" \in noted
    BY DEF SilenceIsChosen
  <2>1. Chosen(state) /\ Idle(state) /\ a \in Seq(Anomalies) /\ state.step \in Nat
    BY DEF StdoutInv, Cut, StdoutTypes, Sound, States
  <2>2. DOMAIN a = 1 .. Len(a)
    BY <2>1
  <2>3. ~state.open /\ state.step \in state.finished
    BY <2>1 DEF Chosen, Idle
  <2>4. \A i \in DOMAIN a : a[i].step = state.step
                           => a[i].terminal \notin {"truncated", "stream_died_open"}
    BY <2>1, <2>2 DEF Chosen
  <2>5. state.step \in state.used =>
            \E i \in DOMAIN a : a[i].terminal = "transport_error" /\ a[i].step = state.step
    BY <2>1, <2>2 DEF Idle, Erred
  <2> HIDE DEF a
  <2>6. QED
    BY <2>3, <2>4, <2>5
<1>2. QED
  BY <1>1, StdoutInvariant, PTL

\* A run that was stopped at a limit leaves no worker writing in the container, unless the
\* kill hook failed (the kill hook of _run_opencode, and a docker exec that dies without
\* the process it started).
THEOREM NoWorkerIsLeft == Spec => []WorkerGone
<1>1. StdoutInv => WorkerGone
  BY DEF StdoutInv, StdoutTypes, Drained, Gone, WorkerGone
<1>2. QED
  BY <1>1, StdoutInvariant, PTL

\* The steps begun in this invocation are shown, and the one left open is closed by the
\* return.
Visible == Shown(state) /\ (pc = "returned" => ~state.stamped)

LEMMA VisibleInit == Init => Visible
BY FreshState DEF Init, Visible

LEMMA VisibleStep ==
    ASSUME Stamps = {TRUE}, StdoutInv, Visible, [Next]_vars
    PROVE  Visible'
<1>1. Sound(state)
  BY DEF StdoutInv, StdoutTypes
<1>2. ASSUME UNCHANGED state, pc' = "returned" => pc = "returned" PROVE Visible'
  BY <1>2 DEF Visible
<1>3. CASE Worker
  BY <1>2, <1>3 DEF Worker, loop
<1>4. CASE Expire
  BY <1>2, <1>4 DEF Expire, loop
<1>5. CASE StdoutReader
  <2> DEFINE e == Head(pipe)
             s == ReadEvent(state, e)
  <2>1. PICK sid \in BOOLEAN : state' = [s EXCEPT !.session = s.session \/ sid]
    BY <1>5 DEF StdoutReader
  <2>2. pipe # <<>> /\ pc' = pc
    BY <1>5 DEF StdoutReader, loop
  <2>3. pipe \in Seq(Events) /\ e \in Events
    BY <2>2 DEF StdoutInv, StdoutTypes
  <2>4. Sound(s)
    BY <1>1, <2>3, ReadCounts
  <2>5. e \in Starts => Known(state)
    <3> DEFINE A == Finishes \cup Errors
               b == ~busy
               c == Known(state)
    <3>1. Alternates(pipe, c, A, Starts, Starts, b)
      BY DEF StdoutInv, OneStart
    <3> HIDE DEF A, b, c
    <3>2. Head(pipe) \in Starts => c
      BY <2>2, <2>3, <3>1, AlternatesHead
    <3>3. QED
      BY <3>2 DEF c
  <2>6. Shown(s)
    BY <1>1, <2>3, <2>5, ReadShows DEF Visible
  <2> HIDE DEF s, e
  <2>7. Sound(state') /\ state'.anomalies = s.anomalies /\ SameBooks(s, state')
    <3>1. (s.session \/ sid) \in BOOLEAN
      BY <2>4 DEF Sound, States
    <3>2. QED
      BY <2>1, <2>4, <3>1, SessionKeeps
  <2>8. Shown(state')
    BY <2>6, <2>7 DEF SameBooks, Shown, HasNote
  <2>9. pc # "returned"
    BY <2>2 DEF StdoutInv, Drained
  <2>10. QED
    BY <2>2, <2>8, <2>9 DEF Visible
<1>6. CASE StderrReader
  <2>1. /\ stderr > 0 /\ pc' = pc
        /\ state' = [state EXCEPT !.budget = TRUE]
    BY <1>6 DEF StderrReader, loop
  <2>2. state'.budget = TRUE
    BY <1>1, <2>1 DEF Sound, States
  <2>3. pc # "returned"
    BY <2>1 DEF StdoutInv, Drained
  <2>4. QED
    BY <2>1, <2>2, <2>3 DEF Visible, Shown
<1>7. CASE Poll \/ CompletionGrace \/ LimitKill \/ Sleep
  BY <1>2, <1>7 DEF Poll, CompletionGrace, LimitKill, Sleep
<1>8. CASE Join
  <2>1. state' = CloseOpen(state)
    BY <1>8 DEF Join
  <2>2. state'.stamped = FALSE
    BY <1>8, JoinKeeps
  <2>3. CASE state.stamped
    <3> DEFINE s == state
               u == [s EXCEPT !.turns = s.turns + 1, !.stamped = FALSE, !.tools = FALSE,
                              !.silent = FALSE]
               x == Anomaly(s.step, "stream_died_open", TRUE)
    <3>1. state' = AppendAnomaly(u, x)
      BY <2>1, <2>3 DEF CloseOpen
    <3>2. x \in Anomalies /\ x.step = s.step
      BY <1>1, AnomalyType DEF Terminals, Sound, States
    <3>3. /\ u \in States /\ u.anomalies = s.anomalies /\ u.unretried = s.unretried
          /\ u.finished = s.finished /\ u.step = s.step /\ u.budget = s.budget
          /\ u.used = s.used
      <4>1. s \in States /\ s.turns + 1 \in Nat
        BY <1>1 DEF Sound, States
      <4> HIDE DEF s
      <4>2. u \in States
        BY <4>1 DEF States
      <4>3. QED
        BY <4>1, <4>2 DEF States
    <3> HIDE DEF u, x
    <3>4. Sound(u)
      BY <1>1, <3>3 DEF Sound
    <3>5. state'.anomalies = Append(s.anomalies, x) /\ SameBooks(u, state')
      BY <3>1, <3>2, <3>3, <3>4, AppendKeeps
    <3>6. HasNote(state', s.step) /\ \A i : HasNote(s, i) => HasNote(state', i)
      BY <1>1, <3>2, <3>5, NotesAppended
    <3>7. state'.finished = s.finished /\ state'.step = s.step /\ state'.budget = s.budget
      BY <3>3, <3>5 DEF SameBooks
    <3> HIDE DEF s
    <3>8. Shown(s)
      BY DEF Visible, s
    <3>9. Shown(state')
      BY <3>6, <3>7, <3>8 DEF Shown
    <3>10. QED
      BY <2>2, <3>9 DEF Visible
  <2>4. CASE ~state.stamped
    BY <2>1, <2>2, <2>4 DEF CloseOpen, Visible
  <2>5. QED
    BY <2>3, <2>4
<1>9. CASE Resume
  <2>1. state' = Fresh(TRUE) /\ pc' = "poll"
    BY <1>9 DEF Resume
  <2>2. QED
    BY <2>1, FreshState DEF Visible
<1>10. CASE UNCHANGED vars
  BY <1>2, <1>10 DEF vars, loop
<1>11. QED
  BY <1>3, <1>4, <1>5, <1>6, <1>7, <1>8, <1>9, <1>10 DEF Next, Readers, Loop

\* "A burned turn must never be invisible" holds of every step the worker begins, as long
\* as each step_start carries its timestamp: the return closes no step that has none
\* (the end of _run_opencode).
THEOREM NoTurnIsInvisible ==
    ASSUME Stamps = {TRUE}
    PROVE  Spec => []NoTurnInvisible
<1>1. StdoutInv /\ Visible => NoTurnInvisible
  <2> SUFFICES ASSUME StdoutInv, Visible, pc = "returned", ~state.budget,
                      NEW i \in 1 .. state.step
               PROVE  \/ i \in state.finished
                      \/ \E a \in DOMAIN state.anomalies : state.anomalies[a].step = i
    BY DEF NoTurnInvisible
  <2>1. i \in state.finished \/ HasNote(state, i)
    BY DEF Visible, Shown
  <2>2. DOMAIN state.anomalies = 1 .. Len(state.anomalies)
    BY DEF StdoutInv, StdoutTypes, Sound, States
  <2>3. QED
    BY <2>1, <2>2 DEF HasNote
<1>2. StdoutInv /\ Visible /\ [Next]_vars => Visible'
  BY VisibleStep
<1>3. QED
  BY <1>1, <1>2, VisibleInit, StdoutInvariant, PTL DEF Spec

(***************************************************************************)
(* Past its deadline, a run comes to its end.                              *)
(***************************************************************************)
Way(p) == CASE p = "poll" -> 0 [] p = "judge" -> 1 [] p = "join" -> 2 [] OTHER -> 3

Backlog == Len(pipe) + stderr

\* Past its deadline the loop only goes on, by each of its steps; once it waits for the
\* readers nothing more is written for them, and each of their steps leaves them less.
NoWayBack ==
    /\ expired /\ pc \in {"poll", "judge"} =>
         /\ expired' /\ Way(pc') >= Way(pc)
         /\ Loop => Way(pc') > Way(pc)
    /\ pc = "join" =>
         /\ pc' \in {"join", "returned"}
         /\ Backlog' <= Backlog
         /\ Readers => Backlog' < Backlog
         /\ Loop => pc' = "returned"

\* The client is gone when the loop waits for the readers.
Closed == pc \in {"join", "returned"} => client # "up"

\* Every step keeps the client of a run that is over gone.
LEMMA ClosedStep == Closed /\ [Next]_vars => Closed'
<1> SUFFICES ASSUME Closed, [Next]_vars PROVE Closed'
  OBVIOUS
<1> USE DEF Closed, worker, loop
<1>1. CASE Worker \/ Expire \/ Readers \/ UNCHANGED vars
  BY <1>1 DEF Worker, Emit, Complain, Exit, Expire, Readers, StdoutReader, StderrReader, vars
<1>2. CASE Poll \/ Sleep \/ Join
  BY <1>2 DEF Poll, Sleep, Join
<1>3. CASE CompletionGrace \/ LimitKill
  BY <1>3 DEF CompletionGrace, LimitKill, KillClient
<1>4. CASE Resume
  BY <1>4 DEF Resume
<1>5. QED
  BY <1>1, <1>2, <1>3, <1>4 DEF Next, Loop

\* A step of a reader takes one event or one line.
LEMMA ReadersTake ==
    ASSUME pipe \in Seq(Events), stderr \in Nat, Readers
    PROVE  Backlog' < Backlog /\ UNCHANGED <<pc, client, expired>>
<1>1. CASE StdoutReader
  <2>1. pipe # <<>> /\ pipe' = Tail(pipe) /\ stderr' = stderr
        /\ UNCHANGED <<pc, client, expired>>
    BY <1>1 DEF StdoutReader, loop
  <2>2. Len(Tail(pipe)) = Len(pipe) - 1 /\ Len(pipe) \in Nat
    BY <2>1
  <2>3. QED
    BY <2>1, <2>2 DEF Backlog
<1>2. CASE StderrReader
  <2>1. stderr > 0 /\ stderr' = stderr - 1 /\ pipe' = pipe /\ UNCHANGED <<pc, client, expired>>
    BY <1>2 DEF StderrReader, loop
  <2>2. Len(pipe) \in Nat
    OBVIOUS
  <2>3. QED
    BY <2>1, <2>2 DEF Backlog
<1>3. QED
  BY <1>1, <1>2 DEF Readers

\* No step takes a run back that is past its deadline or waits for its readers.
LEMMA NoWayBackStep == StdoutInv /\ Closed /\ [Next]_vars => [NoWayBack]_vars
<1> SUFFICES ASSUME StdoutInv, Closed, Next PROVE NoWayBack
  OBVIOUS
<1>0. /\ pipe \in Seq(Events) /\ stderr \in Nat /\ Backlog \in Nat
      /\ Way("poll") = 0 /\ Way("judge") = 1 /\ Way("join") = 2 /\ Way("returned") = 3
  BY DEF StdoutInv, StdoutTypes, Backlog, Way
<1>1. ASSUME expired, pc \in {"poll", "judge"}
      PROVE  expired' /\ Way(pc') >= Way(pc) /\ (Loop => Way(pc') > Way(pc))
  <2> USE <1>0, <1>1 DEF worker, loop
  <2>1. CASE Loop
    <3>1. CASE Poll
      BY <3>1 DEF Poll
    <3>2. CASE CompletionGrace \/ LimitKill
      <4>1. pc = "judge" /\ pc' = "join" /\ expired' = expired
        BY <3>2 DEF CompletionGrace, LimitKill
      <4>2. QED
        BY <4>1
    <3>3. CASE Sleep \/ Join
      BY <3>3 DEF Sleep, Join, Limit
    <3>4. QED
      BY <2>1, <3>1, <3>2, <3>3 DEF Loop
  <2>2. ASSUME ~Loop PROVE expired' /\ pc' = pc
    <3>1. CASE Worker \/ Expire
      BY <3>1 DEF Worker, Emit, Complain, Exit, Expire
    <3>2. CASE Readers
      BY <3>2, ReadersTake
    <3>3. CASE Resume
      BY <3>3 DEF Resume
    <3>4. QED
      BY <2>2, <3>1, <3>2, <3>3 DEF Next
  <2>3. QED
    BY <2>1, <2>2
<1>2. ASSUME pc = "join"
      PROVE  /\ pc' \in {"join", "returned"} /\ Backlog' <= Backlog
             /\ Readers => Backlog' < Backlog
             /\ Loop => pc' = "returned"
  <2>1. client # "up"
    BY <1>2 DEF Closed
  <2>2. ~Worker \/ UNCHANGED <<pc, pipe, stderr>>
    BY <2>1 DEF Worker, Emit, Complain, Exit
  <2>3. ~Expire /\ ~Resume /\ ~Poll /\ ~CompletionGrace /\ ~LimitKill /\ ~Sleep
    BY <1>2 DEF Expire, Resume, Poll, CompletionGrace, LimitKill, Sleep
  <2>4. Readers => pc' = pc /\ Backlog' < Backlog /\ Backlog' \in Int
    <3>1. ASSUME Readers PROVE Backlog' \in Int
      <4>1. CASE StdoutReader
        <5>1. pipe # <<>> /\ pipe' = Tail(pipe) /\ stderr' = stderr
          BY <4>1 DEF StdoutReader
        <5>2. Len(Tail(pipe)) \in Int
          BY <1>0, <5>1
        <5>3. QED
          BY <1>0, <5>1, <5>2 DEF Backlog
      <4>2. CASE StderrReader
        <5>1. stderr' = stderr - 1 /\ pipe' = pipe
          BY <4>2 DEF StderrReader
        <5>2. QED
          BY <1>0, <5>1 DEF Backlog
      <4>3. QED
        BY <3>1, <4>1, <4>2 DEF Readers
    <3>2. QED
      BY <3>1, <1>0, ReadersTake
  <2>5. Join => pc' = "returned" /\ UNCHANGED <<pipe, stderr>>
    BY DEF Join, worker
  <2>6. CASE Readers
    BY <1>0, <1>2, <2>3, <2>4, <2>5, <2>6 DEF Loop, Join
  <2>7. CASE ~Readers
    <3>1. UNCHANGED <<pipe, stderr>> /\ pc' \in {"join", "returned"} /\ (Loop => Join)
      BY <1>2, <2>2, <2>3, <2>5, <2>7 DEF Next, Loop
    <3>2. Backlog' = Backlog
      BY <3>1 DEF Backlog
    <3>3. QED
      BY <1>0, <2>5, <2>7, <3>1, <3>2
  <2>8. QED
    BY <2>6, <2>7
<1>3. QED
  BY <1>1, <1>2 DEF NoWayBack

\* Past its deadline a run is two steps of the loop away from the join, however the worker
\* hangs or goes on writing, and from the join as many steps of the readers away from its
\* return as there are events and lines unread: nothing is written behind them any more.
\* This is RunReturns short of its fairness.
THEOREM NoRunTurnsBack == Spec => [][NoWayBack]_vars
<1>1. Init => Closed
  BY DEF Init, Closed
<1>2. QED
  BY <1>1, ClosedStep, NoWayBackStep, StdoutInvariant, PTL DEF Spec

=============================================================================
