---------------------------- MODULE LadderProofs ----------------------------
(***************************************************************************)
(* What the ladder's files say, for every set of units, labels and command *)
(* lines, any number of retries, launches and deaths.                      *)
(*                                                                         *)
(* Files outlive the processes that write them, and an orphan may write    *)
(* beside the child of a later launch.  So the invariant says of each file *)
(* what is true of it whoever wrote it: every verdict, in a checkpoint, on *)
(* a scorecard or in the memory of a child, is of a cell that ran under    *)
(* that label and model (Backed).  Only the protection of saved cells      *)
(* depends on who else may write (Kept).                                   *)
(***************************************************************************)
EXTENDS Ladder, FiniteSetTheorems, SequenceTheorems, TLAPS

(***************************************************************************)
(* The inductive invariant.                                                *)
(***************************************************************************)
Models == {ModelOf[u] : u \in Units}
Cells == {NoCell} \cup [verdict : Verdicts, carded : BOOLEAN]
Tables == [Modes -> Cells]
Cards == {[label |-> l, model |-> m, cells |-> t, diffs |-> ModelDiffs(t)] :
             l \in Labels, m \in Models, t \in Tables}

\* A child before and after it has read its checkpoint.
Early == {"parse", "preflight", "load"}
Late == {"modes", "meter", "save", "final", "result"}

Children == [pc : Early \cup Late \cup {"exit"}, ask : Asks, i : Nat \ {0}, mem : Tables,
             cur : Cells, exit : 0 .. 2, out : {"", "ok", "preflight_failed"}, alone : BOOLEAN]

LadderTypes ==
    /\ lpc \in {"down", "loop", "child", "clean"}
    /\ ask \in Asks \cup {NoAsk} /\ (lpc # "down" => ask \in Asks)
    /\ launch \in Nat /\ attempt \in 0 .. MaxRetries /\ faults \in Nat
    /\ child \in [Slots -> Children \cup {NoChild}]
    /\ units \in [Units -> Nat] /\ askedBy \in [Units -> Asks \cup {NoAsk}]
    /\ ckpt \in [Labels -> [model : Models \cup {"-"}, cells : Tables]]
    /\ cards \subseteq Cards
    /\ logs \subseteq Nat \X Nat /\ escal \in [Labels -> SUBSET (Nat \X Nat)]
    /\ ran \subseteq Labels \X Modes \X Models \X Verdicts

\* The ladder has a child of its own exactly while it waits for one, which works on what
\* the ladder was asked.
Owned ==
    /\ lpc = "child" => child["own"] # NoChild /\ child["own"].ask = ask
    /\ lpc # "child" => child["own"] = NoChild

\* The verdicts of a table are of cells that ran.
Backed(l, m, t, R) == \A x \in Done(t) : <<l, x, m, t[x].verdict>> \in R

\* There is a scorecard for what was asked.
HasCard(a, K) ==
    \E k \in K : /\ k.label = a.label /\ k.model = ModelOf[a.unit]
                 /\ Done(k.cells) = AskedModes(a)

ExitedOk(c) == c.pc = "exit" /\ UnitOk(c) /\ ~c.ask.dry

\* A child's memory is backed; the modes it has passed have a cell; the cell in hand ran
\* and, on a resume, is a new one; and it has written its scorecard before it says so.
Sound(c, R, K) ==
    LET M == ParseModes(c.ask.raw) IN
    /\ Backed(c.ask.label, ModelOf[c.ask.unit], c.mem, R)
    /\ c.pc \in Early => c.i = 1
    /\ c.i <= Len(M) + 1
    /\ \A j \in DOMAIN M : j < c.i => M[j] \in Done(c.mem)
    /\ c.pc \in {"meter", "save"} =>
          /\ c.i \in DOMAIN M /\ c.cur # NoCell
          /\ <<c.ask.label, M[c.i], ModelOf[c.ask.unit], c.cur.verdict>> \in R
          /\ c.ask.resume => M[c.i] \notin Done(c.mem)
    /\ c.pc \in {"final", "result"} \/ ExitedOk(c) => HasCard(c.ask, K)

ChildrenSound == \A s \in Slots : child[s] # NoChild => Sound(child[s], ran, cards)
FilesBacked == \A l \in Labels : Backed(l, ckpt[l].model, ckpt[l].cells, ran)
CardsBacked == \A k \in cards : Backed(k.label, k.model, k.cells, ran)

\* A resumed child that found no orphan has in memory what its checkpoint has.
Kept ==
    LET c == child["own"] IN
    (c.pc \in Late /\ c.ask.resume /\ c.alone) =>
        /\ ~Alive("orphan")
        /\ \A m \in Done(ckpt[c.ask.label].cells) :
              c.mem[m].verdict = ckpt[c.ask.label].cells[m].verdict

\* An escalation file names the attempts of a launch that is over; the attempts so far
\* have their logs.
LogsOf(L) == {<<L, n>> : n \in 1 .. MaxRetries}
Evidence ==
    /\ \A l \in Labels : escal[l] = {} \/ \E L \in 0 .. launch :
          /\ L < launch \/ (L = launch /\ lpc = "down")
          /\ escal[l] = LogsOf(L) /\ LogsOf(L) \subseteq logs
    /\ lpc # "down" => {<<launch, n>> : n \in 1 .. attempt} \subseteq logs

LadderInv == LadderTypes /\ Owned /\ ChildrenSound /\ FilesBacked /\ CardsBacked
             /\ OkIsScored /\ Kept /\ Evidence

-----------------------------------------------------------------------------
(***************************************************************************)
(* What ParseModes returns: its k-th mode is the entry with k first        *)
(* occurrences up to and including it.                                     *)
(***************************************************************************)
UpTo(F, i) == {j \in F : j <= i}

LEMMA UpToGrows ==
    ASSUME NEW F \in SUBSET Nat, NEW i \in F, NEW j \in F, i < j
    PROVE  UpTo(F, i) \in SUBSET UpTo(F, j) /\ j \in UpTo(F, j) /\ j \notin UpTo(F, i)
<1>1. i \in Nat /\ j \in Nat /\ F \subseteq Nat
  OBVIOUS
<1>2. j <= j /\ ~(j <= i)
  BY <1>1
<1>3. \A h \in Nat : h <= i => h <= j
  BY <1>1
<1> QED BY <1>1, <1>2, <1>3 DEF UpTo

\* The numbers of a finite set have the ranks 1, 2, ... in it, each once.
LEMMA Ranks ==
    ASSUME NEW F \in SUBSET Nat, IsFiniteSet(F)
    PROVE  /\ Cardinality(F) \in Nat
           /\ \A k \in 1 .. Cardinality(F) : \E i \in F : Cardinality(UpTo(F, i)) = k
           /\ \A i \in F : Cardinality(UpTo(F, i)) \in 1 .. Cardinality(F)
           /\ \A i, j \in F : Cardinality(UpTo(F, i)) = Cardinality(UpTo(F, j)) => i = j
<1> DEFINE n == Cardinality(F)
           f == [i \in F |-> Cardinality(UpTo(F, i))]
<1>1. n \in Nat
  BY FS_CardinalityType
<1>2. ASSUME NEW i \in F
      PROVE  IsFiniteSet(UpTo(F, i)) /\ Cardinality(UpTo(F, i)) \in 1 .. n
  <2>1. UpTo(F, i) \in SUBSET F /\ i \in UpTo(F, i)
    BY DEF UpTo
  <2>2. IsFiniteSet(UpTo(F, i)) /\ Cardinality(UpTo(F, i)) <= n
    BY <2>1, FS_Subset
  <2>3. Cardinality(UpTo(F, i)) \in Nat /\ Cardinality(UpTo(F, i)) # 0
    BY <2>1, <2>2, FS_CardinalityType, FS_EmptySet
  <2> QED BY <1>1, <2>2, <2>3
<1>3. ASSUME NEW i \in F, NEW j \in F, i < j
      PROVE  Cardinality(UpTo(F, i)) # Cardinality(UpTo(F, j))
  <2>1. UpTo(F, i) \in SUBSET UpTo(F, j) /\ j \in UpTo(F, j) /\ j \notin UpTo(F, i)
    BY <1>3, UpToGrows
  <2>2. IsFiniteSet(UpTo(F, j))
    BY <1>2
  <2> QED BY <2>1, <2>2, FS_Subset
<1>4. \A i, j \in F : Cardinality(UpTo(F, i)) = Cardinality(UpTo(F, j)) => i = j
  <2> SUFFICES ASSUME NEW i \in F, NEW j \in F, i # j
               PROVE  Cardinality(UpTo(F, i)) # Cardinality(UpTo(F, j))
    OBVIOUS
  <2>1. i < j \/ j < i
    OBVIOUS
  <2> QED BY <1>3, <2>1
<1>5. f \in Injection(F, 1 .. n)
  <2>1. f \in [F -> 1 .. n]
    BY <1>2
  <2>2. \A i, j \in F : f[i] = f[j] => i = j
    BY <1>4
  <2> HIDE DEF f
  <2> QED BY <2>1, <2>2 DEF Injection, IsInjective
<1>6. f \in Surjection(F, 1 .. n)
  <2>1. IsFiniteSet(1 .. n) /\ Cardinality(1 .. n) = n
    BY <1>1, FS_Interval
  <2> HIDE DEF f
  <2> QED BY <1>5, <2>1, FS_Injection
<1>7. \A k \in 1 .. n : \E i \in F : f[i] = k
  <2> HIDE DEF f, n
  <2> QED BY <1>6 DEF Surjection
<1> QED BY <1>1, <1>2, <1>4, <1>7

\* The entries ParseModes keeps.
Firsts(raw) == {i \in DOMAIN raw : raw[i] # "" /\ \A j \in 1 .. i - 1 : raw[j] # raw[i]}
Entry(raw, k) == CHOOSE i \in Firsts(raw) : Cardinality(UpTo(Firsts(raw), i)) = k

LEMMA ParseModesUnfold ==
    ASSUME NEW raw
    PROVE  ParseModes(raw) = IF \E i \in DOMAIN raw : raw[i] = "bad" THEN <<>>
                             ELSE [k \in 1 .. Cardinality(Firsts(raw)) |-> raw[Entry(raw, k)]]
  BY DEF ParseModes, Firsts, Entry, UpTo

LEMMA RawList ==
    ASSUME NEW raw \in Seq(RawModes)
    PROVE  /\ DOMAIN raw \in SUBSET (Nat \ {0}) /\ IsFiniteSet(DOMAIN raw)
           /\ \A j \in DOMAIN raw : \A g \in 1 .. j - 1 : g \in DOMAIN raw /\ g < j
<1>1. Len(raw) \in Nat /\ DOMAIN raw = 1 .. Len(raw)
  BY LenProperties
<1>2. ASSUME NEW n \in Nat
      PROVE  /\ 1 .. n \in SUBSET (Nat \ {0}) /\ IsFiniteSet(1 .. n)
             /\ \A j \in 1 .. n : \A g \in 1 .. j - 1 : g \in 1 .. n /\ g < j
  <2>1. 1 \in Int /\ n \in Int
    OBVIOUS
  <2>2. IsFiniteSet(1 .. n)
    BY <2>1, FS_Interval
  <2> QED BY <2>2
<1> QED BY <1>1, <1>2

LEMMA FirstsFinite ==
    ASSUME NEW raw \in Seq(RawModes)
    PROVE  /\ Firsts(raw) \in SUBSET Nat /\ IsFiniteSet(Firsts(raw))
           /\ Cardinality(Firsts(raw)) \in Nat
<1>1. Firsts(raw) \in SUBSET DOMAIN raw
  BY DEF Firsts
<1>2. IsFiniteSet(Firsts(raw))
  BY <1>1, RawList, FS_Subset
<1> QED BY <1>1, <1>2, RawList, FS_CardinalityType

LEMMA EntryProperties ==
    ASSUME NEW raw \in Seq(RawModes), NEW k \in 1 .. Cardinality(Firsts(raw))
    PROVE  Entry(raw, k) \in Firsts(raw) /\ Cardinality(UpTo(Firsts(raw), Entry(raw, k))) = k
<1>1. \E i \in Firsts(raw) : Cardinality(UpTo(Firsts(raw), i)) = k
  BY FirstsFinite, Ranks
<1> QED BY <1>1 DEF Entry

\* A finite set of numbers that is not empty has a least one.
LEMMA Least ==
    ASSUME NEW F \in SUBSET Nat, IsFiniteSet(F), F # {}
    PROVE  \E j \in F : \A h \in F : ~(h < j)
<1>1. Cardinality(F) \in Nat /\ Cardinality(F) # 0
  BY FS_CardinalityType, FS_EmptySet
<1>2. 1 \in 1 .. Cardinality(F)
  BY <1>1
<1>3. PICK j \in F : Cardinality(UpTo(F, j)) = 1
  BY <1>2, Ranks
<1>4. ASSUME NEW h \in F, h < j
      PROVE  FALSE
  <2>1. UpTo(F, h) \in SUBSET UpTo(F, j) /\ j \in UpTo(F, j) /\ j \notin UpTo(F, h)
    BY <1>4, UpToGrows
  <2>2. UpTo(F, j) \in SUBSET F
    BY DEF UpTo
  <2>3. IsFiniteSet(UpTo(F, j))
    BY <2>2, FS_Subset
  <2>4. Cardinality(UpTo(F, h)) <= 1 /\ Cardinality(UpTo(F, h)) # 1
    BY <1>3, <2>1, <2>3, FS_Subset
  <2>5. Cardinality(UpTo(F, h)) \in 1 .. Cardinality(F)
    BY Ranks
  <2>6. Cardinality(UpTo(F, h)) \in Nat /\ Cardinality(UpTo(F, h)) >= 1
    BY <1>1, <2>5
  <2> QED BY <2>4, <2>6
<1> QED BY <1>4

\* Among the entries with the same mode there is a first one.
LEMMA FirstOccurrence ==
    ASSUME NEW raw \in Seq(RawModes), NEW i \in DOMAIN raw, raw[i] # ""
    PROVE  \E j \in Firsts(raw) : raw[j] = raw[i]
<1> DEFINE same == {j \in DOMAIN raw : raw[j] = raw[i]}
<1>1. same \in SUBSET DOMAIN raw /\ i \in same
  OBVIOUS
<1>2. PICK j \in same : \A h \in same : ~(h < j)
  <2> HIDE DEF same
  <2>1. IsFiniteSet(same) /\ same \in SUBSET Nat /\ same # {}
    BY <1>1, RawList, FS_Subset
  <2> QED BY <2>1, Least
<1>3. \A g \in 1 .. j - 1 : raw[g] # raw[j]
  <2>1. \A g \in 1 .. j - 1 : g \in DOMAIN raw /\ g < j
    BY <1>2, RawList
  <2> QED BY <1>2, <2>1
<1> QED BY <1>2, <1>3 DEF Firsts

\* ParseModes returns a list of modes, and on an unknown mode the empty list.
LEMMA ParseModesType ==
    ASSUME NEW raw \in Seq(RawModes)
    PROVE  /\ ParseModes(raw) \in Seq(Modes)
           /\ DOMAIN ParseModes(raw) = 1 .. Len(ParseModes(raw)) /\ Len(ParseModes(raw)) \in Nat
<1> DEFINE n == Cardinality(Firsts(raw))
<1>1. CASE \E i \in DOMAIN raw : raw[i] = "bad"
  <2>1. ParseModes(raw) = <<>>
    BY <1>1, ParseModesUnfold
  <2> QED BY <2>1, EmptySeq, LenProperties
<1>2. CASE ~\E i \in DOMAIN raw : raw[i] = "bad"
  <2>1. ParseModes(raw) = [k \in 1 .. n |-> raw[Entry(raw, k)]]
    BY <1>2, ParseModesUnfold
  <2>2. \A i \in Firsts(raw) : raw[i] \in Modes
    <3>1. \A i \in DOMAIN raw : raw[i] \in RawModes
      BY ElementOfSeq, LenProperties
    <3> QED BY <1>2, <3>1 DEF Firsts, RawModes
  <2>3. \A k \in 1 .. n : raw[Entry(raw, k)] \in Modes
    BY <2>2, EntryProperties
  <2>4. n \in Nat
    BY FirstsFinite
  <2>5. ParseModes(raw) \in [1 .. n -> Modes]
    BY <2>1, <2>3
  <2>6. ParseModes(raw) \in Seq(Modes)
    BY <2>4, <2>5, SeqDef
  <2> QED BY <2>6, LenProperties
<1> QED BY <1>1, <1>2

\* The modes of a well-formed --memory-modes string are its non-blank entries, each once:
\* the cells a launch asks for, and the arms its scorecard must have.
THEOREM ParsedModesAreTheEntries ==
    ASSUME NEW raw \in Seq(RawModes), \A i \in DOMAIN raw : raw[i] # "bad"
    PROVE  /\ \A x \in Modes :
                (\E k \in DOMAIN ParseModes(raw) : ParseModes(raw)[k] = x)
                <=> (\E i \in DOMAIN raw : raw[i] = x)
           /\ \A k, h \in DOMAIN ParseModes(raw) :
                ParseModes(raw)[k] = ParseModes(raw)[h] => k = h
<1> DEFINE n == Cardinality(Firsts(raw))
<1>1. ParseModes(raw) = [k \in 1 .. n |-> raw[Entry(raw, k)]]
  BY ParseModesUnfold
<1>2. ASSUME NEW x \in Modes, NEW i \in DOMAIN raw, raw[i] = x
      PROVE  \E k \in 1 .. n : raw[Entry(raw, k)] = x
  <2>1. raw[i] # ""
    BY <1>2 DEF Modes
  <2>2. PICK j \in Firsts(raw) : raw[j] = x
    BY <1>2, <2>1, FirstOccurrence
  <2>3. Cardinality(UpTo(Firsts(raw), j)) \in 1 .. n
    BY FirstsFinite, Ranks
  <2> DEFINE k == Cardinality(UpTo(Firsts(raw), j))
  <2>4. Entry(raw, k) \in Firsts(raw) /\ Cardinality(UpTo(Firsts(raw), Entry(raw, k))) = k
    BY <2>3, EntryProperties
  <2>5. Entry(raw, k) = j
    BY <2>4, FirstsFinite, Ranks
  <2> QED BY <2>2, <2>3, <2>5
<1>3. ASSUME NEW k \in 1 .. n
      PROVE  Entry(raw, k) \in DOMAIN raw /\ Entry(raw, k) \in Firsts(raw)
  BY EntryProperties DEF Firsts
<1>4. ASSUME NEW k \in 1 .. n, NEW h \in 1 .. n, raw[Entry(raw, k)] = raw[Entry(raw, h)]
      PROVE  k = h
  <2> DEFINE i == Entry(raw, k)
             j == Entry(raw, h)
  <2>1. DOMAIN raw \subseteq Nat \ {0}
    BY LenProperties
  <2>2. /\ i \in DOMAIN raw /\ j \in DOMAIN raw
        /\ \A g \in 1 .. i - 1 : raw[g] # raw[i]
        /\ \A g \in 1 .. j - 1 : raw[g] # raw[j]
    BY <1>3 DEF Firsts
  <2>3. i = j
    <3>1. raw[i] = raw[j]
      BY <1>4
    <3> HIDE DEF i, j
    <3>2. i \in Nat \ {0} /\ j \in Nat \ {0}
      BY <2>1, <2>2
    <3>3. ~(i < j) /\ ~(j < i)
      BY <2>2, <3>1, <3>2
    <3> QED BY <3>2, <3>3
  <2> QED BY <2>3, EntryProperties
<1> QED BY <1>1, <1>2, <1>3, <1>4

-----------------------------------------------------------------------------
(***************************************************************************)
(* Tables, what is said of them, and children.                             *)
(***************************************************************************)
LEMMA DoneCells ==
    ASSUME NEW t \in Tables, NEW m \in Modes
    PROVE  /\ m \in Done(t) <=> t[m].verdict \in Verdicts
           /\ m \notin Done(t) => t[m] = NoCell
           /\ t[m] \in Cells
<1>1. t[m] \in Cells
  BY DEF Tables
<1>2. t[m] # NoCell => t[m].verdict \in Verdicts
  BY <1>1 DEF Cells
<1>3. NoCell.verdict \notin Verdicts
  BY DEF NoCell, Verdicts
<1> QED BY <1>1, <1>2, <1>3 DEF Done

LEMMA NoCellsType == NoCells \in Tables /\ Done(NoCells) = {}
  BY DEF NoCells, Tables, Cells, Done

\* What is said of a table or a child stays true when cells run and scorecards are added.
LEMMA BackedStays ==
    ASSUME NEW l, NEW m, NEW t, NEW R, NEW R2, Backed(l, m, t, R), R \subseteq R2
    PROVE  Backed(l, m, t, R2)
  BY DEF Backed

LEMMA SoundStays ==
    ASSUME NEW c, NEW R, NEW R2, NEW K, NEW K2, Sound(c, R, K), R \subseteq R2, K \subseteq K2
    PROVE  Sound(c, R2, K2)
<1>1. ASSUME NEW a, HasCard(a, K)
      PROVE  HasCard(a, K2)
  BY <1>1 DEF HasCard
<1> QED BY <1>1, BackedStays DEF Sound

LEMMA ChildFields ==
    ASSUME NEW c \in Children
    PROVE  /\ c.pc \in Early \cup Late \cup {"exit"} /\ c.ask \in Asks /\ c.i \in Nat \ {0}
           /\ c.mem \in Tables /\ c.cur \in Cells /\ c.exit \in 0 .. 2
           /\ c.out \in {"", "ok", "preflight_failed"} /\ c.alone \in BOOLEAN
           /\ c # NoChild /\ c.pc # "none"
<1>1. c.pc \in Early \cup Late \cup {"exit"}
  BY DEF Children
<1>2. c.pc # "none"
  BY <1>1 DEF Early, Late
<1>3. c # NoChild
  BY <1>2 DEF NoChild
<1> QED BY <1>1, <1>2, <1>3 DEF Children

LEMMA NoChildFields == NoChild.pc = "none" /\ NoChild \notin Children
  BY ChildFields DEF NoChild

\* Command lines and what they ask for.
LEMMA AskFields ==
    ASSUME NEW a \in Asks
    PROVE  /\ a.unit \in Units /\ a.label \in Labels /\ a.raw \in Seq(RawModes)
           /\ a.resume \in BOOLEAN /\ a.dry \in BOOLEAN /\ ModelOf[a.unit] \in Models
           /\ ParseModes(a.raw) \in Seq(Modes) /\ Len(ParseModes(a.raw)) \in Nat
           /\ DOMAIN ParseModes(a.raw) = 1 .. Len(ParseModes(a.raw))
           /\ \A j \in DOMAIN ParseModes(a.raw) : ParseModes(a.raw)[j] \in Modes
<1>1. a.raw \in Seq(RawModes)
  BY AskAssumption
<1>2. ParseModes(a.raw) \in Seq(Modes)
  BY <1>1, ParseModesType
<1>3. \A j \in DOMAIN ParseModes(a.raw) : ParseModes(a.raw)[j] \in Modes
  BY <1>2, ElementOfSeq, LenProperties
<1> QED BY <1>1, <1>2, <1>3, ParseModesType, AskAssumption DEF Models

LEMMA FirstPosition ==
    ASSUME NEW a \in Asks
    PROVE  /\ \A j \in DOMAIN ParseModes(a.raw) : ~(j < 1)
           /\ 1 <= Len(ParseModes(a.raw)) + 1
<1>1. \A N \in Nat : (\A j \in 1 .. N : ~(j < 1)) /\ 1 <= N + 1
  OBVIOUS
<1> QED BY <1>1, AskFields

LEMMA PositionInside ==
    ASSUME NEW a \in Asks, NEW i \in DOMAIN ParseModes(a.raw)
    PROVE  i + 1 <= Len(ParseModes(a.raw)) + 1
<1>1. \A N \in Nat : \A j \in 1 .. N : j + 1 <= N + 1
  OBVIOUS
<1> QED BY <1>1, AskFields

\* A living child is a child.
LEMMA LivingChild ==
    ASSUME LadderInv, NEW s \in Slots, Alive(s)
    PROVE  child[s] \in Children /\ child[s].pc # "exit" /\ child[s] # NoChild
           /\ Sound(child[s], ran, cards)
<1>1. child[s] \in Children \cup {NoChild} /\ child[s] # NoChild /\ child[s].pc # "exit"
  BY NoChildFields DEF LadderInv, LadderTypes, Alive
<1> QED BY <1>1 DEF LadderInv, ChildrenSound

LEMMA ExitCodes ==
    0 \in 0 .. 2 /\ \A code \in {1, 2} : code \in 0 .. 2 /\ code # 0
  OBVIOUS

\* A child that has exited is sound if it has a scorecard for a result of 0 and "ok".
LEMMA Exited ==
    ASSUME LadderInv, NEW s \in Slots, child[s] \in Children,
           NEW code \in 0 .. 2, NEW out \in {"", "ok", "preflight_failed"},
           code = 0 /\ out = "ok" => HasCard(child[s].ask, cards)
    PROVE  /\ Exits(s, code, out) \in Children \cup {NoChild}
           /\ Exits(s, code, out) # NoChild =>
                 /\ Exits(s, code, out).ask = child[s].ask /\ Exits(s, code, out).pc = "exit"
                 /\ Sound(Exits(s, code, out), ran, cards)
           /\ s = "own" => Exits(s, code, out) # NoChild
<1> DEFINE n == [child[s] EXCEPT !.pc = "exit", !.exit = code, !.out = out]
<1>1. n \in Children /\ n.pc = "exit" /\ n.exit = code /\ n.out = out
      /\ n.ask = child[s].ask /\ n.i = child[s].i /\ n.mem = child[s].mem
  BY DEF Children
<1> HIDE DEF n
<1>2. Sound(child[s], ran, cards)
  BY ChildFields DEF LadderInv, ChildrenSound
<1>3. Sound(n, ran, cards)
  <2>1. n.pc \notin Early /\ n.pc \notin {"meter", "save", "final", "result"}
    BY <1>1 DEF Early
  <2>2. ExitedOk(n) => HasCard(n.ask, cards)
    BY <1>1 DEF ExitedOk, UnitOk, ResultStatus
  <2> QED BY <1>1, <1>2, <2>1, <2>2 DEF Sound
<1>4. n # NoChild
  BY <1>1, ChildFields
<1>5. Exits(s, code, out) = IF s = "own" THEN n ELSE NoChild
  BY DEF Exits, n
<1> QED BY <1>1, <1>3, <1>4, <1>5

-----------------------------------------------------------------------------
(***************************************************************************)
(* The steps of a child.  Each replaces child[s] by n; the rest of a step  *)
(* is what it adds to the cells that ran and to the files.                 *)
(***************************************************************************)
LEMMA ChildStep ==
    ASSUME LadderInv, NEW s \in Slots, Alive(s), NEW n \in Children \cup {NoChild},
           child' = [child EXCEPT ![s] = n],
           UNCHANGED <<ladderVars, units, askedBy, logs, escal>>,
           n # NoChild => n.ask = child[s].ask /\ Sound(n, ran', cards'),
           s = "own" => n # NoChild,
           ran \subseteq ran', ran' \subseteq Labels \X Modes \X Models \X Verdicts,
           cards \subseteq cards', cards' \subseteq Cards, faults' \in Nat,
           ckpt' \in [Labels -> [model : Models \cup {"-"}, cells : Tables]],
           FilesBacked', CardsBacked',
           (s = "own" /\ n.pc \in Late /\ n.ask.resume /\ n.alone) =>
               /\ ~Alive("orphan")
               /\ \A m \in Done(ckpt'[n.ask.label].cells) :
                     n.mem[m].verdict = ckpt'[n.ask.label].cells[m].verdict
    PROVE  LadderInv'
<1>1. child \in [Slots -> Children \cup {NoChild}] /\ "own" \in Slots /\ "orphan" \in Slots
  BY DEF LadderInv, LadderTypes, Slots
<1>2. child'[s] = n /\ \A r \in Slots : r # s => child'[r] = child[r]
  BY <1>1
<1>3. LadderTypes'
  BY <1>1 DEF LadderInv, LadderTypes, ladderVars
<1>4. Owned'
  <2>1. CASE s = "own"
    <3>1. child["own"] # NoChild /\ lpc = "child" /\ child["own"].ask = ask
      BY <2>1, LivingChild DEF LadderInv, Owned
    <3> QED BY <1>2, <2>1, <3>1 DEF Owned, ladderVars
  <2>2. CASE s # "own"
    BY <1>1, <1>2, <2>2 DEF Owned, LadderInv, ladderVars
  <2> QED BY <2>1, <2>2
<1>5. ChildrenSound'
  <2> SUFFICES ASSUME NEW r \in Slots, child'[r] # NoChild
               PROVE  Sound(child'[r], ran', cards')
    BY DEF ChildrenSound
  <2>1. CASE r = s
    BY <1>2, <2>1
  <2>2. CASE r # s
    BY <1>2, <2>2, SoundStays DEF LadderInv, ChildrenSound
  <2> QED BY <2>1, <2>2
<1>6. OkIsScored'
  BY DEF LadderInv, OkIsScored
<1>7. Kept'
  <2>1. CASE s = "own"
    <3>1. child'["own"] = n /\ child'["orphan"] = child["orphan"]
      BY <1>1, <1>2, <2>1
    <3> QED BY <2>1, <3>1 DEF Kept, Alive
  <2>2. CASE s # "own"
    <3>1. s = "orphan" /\ child'["own"] = child["own"]
      BY <1>1, <1>2, <2>2 DEF Slots
    <3>2. ~(child["own"].pc \in Late /\ child["own"].ask.resume /\ child["own"].alone)
      BY <3>1 DEF LadderInv, Kept
    <3> QED BY <3>1, <3>2 DEF Kept
  <2> QED BY <2>1, <2>2
<1>8. Evidence'
  BY DEF LadderInv, Evidence, ladderVars
<1> QED BY <1>3, <1>4, <1>5, <1>6, <1>7, <1>8 DEF LadderInv

\* A step that runs no cell and writes no file.
LEMMA QuietStep ==
    ASSUME LadderInv, NEW s \in Slots, Alive(s), NEW n \in Children \cup {NoChild},
           child' = [child EXCEPT ![s] = n], UNCHANGED <<ladderVars, diskVars, ran>>, faults' \in Nat,
           n # NoChild => n.ask = child[s].ask /\ Sound(n, ran, cards),
           s = "own" => n # NoChild,
           (s = "own" /\ n.pc \in Late /\ n.ask.resume /\ n.alone) =>
               /\ ~Alive("orphan")
               /\ \A m \in Done(ckpt[n.ask.label].cells) :
                     n.mem[m].verdict = ckpt[n.ask.label].cells[m].verdict
    PROVE  LadderInv'
<1>1. UNCHANGED <<ladderVars, units, askedBy, logs, escal>> /\ ckpt' = ckpt /\ cards' = cards /\ ran' = ran
  BY DEF diskVars
<1>2. /\ ran \subseteq Labels \X Modes \X Models \X Verdicts /\ cards \subseteq Cards
      /\ ckpt \in [Labels -> [model : Models \cup {"-"}, cells : Tables]]
      /\ FilesBacked /\ CardsBacked
  BY DEF LadderInv, LadderTypes
<1>3. FilesBacked' /\ CardsBacked'
  BY <1>1, <1>2 DEF FilesBacked, CardsBacked
<1> QED BY <1>1, <1>2, <1>3, ChildStep

\* Faults are counted, also where they are bounded.
LEMMA FaultType ==
    ASSUME LadderInv, Fault \/ UNCHANGED faults
    PROVE  faults' \in Nat
  BY DEF LadderInv, LadderTypes, Fault

\* A step in which the child exits, or dies as an orphan.
LEMMA ExitStep ==
    ASSUME LadderInv, NEW s \in Slots, Alive(s),
           NEW code \in 0 .. 2, NEW out \in {"", "ok", "preflight_failed"},
           code = 0 /\ out = "ok" => HasCard(child[s].ask, cards),
           child' = [child EXCEPT ![s] = Exits(s, code, out)],
           UNCHANGED <<ladderVars, diskVars, ran>>, faults' \in Nat
    PROVE  LadderInv'
<1>1. child[s] \in Children
  BY LivingChild
<1> DEFINE n == Exits(s, code, out)
<1>2. /\ n \in Children \cup {NoChild} /\ (s = "own" => n # NoChild)
      /\ n # NoChild => n.ask = child[s].ask /\ n.pc = "exit" /\ Sound(n, ran, cards)
  BY <1>1, Exited
<1>3. child' = [child EXCEPT ![s] = n]
  OBVIOUS
<1> HIDE DEF n
<1>4. s = "own" => n.pc \notin Late
  BY <1>2 DEF Late
<1> QED BY <1>2, <1>3, <1>4, QuietStep

\* A step in which the child fails, or dies as an orphan.
LEMMA FailStep ==
    ASSUME LadderInv, NEW s \in Slots, Alive(s),
           NEW code \in {1, 2}, NEW out \in {"", "preflight_failed"},
           child' = [child EXCEPT ![s] = Exits(s, code, out)],
           UNCHANGED <<ladderVars, diskVars, ran>>, faults' \in Nat
    PROVE  LadderInv'
<1>1. code \in 0 .. 2 /\ code # 0
  BY ExitCodes
<1>2. out \in {"", "ok", "preflight_failed"}
  OBVIOUS
<1> QED BY <1>1, <1>2, ExitStep

LEMMA InitHolds ==
    Init => LadderInv
<1> SUFFICES ASSUME Init
             PROVE  LadderInv
  OBVIOUS
<1>1. LadderTypes
  BY NoCellsType, RetriesAssumption DEF Init, LadderTypes, NoFile
<1>2. child = [s \in Slots |-> NoChild] /\ \A s \in Slots : child[s] = NoChild
  BY DEF Init
<1>3. Owned /\ ChildrenSound
  BY <1>2 DEF Init, Owned, ChildrenSound, Slots
<1>4. FilesBacked /\ CardsBacked
  BY NoCellsType DEF Init, FilesBacked, CardsBacked, Backed, NoFile
<1>5. OkIsScored /\ Evidence
  BY DEF Init, OkIsScored, Evidence
<1>6. Kept
  BY <1>2, NoChildFields DEF Kept, Slots, Late
<1> QED BY <1>1, <1>3, <1>4, <1>5, <1>6 DEF LadderInv

\* A child that moves on where it prints: an orphan dies there.
LEMMA PrintStep ==
    ASSUME LadderInv, NEW s \in Slots, Alive(s), NEW n \in Children, Printed(s, n),
           n.ask = child[s].ask, Sound(n, ran, cards),
           UNCHANGED <<ladderVars, diskVars, ran>>, faults' \in Nat,
           (s = "own" /\ n.pc \in Late /\ n.ask.resume /\ n.alone) =>
               /\ ~Alive("orphan")
               /\ \A m \in Done(ckpt[n.ask.label].cells) :
                     n.mem[m].verdict = ckpt[n.ask.label].cells[m].verdict
    PROVE  LadderInv'
<1> DEFINE q == IF s = "own" THEN n ELSE NoChild
<1>1. q \in Children \cup {NoChild} /\ (s = "own" => q = n) /\ (s # "own" => q = NoChild)
  OBVIOUS
<1>2. child' = [child EXCEPT ![s] = q]
  BY DEF Printed
<1>3. q # NoChild => q = n
  OBVIOUS
<1>4. n # NoChild
  BY ChildFields
<1> HIDE DEF q
<1> QED BY <1>1, <1>2, <1>3, <1>4, QuietStep

\* The program counter is all that changes.
LEMMA Moved ==
    ASSUME NEW s \in Slots, child[s] \in Children, NEW pc \in Early \cup Late
    PROVE  /\ Move(s, pc) \in Children /\ Move(s, pc).pc = pc
           /\ Move(s, pc).ask = child[s].ask /\ Move(s, pc).i = child[s].i
           /\ Move(s, pc).mem = child[s].mem /\ Move(s, pc).cur = child[s].cur
           /\ Move(s, pc).alone = child[s].alone
  BY DEF Move, Children

\* What Kept says of the child of a living ladder, by its fields.
LEMMA KeptFields ==
    ASSUME LadderInv, NEW n, child["own"].pc \in Late,
           n.ask = child["own"].ask, n.mem = child["own"].mem, n.alone = child["own"].alone,
           n.ask.resume, n.alone
    PROVE  /\ ~Alive("orphan")
           /\ \A m \in Done(ckpt[n.ask.label].cells) :
                 n.mem[m].verdict = ckpt[n.ask.label].cells[m].verdict
  BY DEF LadderInv, Kept

LEMMA ParseKeeps ==
    ASSUME LadderInv, NEW s \in Slots, Parse(s)
    PROVE  LadderInv'
<1>0. 1 \in {1, 2} /\ 2 \in {1, 2}
  OBVIOUS
<1>1. Alive(s) /\ faults' \in Nat
  BY FaultType DEF Parse, Alive
<1>2. child[s] \in Children /\ Sound(child[s], ran, cards)
  BY <1>1, LivingChild
<1>3. CASE ParseModes(child[s].ask.raw) = <<>>
  BY <1>1, <1>3, <1>0, FailStep DEF Parse
<1>4. CASE ParseModes(child[s].ask.raw) # <<>>
  <2> DEFINE n == Move(s, "preflight")
  <2>1. "preflight" \in Early /\ "parse" \in Early /\ "preflight" \notin Late
    BY DEF Early, Late
  <2>2. /\ n \in Children /\ n.pc = "preflight" /\ n.ask = child[s].ask /\ n.i = child[s].i
        /\ n.mem = child[s].mem /\ n.cur = child[s].cur
    BY <1>2, <2>1, Moved
  <2>3. Printed(s, n) /\ child[s].pc = "parse"
    BY <1>4 DEF Parse
  <2> HIDE DEF n
  <2>4. Sound(n, ran, cards)
    BY <1>2, <2>1, <2>2, <2>3 DEF Sound, ExitedOk
  <2> QED BY <1>1, <2>1, <2>2, <2>3, <2>4, PrintStep DEF Parse
<1> QED BY <1>3, <1>4

LEMMA PreflightKeeps ==
    ASSUME LadderInv, NEW s \in Slots, Preflight(s)
    PROVE  LadderInv'
<1>0. 1 \in {1, 2} /\ 2 \in {1, 2}
  OBVIOUS
<1>1. Alive(s) /\ faults' \in Nat
  BY FaultType DEF Preflight, Alive
<1>2. child[s] \in Children /\ Sound(child[s], ran, cards)
  BY <1>1, LivingChild
<1>3. CASE Printed(s, Move(s, "load"))
  <2> DEFINE n == Move(s, "load")
  <2>1. "load" \in Early /\ "preflight" \in Early /\ "load" \notin Late
    BY DEF Early, Late
  <2>2. /\ n \in Children /\ n.pc = "load" /\ n.ask = child[s].ask /\ n.i = child[s].i
        /\ n.mem = child[s].mem /\ n.cur = child[s].cur
    BY <1>2, <2>1, Moved
  <2>3. Printed(s, n) /\ child[s].pc = "preflight"
    BY <1>3 DEF Preflight
  <2> HIDE DEF n
  <2>4. Sound(n, ran, cards)
    BY <1>2, <2>1, <2>2, <2>3 DEF Sound, ExitedOk
  <2> QED BY <1>1, <2>1, <2>2, <2>3, <2>4, PrintStep DEF Preflight
<1>4. CASE Printed(s, Exits(s, 2, "preflight_failed"))
  <2>1. child' = [child EXCEPT ![s] = Exits(s, 2, "preflight_failed")]
    BY <1>4 DEF Printed, Exits
  <2>2. UNCHANGED <<ladderVars, diskVars, ran>>
    BY DEF Preflight
  <2> QED BY <1>0, <1>1, <2>1, <2>2, FailStep
<1> QED BY <1>3, <1>4 DEF Preflight

\* What a child starts from is backed, and so is what it keeps of another process's file.
LEMMA LoadedTable ==
    ASSUME LadderInv, NEW c \in Children, SameModel(c)
    PROVE  Loaded(c).cells \in Tables
           /\ Backed(c.ask.label, ModelOf[c.ask.unit], Loaded(c).cells, ran)
<1>1. c.ask.label \in Labels
  BY ChildFields, AskFields
<1>2. CASE Loaded(c) = NewCheckpoint(c)
  BY <1>2, NoCellsType DEF NewCheckpoint, Backed
<1>3. CASE Loaded(c) = ckpt[c.ask.label]
  BY <1>1, <1>3 DEF SameModel, LadderInv, LadderTypes, FilesBacked
<1> QED BY <1>2, <1>3 DEF Loaded

LEMMA LoadKeeps ==
    ASSUME LadderInv, NEW s \in Slots, Load(s)
    PROVE  LadderInv'
<1> DEFINE c == child[s]
<1>0. 1 \in {1, 2}
  OBVIOUS
<1>1. Alive(s) /\ faults' \in Nat /\ c.pc = "load"
  BY FaultType DEF Load, Alive
<1>2. c \in Children /\ Sound(c, ran, cards)
  BY <1>1, LivingChild
<1>3. CASE ~SameModel(c)
  BY <1>1, <1>3, <1>0, FailStep DEF Load
<1>4. CASE SameModel(c)
  <2> DEFINE free == ~Alive("orphan")
             t == Loaded(c).cells
             n == [Move(s, "modes") EXCEPT !.mem = t, !.alone = free]
  <2>1. t \in Tables /\ Backed(c.ask.label, ModelOf[c.ask.unit], t, ran)
    BY <1>2, <1>4, LoadedTable
  <2>2. child' = [child EXCEPT ![s] = n]
    BY <1>4 DEF Load
  <2>3. free \in BOOLEAN /\ (free => ~Alive("orphan"))
    OBVIOUS
  <2>4. "modes" \in Late /\ "load" \in Early
    BY DEF Late, Early
  <2>5. Move(s, "modes") \in Children /\ Move(s, "modes").pc = "modes"
        /\ Move(s, "modes").ask = c.ask /\ Move(s, "modes").i = c.i
    BY <1>2, <2>4, Moved
  <2> HIDE DEF free, t
  <2>6. /\ n \in Children /\ n.pc = "modes" /\ n.ask = c.ask /\ n.i = c.i /\ n.mem = t
        /\ n.alone = free
    BY <2>1, <2>3, <2>5 DEF Children
  <2> HIDE DEF n
  <2>7. c.i = 1 /\ "modes" \notin Early
    BY <1>1, <1>2, <2>4 DEF Sound, Early
  <2>8. \A j \in DOMAIN ParseModes(n.ask.raw) : ~(j < 1)
    BY <1>2, <2>6, ChildFields, FirstPosition
  <2>9. Sound(n, ran, cards)
    BY <2>1, <2>6, <2>7, <2>8 DEF Sound, ExitedOk
  <2>10. n.ask.resume => \A m \in Done(ckpt[n.ask.label].cells) :
                           n.mem[m].verdict = ckpt[n.ask.label].cells[m].verdict
    <3>1. CASE ckpt[n.ask.label] = NoFile
      BY <3>1, NoCellsType DEF NoFile
    <3>2. CASE ckpt[n.ask.label] # NoFile
      BY <2>6, <3>2 DEF Loaded, t
    <3> QED BY <3>1, <3>2
  <2>11. n \in Children \cup {NoChild} /\ n # NoChild
    BY <2>6, ChildFields
  <2>12. n.alone => ~Alive("orphan")
    BY <2>3, <2>6
  <2>13. UNCHANGED <<ladderVars, diskVars, ran>>
    BY DEF Load
  <2> QED BY <1>1, <2>2, <2>6, <2>9, <2>10, <2>11, <2>12, <2>13, QuietStep
<1> QED BY <1>3, <1>4

\* A child between its cells has a requested mode in hand.
LEMMA InModes ==
    ASSUME LadderInv, NEW s \in Slots, HasMode(child[s])
    PROVE  /\ Alive(s) /\ child[s].pc = "modes" /\ child[s].i \in DOMAIN ParseModes(child[s].ask.raw)
           /\ Mode(child[s]) \in Modes
<1>1. Alive(s) /\ child[s].pc = "modes"
  BY DEF HasMode, Alive
<1>2. child[s] \in Children
  BY <1>1, LivingChild
<1>3. child[s].ask \in Asks /\ child[s].i \in Nat \ {0}
  BY <1>2, ChildFields
<1> DEFINE N == Len(ParseModes(child[s].ask.raw))
           i == child[s].i
<1>4. N \in Nat /\ i \in Nat \ {0} /\ i <= N /\ DOMAIN ParseModes(child[s].ask.raw) = 1 .. N
  BY <1>3, AskFields DEF HasMode
<1>5. i \in 1 .. N
  <2> HIDE DEF i, N
  <2> QED BY <1>4
<1> QED BY <1>1, <1>3, <1>4, <1>5, AskFields DEF Mode

\* A verdict makes any cell a finished one.
LEMMA CellVerdict ==
    ASSUME NEW x \in Cells, NEW v \in Verdicts
    PROVE  /\ [x EXCEPT !.verdict = v] \in Cells /\ [x EXCEPT !.verdict = v] # NoCell
           /\ [x EXCEPT !.verdict = v].verdict = v
<1>1. x \in [verdict : Verdicts \cup {"-"}, carded : BOOLEAN]
  <2>1. CASE x = NoCell
    BY <2>1 DEF NoCell
  <2>2. CASE x \in [verdict : Verdicts, carded : BOOLEAN]
    BY <2>2
  <2> QED BY <2>1, <2>2 DEF Cells
<1>2. [x EXCEPT !.verdict = v] \in [verdict : Verdicts, carded : BOOLEAN]
      /\ [x EXCEPT !.verdict = v].verdict = v
  BY <1>1
<1>3. NoCell.verdict \notin Verdicts
  BY DEF NoCell, Verdicts
<1> QED BY <1>2, <1>3 DEF Cells

LEMMA NextIsPositive ==
    \A i \in Nat \ {0} : i + 1 \in Nat \ {0}
  OBVIOUS

LEMMA Hundred == 0 # 100
  OBVIOUS

LEMMA BelowNext ==
    \A N, i \in Nat : i > N => \A j \in 1 .. N : j < i
  OBVIOUS

\* The positions before the next one.
LEMMA NextPosition ==
    ASSUME NEW a \in Asks, NEW i \in Nat \ {0}, NEW j \in DOMAIN ParseModes(a.raw), j < i + 1
    PROVE  j < i \/ j = i
<1>1. j \in Nat
  BY AskFields
<1> QED BY <1>1

LEMMA SkipModeKeeps ==
    ASSUME LadderInv, NEW s \in Slots, SkipMode(s)
    PROVE  LadderInv'
<1> DEFINE c == child[s]
           M == ParseModes(c.ask.raw)
           n == [c EXCEPT !.i = c.i + 1]
<1>1. /\ Alive(s) /\ faults' \in Nat /\ c.pc = "modes" /\ c.i \in DOMAIN M
      /\ M[c.i] \in Done(c.mem) /\ Printed(s, n) /\ UNCHANGED <<ladderVars, diskVars, ran>>
  BY InModes, FaultType DEF SkipMode, Mode
<1>2. c \in Children /\ Sound(c, ran, cards)
  BY <1>1, LivingChild
<1>3. c.i + 1 \in Nat \ {0}
  BY <1>2, ChildFields, NextIsPositive
<1>4. /\ n \in Children /\ n.pc = "modes" /\ n.ask = c.ask /\ n.i = c.i + 1 /\ n.mem = c.mem
      /\ n.alone = c.alone
  BY <1>1, <1>2, <1>3 DEF Children
<1> HIDE DEF n
<1>5. "modes" \in Late /\ "modes" \notin Early
  BY DEF Late, Early
<1>6. ASSUME NEW j \in DOMAIN M, j < n.i
      PROVE  M[j] \in Done(n.mem)
  <2>1. c.ask \in Asks /\ c.i \in Nat \ {0}
    BY <1>2, ChildFields
  <2>2. j < c.i \/ j = c.i
    BY <1>4, <1>6, <2>1, NextPosition
  <2> QED BY <1>1, <1>2, <1>4, <2>2 DEF Sound
<1>7. Sound(n, ran, cards)
  <2>1. n.i <= Len(M) + 1
    BY <1>1, <1>2, <1>4, ChildFields, PositionInside
  <2> QED BY <1>2, <1>4, <1>5, <1>6, <2>1 DEF Sound, ExitedOk
<1>8. (s = "own" /\ n.pc \in Late /\ n.ask.resume /\ n.alone) =>
        /\ ~Alive("orphan")
        /\ \A m \in Done(ckpt[n.ask.label].cells) :
              n.mem[m].verdict = ckpt[n.ask.label].cells[m].verdict
  BY <1>1, <1>4, <1>5, KeptFields
<1> QED BY <1>1, <1>4, <1>7, <1>8, PrintStep

LEMMA RunCellKeeps ==
    ASSUME LadderInv, NEW s \in Slots, RunCell(s)
    PROVE  LadderInv'
<1> DEFINE c == child[s]
           M == ParseModes(c.ask.raw)
<1>1. /\ Alive(s) /\ c.pc = "modes" /\ c.i \in DOMAIN M /\ M[c.i] \in Modes /\ Mode(c) = M[c.i]
      /\ (c.ask.resume => M[c.i] \notin Done(c.mem)) /\ UNCHANGED <<ladderVars, diskVars, faults>>
  BY InModes DEF RunCell, Mode
<1>2. c \in Children /\ Sound(c, ran, cards)
  BY <1>1, LivingChild
<1>3. PICK v \in Verdicts :
        /\ child' = [child EXCEPT ![s] = [c EXCEPT !.pc = "meter", !.cur.verdict = v]]
        /\ ran' = ran \cup {<<c.ask.label, Mode(c), ModelOf[c.ask.unit], v>>}
  BY DEF RunCell
<1> DEFINE n == [c EXCEPT !.pc = "meter", !.cur.verdict = v]
           cell == [c.cur EXCEPT !.verdict = v]
<1>4. cell \in Cells /\ cell.verdict = v /\ cell # NoCell
  <2>1. c.cur \in Cells
    BY <1>2, ChildFields
  <2> QED BY <2>1, CellVerdict
<1>5. n = [c EXCEPT !.pc = "meter", !.cur = cell]
  OBVIOUS
<1> HIDE DEF cell, n
<1>6. "meter" \in Late /\ "modes" \in Late /\ "meter" \notin Early
  BY DEF Late, Early
<1>7. /\ n \in Children /\ n.pc = "meter" /\ n.ask = c.ask /\ n.i = c.i /\ n.mem = c.mem
      /\ n.cur = cell /\ n.alone = c.alone
  BY <1>2, <1>4, <1>5, <1>6 DEF Children
<1>8. ran \subseteq ran' /\ <<c.ask.label, M[c.i], ModelOf[c.ask.unit], v>> \in ran'
  BY <1>1, <1>3
<1>9. ran' \subseteq Labels \X Modes \X Models \X Verdicts
  <2>1. c.ask.label \in Labels /\ ModelOf[c.ask.unit] \in Models
    BY <1>2, ChildFields, AskFields
  <2> QED BY <1>1, <1>3, <2>1 DEF LadderInv, LadderTypes
<1>10. /\ ckpt' = ckpt /\ cards' = cards /\ faults' = faults
       /\ UNCHANGED <<ladderVars, units, askedBy, logs, escal>>
  BY <1>1 DEF diskVars
<1>11. Sound(c, ran', cards')
  BY <1>2, <1>8, <1>10, SoundStays
<1>12. Sound(n, ran', cards')
  BY <1>1, <1>4, <1>6, <1>7, <1>8, <1>11 DEF Sound, ExitedOk
<1>13. FilesBacked' /\ CardsBacked'
  BY <1>8, <1>10, BackedStays DEF LadderInv, FilesBacked, CardsBacked
<1>14. (s = "own" /\ n.pc \in Late /\ n.ask.resume /\ n.alone) =>
         /\ ~Alive("orphan")
         /\ \A m \in Done(ckpt'[n.ask.label].cells) :
               n.mem[m].verdict = ckpt'[n.ask.label].cells[m].verdict
  BY <1>1, <1>6, <1>7, <1>10, KeptFields
<1>15. child' = [child EXCEPT ![s] = n]
  BY <1>3 DEF n
<1>16. n \in Children \cup {NoChild} /\ n # NoChild
  BY <1>7, ChildFields
<1>17. /\ cards' \subseteq Cards /\ cards \subseteq cards' /\ faults' \in Nat
       /\ ckpt' \in [Labels -> [model : Models \cup {"-"}, cells : Tables]]
  BY <1>10 DEF LadderInv, LadderTypes
<1> QED BY <1>1, <1>7, <1>8, <1>9, <1>10, <1>12, <1>13, <1>14, <1>15, <1>16, <1>17, ChildStep

LEMMA MeterKeeps ==
    ASSUME LadderInv, NEW s \in Slots, Meter(s)
    PROVE  LadderInv'
<1> DEFINE n == Move(s, "save")
<1>1. /\ Alive(s) /\ faults' \in Nat /\ child[s].pc = "meter" /\ Printed(s, n)
      /\ UNCHANGED <<ladderVars, diskVars, ran>>
  BY FaultType DEF Meter, Alive
<1>2. child[s] \in Children /\ Sound(child[s], ran, cards)
  BY <1>1, LivingChild
<1>3. "save" \in Late /\ "meter" \in Late /\ "save" \notin Early
  BY DEF Late, Early
<1>4. /\ n \in Children /\ n.pc = "save" /\ n.ask = child[s].ask /\ n.i = child[s].i
      /\ n.mem = child[s].mem /\ n.cur = child[s].cur /\ n.alone = child[s].alone
  BY <1>2, <1>3, Moved
<1> HIDE DEF n
<1>5. Sound(n, ran, cards)
  BY <1>1, <1>2, <1>3, <1>4 DEF Sound, ExitedOk
<1>6. (s = "own" /\ n.pc \in Late /\ n.ask.resume /\ n.alone) =>
        /\ ~Alive("orphan")
        /\ \A m \in Done(ckpt[n.ask.label].cells) :
              n.mem[m].verdict = ckpt[n.ask.label].cells[m].verdict
  BY <1>1, <1>3, <1>4, KeptFields
<1> QED BY <1>1, <1>4, <1>5, <1>6, PrintStep

LEMMA MeterDownKeeps ==
    ASSUME LadderInv, NEW s \in Slots, MeterDown(s)
    PROVE  LadderInv'
<1>1. Alive(s) /\ faults' \in Nat /\ 1 \in {1, 2}
  BY FaultType DEF MeterDown, Alive
<1> QED BY <1>1, FailStep DEF MeterDown

LEMMA ChildDiesKeeps ==
    ASSUME LadderInv, NEW s \in Slots, ChildDies(s)
    PROVE  LadderInv'
<1>1. Alive(s) /\ faults' \in Nat /\ 1 \in {1, 2}
  BY FaultType DEF ChildDies
<1> QED BY <1>1, FailStep DEF ChildDies

LEMMA OrphanStopsKeeps ==
    ASSUME LadderInv, NEW s \in Slots, OrphanStops(s)
    PROVE  LadderInv'
<1>1. Alive(s) /\ faults' \in Nat /\ 1 \in {1, 2}
  BY InModes, FaultType DEF OrphanStops
<1> QED BY <1>1, FailStep DEF OrphanStops

\* A child that replaces its checkpoint by the table it then has in memory.
LEMMA WriteStep ==
    ASSUME LadderInv, NEW s \in Slots, Alive(s), child[s].pc \in Late, NEW n \in Children,
           child' = [child EXCEPT ![s] = n], ckpt' = Saved(child[s], n.mem),
           UNCHANGED <<ladderVars, units, askedBy, cards, logs, escal, ran, faults>>,
           n.ask = child[s].ask, n.alone = child[s].alone, Sound(n, ran, cards)
    PROVE  LadderInv'
<1> DEFINE l == child[s].ask.label
           f == [model |-> ModelOf[child[s].ask.unit], cells |-> n.mem]
<1>1. n.mem \in Tables /\ child[s].ask \in Asks /\ n # NoChild
  BY LivingChild, ChildFields
<1>2. l \in Labels /\ ModelOf[child[s].ask.unit] \in Models
  BY <1>1, AskFields
<1>3. ckpt' = [ckpt EXCEPT ![l] = f]
  BY DEF Saved
<1>4. f \in [model : Models \cup {"-"}, cells : Tables] /\ f.cells = n.mem
      /\ f.model = ModelOf[child[s].ask.unit]
  BY <1>1, <1>2
<1> HIDE DEF f
<1>5. ckpt \in [Labels -> [model : Models \cup {"-"}, cells : Tables]]
  BY DEF LadderInv, LadderTypes
<1>6. /\ ckpt' \in [Labels -> [model : Models \cup {"-"}, cells : Tables]]
      /\ ckpt'[l] = f /\ \A k \in Labels : k # l => ckpt'[k] = ckpt[k]
  BY <1>2, <1>3, <1>4, <1>5
<1>7. Backed(l, f.model, f.cells, ran)
  BY <1>4 DEF Sound
<1>8. cards' = cards /\ ran' = ran /\ faults' = faults
      /\ UNCHANGED <<ladderVars, units, askedBy, logs, escal>>
  OBVIOUS
<1>9. FilesBacked' /\ CardsBacked'
  <2>1. CardsBacked'
    BY <1>8 DEF LadderInv, CardsBacked
  <2>2. ASSUME NEW k \in Labels
        PROVE  Backed(k, ckpt'[k].model, ckpt'[k].cells, ran')
    <3>1. CASE k = l
      BY <1>6, <1>7, <1>8, <3>1
    <3>2. CASE k # l
      BY <1>6, <1>8, <3>2 DEF LadderInv, FilesBacked
    <3> QED BY <3>1, <3>2
  <2> QED BY <2>1, <2>2 DEF FilesBacked
<1>10. (s = "own" /\ n.pc \in Late /\ n.ask.resume /\ n.alone) =>
         /\ ~Alive("orphan")
         /\ \A m \in Done(ckpt'[n.ask.label].cells) :
               n.mem[m].verdict = ckpt'[n.ask.label].cells[m].verdict
  BY <1>4, <1>6 DEF LadderInv, Kept
<1>11. /\ ran' \subseteq Labels \X Modes \X Models \X Verdicts /\ ran \subseteq ran'
       /\ cards' \subseteq Cards /\ cards \subseteq cards' /\ faults' \in Nat
       /\ Sound(n, ran', cards')
  BY <1>8 DEF LadderInv, LadderTypes
<1>12. n \in Children \cup {NoChild}
  OBVIOUS
<1> QED BY <1>1, <1>6, <1>8, <1>9, <1>10, <1>11, <1>12, ChildStep

\* A table with the cell in hand put in.
LEMMA Upserted ==
    ASSUME NEW c \in Children, Mode(c) \in Modes, c.cur # NoCell
    PROVE  /\ UpsertCell(c) \in Tables /\ Done(UpsertCell(c)) = Done(c.mem) \cup {Mode(c)}
           /\ UpsertCell(c)[Mode(c)] = c.cur
           /\ \A m \in Modes : m # Mode(c) => UpsertCell(c)[m] = c.mem[m]
<1>1. c.mem \in [Modes -> Cells] /\ c.cur \in Cells
  BY ChildFields DEF Tables
<1>2. /\ UpsertCell(c) \in [Modes -> Cells] /\ UpsertCell(c)[Mode(c)] = c.cur
      /\ \A m \in Modes : m # Mode(c) => UpsertCell(c)[m] = c.mem[m]
  BY <1>1 DEF UpsertCell
<1> QED BY <1>2 DEF Tables, Done

LEMMA SaveCellKeeps ==
    ASSUME LadderInv, NEW s \in Slots, SaveCell(s)
    PROVE  LadderInv'
<1> DEFINE c == child[s]
           M == ParseModes(c.ask.raw)
           t == UpsertCell(c)
           n == [c EXCEPT !.pc = "modes", !.mem = t, !.i = c.i + 1, !.cur = NoCell]
<1>1. Alive(s) /\ c.pc = "save"
  BY DEF SaveCell, Alive
<1>2. c \in Children /\ Sound(c, ran, cards)
  BY <1>1, LivingChild
<1>3. /\ c.ask \in Asks /\ c.i \in Nat \ {0} /\ c.i + 1 \in Nat \ {0}
      /\ c.i \in DOMAIN M /\ c.cur # NoCell /\ Mode(c) = M[c.i] /\ M[c.i] \in Modes
      /\ <<c.ask.label, M[c.i], ModelOf[c.ask.unit], c.cur.verdict>> \in ran
  BY <1>1, <1>2, ChildFields, AskFields, NextIsPositive DEF Sound, Mode
<1>4. /\ t \in Tables /\ Done(t) = Done(c.mem) \cup {M[c.i]} /\ t[M[c.i]] = c.cur
      /\ \A m \in Modes : m # M[c.i] => t[m] = c.mem[m]
  BY <1>2, <1>3, Upserted
<1>5. child' = [child EXCEPT ![s] = n] /\ ckpt' = Saved(c, t)
      /\ UNCHANGED <<ladderVars, units, askedBy, cards, logs, escal, ran, faults>>
  BY DEF SaveCell
<1>6. "modes" \in Late /\ "save" \in Late /\ "modes" \notin Early /\ NoCell \in Cells
  BY DEF Late, Early, Cells
<1> HIDE DEF t
<1>7. /\ n \in Children /\ n.pc = "modes" /\ n.ask = c.ask /\ n.i = c.i + 1 /\ n.mem = t
      /\ n.alone = c.alone
  BY <1>2, <1>3, <1>4, <1>6 DEF Children
<1> HIDE DEF n
<1>8. ASSUME NEW j \in DOMAIN M, j < n.i
      PROVE  M[j] \in Done(n.mem)
  <2>1. j < c.i \/ j = c.i
    BY <1>3, <1>7, <1>8, NextPosition
  <2> QED BY <1>2, <1>4, <1>7, <2>1 DEF Sound
<1>9. Backed(c.ask.label, ModelOf[c.ask.unit], t, ran)
  <2> SUFFICES ASSUME NEW m \in Done(t)
               PROVE  <<c.ask.label, m, ModelOf[c.ask.unit], t[m].verdict>> \in ran
    BY DEF Backed
  <2>1. CASE m = M[c.i]
    BY <1>3, <1>4, <2>1
  <2>2. CASE m # M[c.i]
    <3>1. m \in Done(c.mem) /\ m \in Modes
      BY <1>4, <2>2 DEF Done
    <3> QED BY <1>2, <1>4, <2>2, <3>1 DEF Sound, Backed
  <2> QED BY <2>1, <2>2
<1>10. Sound(n, ran, cards)
  <2>1. n.i <= Len(M) + 1
    BY <1>3, <1>7, PositionInside
  <2> QED BY <1>6, <1>7, <1>8, <1>9, <2>1 DEF Sound, ExitedOk
<1> QED BY <1>1, <1>5, <1>6, <1>7, <1>10, WriteStep

\* The table a scorecard is written from, stamped.
Stamped(t) == [m \in Modes |-> IF m \in Done(t) THEN [t[m] EXCEPT !.carded = TRUE] ELSE NoCell]

LEMMA StampedTable ==
    ASSUME NEW t \in Tables
    PROVE  /\ Stamped(t) \in Tables /\ Done(Stamped(t)) = Done(t)
           /\ \A m \in Done(t) : Stamped(t)[m].verdict = t[m].verdict
<1>1. ASSUME NEW m \in Modes, m \in Done(t)
      PROVE  /\ [t[m] EXCEPT !.carded = TRUE] \in Cells
             /\ [t[m] EXCEPT !.carded = TRUE] # NoCell
             /\ [t[m] EXCEPT !.carded = TRUE].verdict = t[m].verdict
  <2>1. t[m] \in Cells /\ t[m] # NoCell
    BY <1>1, DoneCells DEF Done
  <2>2. t[m] \in [verdict : Verdicts, carded : BOOLEAN]
    BY <2>1 DEF Cells
  <2>3. /\ [t[m] EXCEPT !.carded = TRUE] \in [verdict : Verdicts, carded : BOOLEAN]
        /\ [t[m] EXCEPT !.carded = TRUE].verdict = t[m].verdict
    BY <2>2
  <2>4. NoCell.verdict \notin Verdicts
    BY DEF NoCell, Verdicts
  <2> QED BY <2>2, <2>3, <2>4 DEF Cells
<1>2. Stamped(t) \in Tables
  BY <1>1 DEF Stamped, Tables, Cells
<1>3. \A m \in Modes : m \in Done(t) => Stamped(t)[m] = [t[m] EXCEPT !.carded = TRUE]
  BY DEF Stamped
<1>4. \A m \in Modes : m \notin Done(t) => Stamped(t)[m] = NoCell
  BY DEF Stamped
<1>5. Done(Stamped(t)) = Done(t)
  BY <1>1, <1>3, <1>4 DEF Done
<1> QED BY <1>1, <1>2, <1>3, <1>5 DEF Done

LEMMA FinalSaveKeeps ==
    ASSUME LadderInv, NEW s \in Slots, FinalSave(s)
    PROVE  LadderInv'
<1> DEFINE c == child[s]
           t == Stamped(c.mem)
           n == [Move(s, "result") EXCEPT !.mem = t]
<1>1. Alive(s) /\ c.pc = "final"
  BY DEF FinalSave, Alive
<1>2. c \in Children /\ Sound(c, ran, cards) /\ c.mem \in Tables
  BY <1>1, LivingChild, ChildFields
<1>3. /\ t \in Tables /\ Done(t) = Done(c.mem)
      /\ \A m \in Done(c.mem) : t[m].verdict = c.mem[m].verdict
  BY <1>2, StampedTable
<1>4. child' = [child EXCEPT ![s] = n] /\ ckpt' = Saved(c, t)
      /\ UNCHANGED <<ladderVars, units, askedBy, cards, logs, escal, ran, faults>>
  BY DEF FinalSave, Stamped
<1>5. "result" \in Late /\ "final" \in Late /\ "result" \notin Early
  BY DEF Late, Early
<1>6. /\ Move(s, "result") \in Children /\ Move(s, "result").pc = "result"
      /\ Move(s, "result").ask = c.ask /\ Move(s, "result").i = c.i
      /\ Move(s, "result").alone = c.alone
  BY <1>2, <1>5, Moved
<1> HIDE DEF t
<1>7. /\ n \in Children /\ n.pc = "result" /\ n.ask = c.ask /\ n.i = c.i /\ n.mem = t
      /\ n.alone = c.alone
  BY <1>3, <1>6 DEF Children
<1> HIDE DEF n
<1>8. Backed(c.ask.label, ModelOf[c.ask.unit], t, ran)
  BY <1>2, <1>3 DEF Sound, Backed
<1>9. Sound(n, ran, cards)
  BY <1>1, <1>2, <1>3, <1>5, <1>7, <1>8 DEF Sound
<1> QED BY <1>1, <1>4, <1>5, <1>7, <1>9, WriteStep

\* A scorecard that is written when every mode has a cell says what was asked for.
LEMMA ScorecardIsWhole ==
    ASSUME NEW c \in Children, NEW R,
           Backed(c.ask.label, ModelOf[c.ask.unit], c.mem, R),
           \A j \in DOMAIN ParseModes(c.ask.raw) : ParseModes(c.ask.raw)[j] \in Done(c.mem)
    PROVE  LET k == Scorecard(c)
           IN  /\ k \in Cards /\ Backed(k.label, k.model, k.cells, R)
               /\ k.label = c.ask.label /\ k.model = ModelOf[c.ask.unit]
               /\ Done(k.cells) = AskedModes(c.ask)
<1> DEFINE A == AskedModes(c.ask)
           t == [m \in Modes |-> IF m \in A THEN c.mem[m] ELSE NoCell]
           k == [label |-> c.ask.label, model |-> ModelOf[c.ask.unit], cells |-> t,
                 diffs |-> ModelDiffs(t)]
<1>1. Scorecard(c) = k
  BY DEF Scorecard
<1>2. c.ask \in Asks /\ c.ask.label \in Labels /\ ModelOf[c.ask.unit] \in Models /\ c.mem \in Tables
  BY ChildFields, AskFields
<1>3. A \subseteq Modes /\ A \subseteq Done(c.mem)
  BY <1>2, AskFields DEF AskedModes
<1>4. t \in Tables
  BY <1>2 DEF Tables, Cells
<1>5. \A m \in Modes : (m \in A => t[m] = c.mem[m]) /\ (m \notin A => t[m] = NoCell)
  OBVIOUS
<1> HIDE DEF A, t
<1>6. Done(t) = A
  BY <1>3, <1>5 DEF Done
<1>7. Backed(c.ask.label, ModelOf[c.ask.unit], t, R)
  BY <1>3, <1>5, <1>6 DEF Backed
<1>8. k \in Cards
  BY <1>2, <1>4 DEF Cards
<1>9. k.label = c.ask.label /\ k.model = ModelOf[c.ask.unit] /\ k.cells = t
  OBVIOUS
<1> HIDE DEF k
<1> QED BY <1>1, <1>6, <1>7, <1>8, <1>9 DEF A

LEMMA WriteScorecardKeeps ==
    ASSUME LadderInv, NEW s \in Slots, WriteScorecard(s)
    PROVE  LadderInv'
<1> DEFINE c == child[s]
           M == ParseModes(c.ask.raw)
           n == Move(s, "final")
           k == Scorecard(c)
<1>1. /\ Alive(s) /\ c.pc = "modes" /\ c.i > Len(M) /\ cards' = cards \cup {k}
      /\ child' = [child EXCEPT ![s] = n]
      /\ UNCHANGED <<ladderVars, units, askedBy, ckpt, logs, escal, ran, faults>>
  BY DEF WriteScorecard, Alive
<1>2. c \in Children /\ Sound(c, ran, cards) /\ c.ask \in Asks /\ c.i \in Nat \ {0}
  BY <1>1, LivingChild, ChildFields
<1>3. "final" \in Late /\ "modes" \in Late /\ "final" \notin Early
  BY DEF Late, Early
<1>4. /\ n \in Children /\ n.pc = "final" /\ n.ask = c.ask /\ n.i = c.i /\ n.mem = c.mem
      /\ n.alone = c.alone
  BY <1>2, <1>3, Moved
<1> HIDE DEF n
<1>5. \A j \in DOMAIN M : j < c.i
  <2>1. DOMAIN M = 1 .. Len(M) /\ Len(M) \in Nat
    BY <1>2, AskFields
  <2>2. c.i \in Nat /\ c.i > Len(M)
    BY <1>1, <1>2
  <2> QED BY <2>1, <2>2, BelowNext
<1>6. /\ k \in Cards /\ Backed(k.label, k.model, k.cells, ran)
      /\ k.label = c.ask.label /\ k.model = ModelOf[c.ask.unit]
      /\ Done(k.cells) = AskedModes(c.ask)
  BY <1>2, <1>5, ScorecardIsWhole DEF Sound
<1> HIDE DEF k
<1>7. cards \subseteq cards' /\ cards' \subseteq Cards /\ HasCard(n.ask, cards')
  BY <1>1, <1>4, <1>6 DEF LadderInv, LadderTypes, HasCard
<1>8. ckpt' = ckpt /\ ran' = ran /\ faults' = faults
      /\ UNCHANGED <<ladderVars, units, askedBy, logs, escal>>
  BY <1>1
<1>9. FilesBacked' /\ CardsBacked'
  BY <1>1, <1>6, <1>8 DEF LadderInv, FilesBacked, CardsBacked
<1>10. Sound(n, ran', cards')
  <2>1. Sound(c, ran', cards')
    BY <1>2, <1>7, <1>8, SoundStays
  <2> QED BY <1>3, <1>4, <1>7, <2>1 DEF Sound
<1>11. (s = "own" /\ n.pc \in Late /\ n.ask.resume /\ n.alone) =>
         /\ ~Alive("orphan")
         /\ \A m \in Done(ckpt'[n.ask.label].cells) :
               n.mem[m].verdict = ckpt'[n.ask.label].cells[m].verdict
  BY <1>1, <1>3, <1>4, <1>8, KeptFields
<1>12. /\ ran' \subseteq Labels \X Modes \X Models \X Verdicts /\ ran \subseteq ran'
       /\ ckpt' \in [Labels -> [model : Models \cup {"-"}, cells : Tables]] /\ faults' \in Nat
  BY <1>8 DEF LadderInv, LadderTypes
<1>13. n \in Children \cup {NoChild} /\ n # NoChild
  BY <1>4, ChildFields
<1> QED BY <1>1, <1>4, <1>7, <1>8, <1>9, <1>10, <1>11, <1>12, <1>13, ChildStep

LEMMA PrintResultKeeps ==
    ASSUME LadderInv, NEW s \in Slots, PrintResult(s)
    PROVE  LadderInv'
<1>1. /\ Alive(s) /\ faults' \in Nat /\ child[s].pc = "result"
      /\ UNCHANGED <<ladderVars, diskVars, ran>>
  BY FaultType DEF PrintResult, Alive
<1>2. HasCard(child[s].ask, cards)
  BY <1>1, LivingChild DEF Sound
<1>3. child' = [child EXCEPT ![s] = Exits(s, 0, "ok")]
  BY DEF PrintResult, Printed, Exits
<1>4. 0 \in 0 .. 2
  BY ExitCodes
<1> QED BY <1>1, <1>2, <1>3, <1>4, ExitStep

-----------------------------------------------------------------------------
(***************************************************************************)
(* The steps of the ladder.  A child of its own is there or is not; what   *)
(* is left to say of a step is what it does to the ladder's own files.     *)
(***************************************************************************)

\* What is said of children, checkpoints and scorecards after a step that adds no child but
\* a sound one and leaves those files alone.
LEMMA DriverStep ==
    ASSUME LadderInv, ckpt' = ckpt, cards' = cards, ran' = ran,
           LadderTypes', Owned', OkIsScored', Evidence', child'["orphan"] = child["orphan"],
           \/ child'["own"] = NoChild \/ child'["own"] = child["own"]
           \/ child'["own"].pc \notin Late /\ Sound(child'["own"], ran, cards)
    PROVE  LadderInv'
<1>1. FilesBacked' /\ CardsBacked'
  BY DEF LadderInv, FilesBacked, CardsBacked
<1>2. ChildrenSound'
  BY DEF LadderInv, ChildrenSound, Slots
<1>3. Kept'
  <2>1. CASE child'["own"].pc \notin Late
    BY <2>1 DEF Kept
  <2>2. CASE child'["own"].pc \in Late
    <3>1. child'["own"] = child["own"]
      BY <2>2, NoChildFields DEF Late
    <3>2. child["own"].pc \in Late
      BY <2>2, <3>1
    <3>3. Kept
      BY DEF LadderInv
    <3> QED BY <3>1, <3>2, <3>3 DEF Kept, Alive
  <2> QED BY <2>1, <2>2
<1> QED BY <1>1, <1>2, <1>3 DEF LadderInv

LEMMA LaunchKeeps ==
    ASSUME LadderInv, NEW a \in Asks, Launch(a)
    PROVE  LadderInv'
<1>1. /\ lpc = "down" /\ lpc' = "loop" /\ ask' = a /\ launch' = launch + 1 /\ attempt' = 0
      /\ logs' = logs \cup {<<launch + 1, 0>>}
      /\ UNCHANGED <<child, units, askedBy, ckpt, cards, escal, ran, faults>>
  BY DEF Launch
<1>2. launch \in Nat /\ launch' \in Nat /\ launch < launch' /\ 0 \in 0 .. MaxRetries
  BY <1>1, RetriesAssumption DEF LadderInv, LadderTypes
<1>3. logs' \subseteq Nat \X Nat
  BY <1>1, <1>2 DEF LadderInv, LadderTypes
<1>4. LadderTypes'
  BY <1>1, <1>2, <1>3 DEF LadderInv, LadderTypes
<1>5. Owned'
  BY <1>1 DEF LadderInv, Owned
<1>6. OkIsScored'
  BY <1>1 DEF LadderInv, OkIsScored
<1>7. Evidence'
  <2>1. \A l \in Labels : escal'[l] = {} \/ \E L \in 0 .. launch' :
          L < launch' /\ escal'[l] = LogsOf(L) /\ LogsOf(L) \subseteq logs'
    <3> SUFFICES ASSUME NEW l \in Labels, escal[l] # {}
                 PROVE  \E L \in 0 .. launch' :
                          L < launch' /\ escal[l] = LogsOf(L) /\ LogsOf(L) \subseteq logs'
      BY <1>1
    <3>1. PICK L \in 0 .. launch : escal[l] = LogsOf(L) /\ LogsOf(L) \subseteq logs
      BY DEF LadderInv, Evidence
    <3>2. L \in 0 .. launch' /\ L < launch'
      BY <1>1, <1>2
    <3> QED BY <1>1, <3>1, <3>2
  <2>2. {<<launch', n>> : n \in 1 .. attempt'} = {}
    BY <1>1
  <2> QED BY <2>1, <2>2 DEF Evidence
<1> QED BY <1>1, <1>4, <1>5, <1>6, <1>7, DriverStep

LEMMA ResumeSkipKeeps ==
    ASSUME LadderInv, ResumeSkip
    PROVE  LadderInv'
<1>1. /\ lpc = "loop" /\ lpc' = "clean"
      /\ UNCHANGED <<ask, launch, attempt, child, units, askedBy, ckpt, cards, logs, escal, ran, faults>>
  BY DEF ResumeSkip, diskVars
<1>2. LadderTypes'
  BY <1>1 DEF LadderInv, LadderTypes
<1>3. Owned'
  BY <1>1 DEF LadderInv, Owned
<1>4. OkIsScored'
  BY <1>1 DEF LadderInv, OkIsScored
<1>5. Evidence'
  BY <1>1 DEF LadderInv, Evidence
<1> QED BY <1>1, <1>2, <1>3, <1>4, <1>5, DriverStep

\* A unit to run, and one of a dry run, are sound: nothing is done and nothing claimed.
LEMMA UnitIsSound ==
    ASSUME LadderInv, ask \in Asks
    PROVE  /\ Unit \in Children /\ Unit.ask = ask /\ Unit.pc \notin Late
           /\ Sound(Unit, ran, cards)
<1>1. NoCells \in Tables /\ Done(NoCells) = {} /\ NoCell \in Cells
  BY NoCellsType DEF Cells
<1>2. Fresh \in Children
  BY <1>1 DEF Fresh, Children, Early
<1>3. CASE ~ask.dry
  <2>1. Unit = Fresh
    BY <1>3 DEF Unit
  <2>2. Fresh.pc = "parse" /\ Fresh.ask = ask /\ Fresh.i = 1 /\ Fresh.mem = NoCells
    BY DEF Fresh
  <2>3. "parse" \notin Late
    BY DEF Late
  <2>4. (\A j \in DOMAIN ParseModes(ask.raw) : ~(j < 1)) /\ 1 <= Len(ParseModes(ask.raw)) + 1
    BY FirstPosition
  <2>5. Sound(Fresh, ran, cards)
    BY <1>1, <2>2, <2>4 DEF Sound, Backed, ExitedOk
  <2> QED BY <1>2, <2>1, <2>2, <2>3, <2>5
<1>4. CASE ask.dry
  <2> DEFINE n == [Fresh EXCEPT !.pc = "exit", !.out = "ok"]
  <2>1. Unit = n
    BY <1>4 DEF Unit
  <2>2. n \in Children /\ n.pc = "exit" /\ n.ask = ask /\ n.i = 1 /\ n.mem = NoCells
    BY <1>2 DEF Children, Fresh
  <2> HIDE DEF n
  <2>3. "exit" \notin Late /\ "exit" \notin Early
    BY DEF Late, Early
  <2>4. (\A j \in DOMAIN ParseModes(ask.raw) : ~(j < 1)) /\ 1 <= Len(ParseModes(ask.raw)) + 1
    BY FirstPosition
  <2>5. Sound(n, ran, cards)
    BY <1>1, <1>4, <2>2, <2>3, <2>4 DEF Sound, Backed, ExitedOk
  <2> QED BY <2>1, <2>2, <2>3, <2>5
<1> QED BY <1>3, <1>4

LEMMA StartAttemptKeeps ==
    ASSUME LadderInv, StartAttempt
    PROVE  LadderInv'
<1>1. /\ lpc = "loop" /\ attempt < MaxRetries /\ attempt' = attempt + 1 /\ lpc' = "child"
      /\ logs' = logs \cup {<<launch, attempt + 1>>} /\ child' = [child EXCEPT !["own"] = Unit]
      /\ UNCHANGED <<ask, launch, units, askedBy, ckpt, cards, escal, ran, faults>>
  BY DEF StartAttempt, NextAttempt
<1>2. /\ ask \in Asks /\ launch \in Nat /\ attempt \in Nat /\ attempt + 1 \in Nat
      /\ attempt + 1 \in 0 .. MaxRetries /\ MaxRetries \in Nat
  BY <1>1, RetriesAssumption DEF LadderInv, LadderTypes
<1>3. Unit \in Children /\ Unit.ask = ask /\ Unit.pc \notin Late /\ Sound(Unit, ran, cards)
  BY <1>2, UnitIsSound
<1>4. child \in [Slots -> Children \cup {NoChild}] /\ "own" \in Slots
  BY DEF LadderInv, LadderTypes, Slots
<1>5. child' \in [Slots -> Children \cup {NoChild}]
      /\ child'["own"] = Unit /\ \A s \in Slots : s # "own" => child'[s] = child[s]
  BY <1>1, <1>3, <1>4
<1>6. LadderTypes'
  <2>1. logs' \subseteq Nat \X Nat
    BY <1>1, <1>2 DEF LadderInv, LadderTypes
  <2> QED BY <1>1, <1>2, <1>5, <2>1 DEF LadderInv, LadderTypes
<1>7. Owned'
  BY <1>1, <1>3, <1>5, ChildFields DEF Owned
<1>8. OkIsScored'
  BY <1>1 DEF LadderInv, OkIsScored
<1>9. Evidence'
  <2>1. {<<launch, n>> : n \in 1 .. attempt} \subseteq logs
    BY <1>1 DEF LadderInv, Evidence
  <2>2. \A n \in 1 .. attempt + 1 : n \in 1 .. attempt \/ n = attempt + 1
    BY <1>2
  <2>3. {<<launch, n>> : n \in 1 .. attempt + 1} \subseteq logs'
    BY <1>1, <2>1, <2>2
  <2> QED BY <1>1, <2>3 DEF LadderInv, Evidence
<1>10. child'["orphan"] = child["orphan"]
  BY <1>5 DEF Slots
<1> QED BY <1>1, <1>3, <1>5, <1>6, <1>7, <1>8, <1>9, <1>10, DriverStep

\* A step in which the ladder takes the outcome of its child.
LEMMA ChildTaken ==
    ASSUME LadderInv, child' = [child EXCEPT !["own"] = NoChild]
    PROVE  /\ child' \in [Slots -> Children \cup {NoChild}] /\ child'["own"] = NoChild
           /\ child'["orphan"] = child["orphan"]
<1>1. child \in [Slots -> Children \cup {NoChild}] /\ "own" \in Slots /\ "orphan" \in Slots
  BY DEF LadderInv, LadderTypes, Slots
<1> QED BY <1>1

LEMMA AttemptOkKeeps ==
    ASSUME LadderInv, AttemptOk
    PROVE  LadderInv'
<1>1. /\ lpc = "child" /\ child["own"].pc = "exit" /\ UnitOk(child["own"])
      /\ units' = [units EXCEPT ![ask.unit] = attempt]
      /\ askedBy' = [askedBy EXCEPT ![ask.unit] = ask]
      /\ lpc' = "clean" /\ child' = [child EXCEPT !["own"] = NoChild]
      /\ UNCHANGED <<ask, launch, attempt, ckpt, cards, logs, escal, ran, faults>>
  BY DEF AttemptOk, UnitEnded, UpsertUnit, AttemptsTaken
<1>2. /\ child["own"] # NoChild /\ child["own"].ask = ask
      /\ Sound(child["own"], ran, cards)
  BY <1>1 DEF LadderInv, Owned, ChildrenSound, Slots
<1>3. /\ child' \in [Slots -> Children \cup {NoChild}] /\ child'["own"] = NoChild
      /\ child'["orphan"] = child["orphan"]
  BY <1>1, ChildTaken
<1>4. ask \in Asks /\ ask.unit \in Units /\ attempt \in Nat
  BY <1>1, AskFields, RetriesAssumption DEF LadderInv, LadderTypes
<1>5. /\ units' \in [Units -> Nat] /\ askedBy' \in [Units -> Asks \cup {NoAsk}]
      /\ askedBy'[ask.unit] = ask
      /\ \A u \in Units : u # ask.unit => units'[u] = units[u] /\ askedBy'[u] = askedBy[u]
  BY <1>1, <1>4 DEF LadderInv, LadderTypes
<1>6. LadderTypes'
  BY <1>1, <1>3, <1>5 DEF LadderInv, LadderTypes
<1>7. Owned'
  BY <1>1, <1>3 DEF Owned
<1>8. OkIsScored'
  <2> SUFFICES ASSUME NEW u \in Units, units'[u] > 0, ~askedBy'[u].dry
               PROVE  \E k \in cards : /\ k.label = askedBy'[u].label /\ k.model = ModelOf[u]
                                       /\ Done(k.cells) = AskedModes(askedBy'[u])
    BY <1>1 DEF OkIsScored
  <2>1. CASE u = ask.unit
    <3>1. ExitedOk(child["own"])
      BY <1>1, <1>2, <1>5, <2>1 DEF ExitedOk
    <3>2. HasCard(ask, cards)
      BY <1>2, <3>1 DEF Sound
    <3> QED BY <1>5, <2>1, <3>2 DEF HasCard
  <2>2. CASE u # ask.unit
    BY <1>5, <2>2 DEF LadderInv, OkIsScored
  <2> QED BY <2>1, <2>2
<1>9. Evidence'
  BY <1>1 DEF LadderInv, Evidence
<1> QED BY <1>1, <1>3, <1>6, <1>7, <1>8, <1>9, DriverStep

LEMMA RetryKeeps ==
    ASSUME LadderInv, Retry
    PROVE  LadderInv'
<1>1. /\ lpc = "child" /\ lpc' = "loop" /\ child' = [child EXCEPT !["own"] = NoChild]
      /\ UNCHANGED <<ask, launch, attempt, units, askedBy, ckpt, cards, logs, escal, ran, faults>>
  BY DEF Retry, AttemptFailed, UnitEnded, diskVars
<1>2. /\ child' \in [Slots -> Children \cup {NoChild}] /\ child'["own"] = NoChild
      /\ child'["orphan"] = child["orphan"]
  BY <1>1, ChildTaken
<1>3. LadderTypes'
  BY <1>1, <1>2 DEF LadderInv, LadderTypes
<1>4. Owned'
  BY <1>1, <1>2 DEF Owned
<1>5. OkIsScored'
  BY <1>1 DEF LadderInv, OkIsScored
<1>6. Evidence'
  BY <1>1 DEF LadderInv, Evidence
<1> QED BY <1>1, <1>2, <1>3, <1>4, <1>5, <1>6, DriverStep

LEMMA LogsOfType ==
    ASSUME NEW L \in Nat
    PROVE  LogsOf(L) \in SUBSET (Nat \X Nat)
<1>1. 1 .. MaxRetries \subseteq Nat
  BY RetriesAssumption
<1> QED BY <1>1 DEF LogsOf

LEMMA EscalateKeeps ==
    ASSUME LadderInv, Escalate
    PROVE  LadderInv'
<1>1. /\ lpc = "child" /\ attempt = MaxRetries
      /\ escal' = [escal EXCEPT ![ask.label] = LogsOf(launch)]
      /\ lpc' = "down" /\ ask' = NoAsk /\ attempt' = 0
      /\ child' = [child EXCEPT !["own"] = NoChild]
      /\ UNCHANGED <<launch, units, askedBy, ckpt, cards, logs, ran, faults>>
  BY DEF Escalate, AttemptFailed, UnitEnded, Down, LogsOf
<1>2. /\ child' \in [Slots -> Children \cup {NoChild}] /\ child'["own"] = NoChild
      /\ child'["orphan"] = child["orphan"]
  BY <1>1, ChildTaken
<1>3. launch \in Nat /\ launch \in 0 .. launch /\ 0 \in 0 .. MaxRetries
  BY RetriesAssumption DEF LadderInv, LadderTypes
<1>4. ask.label \in Labels /\ LogsOf(launch) \in SUBSET (Nat \X Nat)
  BY <1>1, <1>3, AskFields, LogsOfType DEF LadderInv, LadderTypes
<1>5. /\ escal' \in [Labels -> SUBSET (Nat \X Nat)] /\ escal'[ask.label] = LogsOf(launch)
      /\ \A l \in Labels : l # ask.label => escal'[l] = escal[l]
  BY <1>1, <1>4 DEF LadderInv, LadderTypes
<1>6. LadderTypes'
  BY <1>1, <1>2, <1>3, <1>5 DEF LadderInv, LadderTypes
<1>7. Owned'
  BY <1>1, <1>2 DEF Owned
<1>8. OkIsScored'
  BY <1>1 DEF LadderInv, OkIsScored
<1>9. Evidence'
  <2>1. LogsOf(launch) \subseteq logs
    BY <1>1 DEF LadderInv, Evidence, LogsOf
  <2>2. ASSUME NEW l \in Labels, escal'[l] # {}
        PROVE  \E L \in 0 .. launch' : /\ L < launch' \/ (L = launch' /\ lpc' = "down")
                                       /\ escal'[l] = LogsOf(L) /\ LogsOf(L) \subseteq logs'
    <3>1. CASE l = ask.label
      BY <1>1, <1>3, <1>5, <2>1, <3>1
    <3>2. CASE l # ask.label
      BY <1>1, <1>5, <2>2, <3>2 DEF LadderInv, Evidence
    <3> QED BY <3>1, <3>2
  <2> QED BY <1>1, <2>2 DEF Evidence
<1> QED BY <1>1, <1>2, <1>6, <1>7, <1>8, <1>9, DriverStep

LEMMA FinishKeeps ==
    ASSUME LadderInv, Finish
    PROVE  LadderInv'
<1>1. /\ lpc = "clean" /\ (logs' = logs \/ logs' = logs \ Removed)
      /\ lpc' = "down" /\ ask' = NoAsk /\ attempt' = 0
      /\ UNCHANGED <<launch, child, units, askedBy, ckpt, cards, escal, ran, faults>>
  BY DEF Finish, Down
<1>2. 0 \in 0 .. MaxRetries /\ launch \in Nat
  BY RetriesAssumption DEF LadderInv, LadderTypes
<1>3. LadderTypes'
  BY <1>1, <1>2 DEF LadderInv, LadderTypes
<1>4. Owned'
  BY <1>1 DEF LadderInv, Owned
<1>5. OkIsScored'
  BY <1>1 DEF LadderInv, OkIsScored
<1>6. Evidence'
  <2>1. ASSUME NEW l \in Labels, escal[l] # {}
        PROVE  \E L \in 0 .. launch : /\ L < launch /\ escal[l] = LogsOf(L) /\ LogsOf(L) \subseteq logs'
    <3>1. PICK L \in 0 .. launch : L < launch /\ escal[l] = LogsOf(L) /\ LogsOf(L) \subseteq logs
      BY <1>1, <2>1 DEF LadderInv, Evidence
    <3>2. L # launch
      BY <1>2, <3>1
    <3>3. \A g \in LogsOf(L) : g[1] = L
      BY DEF LogsOf
    <3>4. \A g \in Removed : g[1] = launch
      BY DEF Removed
    <3> QED BY <1>1, <3>1, <3>2, <3>3, <3>4
  <2> QED BY <1>1, <2>1 DEF Evidence
<1> QED BY <1>1, <1>3, <1>4, <1>5, <1>6, DriverStep

LEMMA LadderDiesKeeps ==
    ASSUME LadderInv, LadderDies
    PROVE  LadderInv'
<1>1. /\ lpc # "down" /\ lpc' = "down" /\ ask' = NoAsk /\ attempt' = 0 /\ ~Alive("orphan")
      /\ child' = [s \in Slots |-> IF s = "orphan" /\ Alive("own") THEN child["own"] ELSE NoChild]
      /\ UNCHANGED <<launch, units, askedBy, ckpt, cards, logs, escal, ran>>
  BY DEF LadderDies, Down, diskVars
<1>2. faults' \in Nat /\ 0 \in 0 .. MaxRetries
  BY FaultType, RetriesAssumption DEF LadderDies
<1>3. child \in [Slots -> Children \cup {NoChild}] /\ "own" \in Slots /\ "orphan" \in Slots
  BY DEF LadderInv, LadderTypes, Slots
<1>4. /\ child' \in [Slots -> Children \cup {NoChild}] /\ child'["own"] = NoChild
      /\ \A s \in Slots : child'[s] \in {NoChild, child["own"]}
  BY <1>1, <1>3
<1>5. LadderTypes'
  BY <1>1, <1>2, <1>4 DEF LadderInv, LadderTypes
<1>6. Owned'
  BY <1>1, <1>4 DEF Owned
<1>7. OkIsScored'
  BY <1>1 DEF LadderInv, OkIsScored
<1>8. Evidence'
  BY <1>1 DEF LadderInv, Evidence
<1>9. ChildrenSound'
  BY <1>1, <1>3, <1>4 DEF LadderInv, ChildrenSound
<1>10. FilesBacked' /\ CardsBacked'
  BY <1>1 DEF LadderInv, FilesBacked, CardsBacked
<1>11. Kept'
  BY <1>4, NoChildFields DEF Kept, Late
<1> QED BY <1>5, <1>6, <1>7, <1>8, <1>9, <1>10, <1>11 DEF LadderInv

-----------------------------------------------------------------------------
LEMMA LadderStepKeeps ==
    LadderInv /\ [Next]_vars => LadderInv'
<1> SUFFICES ASSUME LadderInv, [Next]_vars
             PROVE  LadderInv'
  OBVIOUS
<1>1. CASE UNCHANGED vars
  BY <1>1 DEF vars, ladderVars, diskVars, LadderInv, LadderTypes, Owned, ChildrenSound, FilesBacked,
              CardsBacked, OkIsScored, Kept, Alive, Evidence
<1>2. ASSUME NEW a \in Asks, Launch(a)
      PROVE  LadderInv'
  BY <1>2, LaunchKeeps
<1>3. CASE Driver
  BY <1>3, ResumeSkipKeeps, StartAttemptKeeps, AttemptOkKeeps, RetryKeeps, EscalateKeeps,
     FinishKeeps DEF Driver
<1>4. CASE LadderDies
  BY <1>4, LadderDiesKeeps
<1>5. ASSUME NEW s \in Slots, Cell(s)
      PROVE  LadderInv'
  BY <1>5, ParseKeeps, PreflightKeeps, LoadKeeps, SkipModeKeeps, RunCellKeeps, MeterKeeps,
     SaveCellKeeps, WriteScorecardKeeps, FinalSaveKeeps, PrintResultKeeps, OrphanStopsKeeps DEF Cell
<1>6. ASSUME NEW s \in Slots, Faulty(s)
      PROVE  LadderInv'
  BY <1>6, MeterDownKeeps, ChildDiesKeeps DEF Faulty
<1> QED BY <1>1, <1>2, <1>3, <1>4, <1>5, <1>6 DEF Next

LEMMA LadderInvariant ==
    Spec => []LadderInv
  BY InitHolds, LadderStepKeeps, PTL DEF Spec

(***************************************************************************)
(* The way of a launch: attempts, the places of an attempt, and in the     *)
(* loop over the modes the position and what is done there.                *)
(***************************************************************************)
Place(c) == CASE c.pc = "parse" -> 0 [] c.pc = "preflight" -> 1 [] c.pc = "load" -> 2
              [] c.pc \in {"modes", "meter", "save"} -> 3
              [] c.pc = "final" -> 4 [] c.pc = "result" -> 5 [] OTHER -> 6
Stage(l, c) == CASE l = "child" -> Place(c) [] l = "loop" -> 7 [] OTHER -> 8
Act(c) == CASE c.pc = "meter" -> 1 [] c.pc = "save" -> 2 [] OTHER -> 0

Ahead(c, d) == \/ d.i > c.i
               \/ d.i = c.i /\ Act(d) > Act(c)

\* The ladder, or the child it waits for, is further on its way than it was.
Further ==
    \/ attempt' > attempt
    \/ attempt' = attempt /\ Stage(lpc', child'["own"]) > Stage(lpc, child["own"])
    \/ /\ attempt' = attempt /\ Stage(lpc', child'["own"]) = Stage(lpc, child["own"])
       /\ Ahead(child["own"], child'["own"])

OnItsWay ==
    (lpc # "down" /\ lpc' # "down") => UNCHANGED <<ladderVars, child["own"]>> \/ Further

\* The steps of a child's program.
Goes(c, d) ==
    \/ c.pc = "parse" /\ d.pc = "preflight"
    \/ c.pc = "preflight" /\ d.pc = "load"
    \/ c.pc = "load" /\ d.pc = "modes"
    \/ c.pc = "modes" /\ d.pc = "modes" /\ d.i = c.i + 1
    \/ c.pc = "modes" /\ d.pc = "meter" /\ d.i = c.i
    \/ c.pc = "meter" /\ d.pc = "save" /\ d.i = c.i
    \/ c.pc = "save" /\ d.pc = "modes" /\ d.i = c.i + 1
    \/ c.pc = "modes" /\ d.pc = "final"
    \/ c.pc = "final" /\ d.pc = "result"
    \/ c.pc \in (Early \cup Late) /\ d.pc = "exit"

LEMMA Onward ==
    ASSUME NEW c, NEW d, c.i \in Nat, Goes(c, d)
    PROVE  Place(d) > Place(c) \/ (Place(d) = Place(c) /\ Ahead(c, d))
<1>1. CASE c.pc \in (Early \cup Late) /\ d.pc = "exit"
  <2>1. Place(d) = 6
    BY <1>1 DEF Place
  <2>2. Place(c) \in {0, 1, 2, 3, 4, 5}
    BY <1>1 DEF Place, Early, Late
  <2> QED BY <2>1, <2>2
<1>2. CASE c.pc = "parse" /\ d.pc = "preflight"
  BY <1>2 DEF Place
<1>3. CASE c.pc = "preflight" /\ d.pc = "load"
  BY <1>3 DEF Place
<1>4. CASE c.pc = "load" /\ d.pc = "modes"
  BY <1>4 DEF Place
<1>5. CASE c.pc \in {"modes", "save"} /\ d.pc = "modes" /\ d.i = c.i + 1
  <2>1. Place(c) = 3 /\ Place(d) = 3
    BY <1>5 DEF Place
  <2>2. d.i > c.i
    BY <1>5
  <2> QED BY <2>1, <2>2 DEF Ahead
<1>6. CASE c.pc = "modes" /\ d.pc = "meter" /\ d.i = c.i
  <2>1. Place(c) = 3 /\ Place(d) = 3 /\ Act(c) = 0 /\ Act(d) = 1
    BY <1>6 DEF Place, Act
  <2> QED BY <1>6, <2>1 DEF Ahead
<1>7. CASE c.pc = "meter" /\ d.pc = "save" /\ d.i = c.i
  <2>1. Place(c) = 3 /\ Place(d) = 3 /\ Act(c) = 1 /\ Act(d) = 2
    BY <1>7 DEF Place, Act
  <2> QED BY <1>7, <2>1 DEF Ahead
<1>8. CASE c.pc = "modes" /\ d.pc = "final"
  BY <1>8 DEF Place
<1>9. CASE c.pc = "final" /\ d.pc = "result"
  BY <1>9 DEF Place
<1> QED BY <1>1, <1>2, <1>3, <1>4, <1>5, <1>6, <1>7, <1>8, <1>9 DEF Goes

\* A step of one child leaves the ladder and the other child alone.
LEMMA OneChildMoves ==
    ASSUME LadderInv, NEW s \in Slots, Cell(s) \/ Faulty(s)
    PROVE  /\ UNCHANGED ladderVars /\ \E n : child' = [child EXCEPT ![s] = n]
           /\ \A r \in Slots : r # s => child'[r] = child[r]
<1>1. UNCHANGED ladderVars /\ \E n : child' = [child EXCEPT ![s] = n]
  BY DEF Cell, Faulty, Parse, Preflight, Load, SkipMode, RunCell, Meter, SaveCell, WriteScorecard,
         FinalSave, PrintResult, OrphanStops, MeterDown, ChildDies, Printed
<1>2. child \in [Slots -> Children \cup {NoChild}]
  BY DEF LadderInv, LadderTypes
<1> QED BY <1>1, <1>2

LEMMA ExitGoes ==
    ASSUME LadderInv, Alive("own"), NEW code, NEW out,
           child' = [child EXCEPT !["own"] = Exits("own", code, out)]
    PROVE  Goes(child["own"], child'["own"])
<1>1. child["own"] \in Children /\ child["own"].pc # "exit" /\ "own" \in Slots
  BY LivingChild DEF Slots
<1>2. child'["own"] = Exits("own", code, out)
  BY <1>1 DEF LadderInv, LadderTypes
<1>3. Exits("own", code, out).pc = "exit"
  BY <1>1 DEF Exits, Children
<1>4. child["own"].pc \in Early \cup Late
  BY <1>1, ChildFields
<1> QED BY <1>2, <1>3, <1>4 DEF Goes

LEMMA MoveGoes ==
    ASSUME LadderInv, Alive("own"), NEW n, child' = [child EXCEPT !["own"] = n],
           Goes(child["own"], n)
    PROVE  Goes(child["own"], child'["own"])
<1>1. child'["own"] = n
  BY DEF LadderInv, LadderTypes, Slots
<1> QED BY <1>1

LEMMA OwnGoes ==
    ASSUME LadderInv, Cell("own") \/ Faulty("own")
    PROVE  Alive("own") /\ Goes(child["own"], child'["own"])
<1> DEFINE c == child["own"]
<1>1. Alive("own") /\ "own" \in Slots
  BY DEF Alive, Slots, Cell, Faulty, Parse, Preflight, Load, SkipMode, RunCell, Meter, SaveCell,
         WriteScorecard, FinalSave, PrintResult, OrphanStops, MeterDown, ChildDies, HasMode
<1>2. c \in Children /\ c.i \in Nat /\ c.pc # "exit"
  BY <1>1, LivingChild, ChildFields
<1>3. ASSUME NEW pc \in Early \cup Late
      PROVE  Move("own", pc).pc = pc /\ Move("own", pc).i = c.i
  BY <1>1, <1>2, Moved
<1>4. \A pc \in {"preflight", "load", "modes", "save", "final", "result"} : pc \in Early \cup Late
  BY DEF Early, Late
<1>5. CASE Parse("own")
  <2>1. CASE child' = [child EXCEPT !["own"] = Exits("own", 1, "")]
    BY <1>1, <2>1, ExitGoes
  <2>2. CASE Printed("own", Move("own", "preflight"))
    <3>1. Goes(c, Move("own", "preflight"))
      BY <1>3, <1>4, <1>5 DEF Parse, Goes
    <3> QED BY <1>1, <2>2, <3>1, MoveGoes DEF Printed
  <2> QED BY <1>1, <1>5, <2>1, <2>2 DEF Parse
<1>6. CASE Preflight("own")
  <2>1. CASE Printed("own", Exits("own", 2, "preflight_failed"))
    BY <1>1, <2>1, ExitGoes DEF Printed
  <2>2. CASE Printed("own", Move("own", "load"))
    <3>1. Goes(c, Move("own", "load"))
      BY <1>3, <1>4, <1>6 DEF Preflight, Goes
    <3> QED BY <1>1, <2>2, <3>1, MoveGoes DEF Printed
  <2> QED BY <1>1, <1>6, <2>1, <2>2 DEF Preflight
<1>7. CASE Load("own")
  <2>1. CASE child' = [child EXCEPT !["own"] = Exits("own", 1, "")]
    BY <1>1, <2>1, ExitGoes
  <2>2. CASE child' = [child EXCEPT !["own"] = [Move("own", "modes") EXCEPT !.mem = Loaded(c).cells,
                                                                             !.alone = ~Alive("orphan")]]
    <3> DEFINE n == [Move("own", "modes") EXCEPT !.mem = Loaded(c).cells, !.alone = ~Alive("orphan")]
    <3>1. n.pc = Move("own", "modes").pc
      BY <1>2 DEF Move, Children
    <3>2. Goes(c, n)
      BY <1>3, <1>4, <1>7, <3>1 DEF Load, Goes
    <3> QED BY <1>1, <2>2, <3>2, MoveGoes
  <2> QED BY <1>1, <1>7, <2>1, <2>2 DEF Load
<1>8. CASE SkipMode("own")
  <2> DEFINE n == [c EXCEPT !.i = c.i + 1]
  <2>1. child' = [child EXCEPT !["own"] = n] /\ c.pc = "modes"
    BY <1>8 DEF SkipMode, Printed, HasMode
  <2>2. n.pc = c.pc /\ n.i = c.i + 1
    BY <1>2 DEF Children
  <2>3. Goes(c, n)
    BY <2>1, <2>2 DEF Goes
  <2> QED BY <1>1, <2>1, <2>3, MoveGoes
<1>9. CASE RunCell("own")
  <2>1. PICK v \in Verdicts :
          child' = [child EXCEPT !["own"] = [c EXCEPT !.pc = "meter", !.cur.verdict = v]]
    BY <1>9 DEF RunCell
  <2> DEFINE n == [c EXCEPT !.pc = "meter", !.cur.verdict = v]
  <2>2. n.pc = "meter" /\ n.i = c.i
    BY <1>2 DEF Children
  <2>3. Goes(c, n)
    BY <1>9, <2>2 DEF Goes, RunCell, HasMode
  <2> QED BY <1>1, <2>1, <2>3, MoveGoes
<1>10. CASE Meter("own")
  <2>1. Goes(c, Move("own", "save"))
    BY <1>3, <1>4, <1>10 DEF Meter, Goes
  <2> QED BY <1>1, <1>10, <2>1, MoveGoes DEF Meter, Printed
<1>11. CASE SaveCell("own")
  <2> DEFINE n == [c EXCEPT !.pc = "modes", !.mem = UpsertCell(c), !.i = c.i + 1, !.cur = NoCell]
  <2>1. child' = [child EXCEPT !["own"] = n] /\ c.pc = "save"
    BY <1>11 DEF SaveCell
  <2>2. n.pc = "modes" /\ n.i = c.i + 1
    BY <1>2 DEF Children
  <2>3. Goes(c, n)
    BY <2>1, <2>2 DEF Goes
  <2> QED BY <1>1, <2>1, <2>3, MoveGoes
<1>12. CASE WriteScorecard("own")
  <2>1. Goes(c, Move("own", "final"))
    BY <1>3, <1>4, <1>12 DEF WriteScorecard, Goes
  <2> QED BY <1>1, <1>12, <2>1, MoveGoes DEF WriteScorecard
<1>13. CASE FinalSave("own")
  <2>1. PICK t : child' = [child EXCEPT !["own"] = [Move("own", "result") EXCEPT !.mem = t]]
    BY <1>13 DEF FinalSave
  <2> DEFINE n == [Move("own", "result") EXCEPT !.mem = t]
  <2>2. n.pc = Move("own", "result").pc
    BY <1>2 DEF Move, Children
  <2>3. Goes(c, n)
    BY <1>3, <1>4, <1>13, <2>2 DEF FinalSave, Goes
  <2> QED BY <1>1, <2>1, <2>3, MoveGoes
<1>14. CASE PrintResult("own")
  BY <1>1, <1>14, ExitGoes DEF PrintResult, Printed
<1>15. CASE OrphanStops("own") \/ Faulty("own")
  BY <1>1, <1>15, ExitGoes DEF OrphanStops, Faulty, MeterDown, ChildDies
<1> QED BY <1>1, <1>5, <1>6, <1>7, <1>8, <1>9, <1>10, <1>11, <1>12, <1>13, <1>14, <1>15 DEF Cell

LEMMA NextAttemptIsLater == \A n \in Nat : n + 1 > n
  OBVIOUS

LEMMA StageOrder ==
    ASSUME NEW c
    PROVE  /\ Stage("loop", c) = 7 /\ Stage("clean", c) = 8
           /\ Stage("child", c) = Place(c) /\ (c.pc = "exit" => Place(c) = 6)
           /\ 7 > 6 /\ 8 > 6 /\ 8 > 7
  BY DEF Stage, Place

LEMMA StepIsOnTheWay ==
    ASSUME LadderInv, [Next]_vars
    PROVE  OnItsWay
<1> SUFFICES ASSUME lpc # "down", lpc' # "down"
             PROVE  UNCHANGED <<ladderVars, child["own"]>> \/ Further
  BY DEF OnItsWay
<1>1. CASE UNCHANGED vars
  BY <1>1 DEF vars, ladderVars
<1>2. ASSUME NEW a \in Asks, Launch(a)
      PROVE  FALSE
  BY <1>2 DEF Launch
<1>3. CASE ResumeSkip
  <2>1. attempt' = attempt /\ lpc = "loop" /\ lpc' = "clean"
    BY <1>3 DEF ResumeSkip
  <2> QED BY <2>1, StageOrder DEF Further
<1>4. CASE StartAttempt
  <2>1. attempt' = attempt + 1 /\ attempt \in Nat
    BY <1>4, RetriesAssumption DEF StartAttempt, NextAttempt, LadderInv, LadderTypes
  <2> QED BY <2>1, NextAttemptIsLater DEF Further
<1>5. CASE AttemptOk
  <2>1. attempt' = attempt /\ lpc = "child" /\ lpc' = "clean" /\ child["own"].pc = "exit"
    BY <1>5 DEF AttemptOk, UnitEnded
  <2> QED BY <2>1, StageOrder DEF Further
<1>6. CASE Retry
  <2>1. attempt' = attempt /\ lpc = "child" /\ lpc' = "loop" /\ child["own"].pc = "exit"
    BY <1>6 DEF Retry, AttemptFailed, UnitEnded
  <2> QED BY <2>1, StageOrder DEF Further
<1>7. CASE Escalate \/ Finish \/ LadderDies
  BY <1>7 DEF Escalate, Finish, LadderDies, Down
<1>8. ASSUME NEW s \in Slots, Cell(s) \/ Faulty(s)
      PROVE  UNCHANGED <<ladderVars, child["own"]>> \/ Further
  <2>1. CASE s # "own"
    BY <1>8, <2>1, OneChildMoves DEF Slots
  <2>2. CASE s = "own"
    <3>1. Alive("own") /\ Goes(child["own"], child'["own"])
      BY <1>8, <2>2, OwnGoes
    <3>2. child["own"] \in Children /\ child["own"].i \in Nat /\ child["own"] # NoChild
      BY <3>1, LivingChild, ChildFields DEF Slots
    <3>3. lpc = "child" /\ lpc' = lpc /\ attempt' = attempt
      BY <1>8, <3>2, OneChildMoves DEF LadderInv, Owned, ladderVars
    <3>4. \/ Place(child'["own"]) > Place(child["own"])
          \/ Place(child'["own"]) = Place(child["own"]) /\ Ahead(child["own"], child'["own"])
      BY <3>1, <3>2, Onward
    <3>5. /\ Stage(lpc, child["own"]) = Place(child["own"])
          /\ Stage(lpc', child'["own"]) = Place(child'["own"])
      BY <3>3, StageOrder
    <3> QED BY <3>3, <3>4, <3>5 DEF Further
  <2> QED BY <2>1, <2>2
<1> QED BY <1>1, <1>2, <1>3, <1>4, <1>5, <1>6, <1>7, <1>8 DEF Next, Driver

(***************************************************************************)
(* The theorems.                                                           *)
(***************************************************************************)

\* The ladder, its children and the files they leave are always what their readers take
\* them for: a checkpoint and a scorecard hold cells with a verdict, and an escalation
\* file and the log directory hold attempts of launches.
THEOREM LadderTypeCorrect ==
    Spec => []LadderTypes
<1>1. LadderInv => LadderTypes
  BY DEF LadderInv
<1> QED BY <1>1, LadderInvariant, PTL

\* backgammon_ladder.py records a unit as ok when its child exits with 0 and prints the
\* status ok: by then run_backgammon.py has written a scorecard for the label and the model
\* with a verdict for every mode asked for, and for no other.
THEOREM OkUnitsAreScored ==
    Spec => []OkIsScored
<1>1. LadderInv => OkIsScored
  BY DEF LadderInv
<1> QED BY <1>1, LadderInvariant, PTL

\* run_backgammon.py may take cells from a checkpoint that another process wrote, before
\* or beside it: every verdict on a scorecard is still that of a cell that ran under the
\* scorecard's label and model, and a pass rate of 100 in its diff is a pass that happened.
THEOREM ScorecardsAreHonest ==
    Spec => []CardHonest
<1>1. ASSUME LadderInv, NEW k \in cards
      PROVE  /\ \A m \in Done(k.cells) : <<k.label, m, k.model, k.cells[m].verdict>> \in ran
             /\ \A d \in k.diffs :
                   /\ d.on = 100 => <<k.label, "on", k.model, "PASS">> \in ran
                   /\ d.off = 100 => <<k.label, "off", k.model, "PASS">> \in ran
  <2>1. k.cells \in Tables /\ k.diffs = ModelDiffs(k.cells)
    BY <1>1 DEF LadderInv, LadderTypes, Cards
  <2>2. \A m \in Done(k.cells) : <<k.label, m, k.model, k.cells[m].verdict>> \in ran
    BY <1>1 DEF LadderInv, CardsBacked, Backed
  <2>3. ASSUME NEW m \in Modes, PassRate(k.cells, m) = 100
        PROVE  <<k.label, m, k.model, "PASS">> \in ran
    <3>1. k.cells[m].verdict = "PASS"
      BY <2>3, Hundred DEF PassRate
    <3>2. m \in Done(k.cells)
      BY <2>1, <3>1, DoneCells DEF Verdicts
    <3> QED BY <2>2, <3>1, <3>2
  <2>4. \A d \in k.diffs : d.on = PassRate(k.cells, "on") /\ d.off = PassRate(k.cells, "off")
    BY <2>1 DEF ModelDiffs
  <2> QED BY <2>2, <2>3, <2>4 DEF Modes
<1>2. LadderInv => CardHonest
  BY <1>1 DEF CardHonest
<1> QED BY <1>2, LadderInvariant, PTL

\* The logs of the attempts are as many as the attempts.
LEMMA LogsOfCount ==
    ASSUME NEW L \in Nat
    PROVE  Cardinality(LogsOf(L)) = MaxRetries
<1> DEFINE f == [n \in 1 .. MaxRetries |-> <<L, n>>]
<1>1. f \in [1 .. MaxRetries -> LogsOf(L)]
  BY DEF LogsOf
<1>2. \A n, m \in 1 .. MaxRetries : f[n] = f[m] => n = m
  OBVIOUS
<1>3. \A g \in LogsOf(L) : \E n \in 1 .. MaxRetries : f[n] = g
  BY DEF LogsOf
<1> HIDE DEF f
<1>4. f \in Bijection(1 .. MaxRetries, LogsOf(L))
  BY <1>1, <1>2, <1>3 DEF Bijection, Injection, IsInjective, Surjection
<1>5. ExistsBijection(1 .. MaxRetries, LogsOf(L))
  BY <1>4 DEF ExistsBijection
<1>6. IsFiniteSet(1 .. MaxRetries) /\ Cardinality(1 .. MaxRetries) = MaxRetries
  BY RetriesAssumption, FS_Interval
<1> QED BY <1>5, <1>6, FS_Bijection

\* A launch that spends its retries writes an ESCALATE file naming its attempts' logs; a
\* later launch that succeeds deletes the logs of its own attempts only.
THEOREM EscalationsKeepTheirEvidence ==
    Spec => []EscalationEvidence
<1>1. ASSUME LadderInv, NEW l \in Labels, escal[l] # {}
      PROVE  Cardinality(escal[l]) = MaxRetries /\ escal[l] \subseteq logs
  <2>1. PICK L \in 0 .. launch : escal[l] = LogsOf(L) /\ LogsOf(L) \subseteq logs
    BY <1>1 DEF LadderInv, Evidence
  <2>2. L \in Nat
    OBVIOUS
  <2> QED BY <2>1, <2>2, LogsOfCount
<1>2. LadderInv => EscalationEvidence
  BY <1>1 DEF EscalationEvidence
<1> QED BY <1>2, LadderInvariant, PTL

\* What a write may do to a saved cell.
Excused(s, l) == /\ child[s].pc \in {"save", "final"} /\ child[s].ask.label = l
                 /\ \/ ~child[s].ask.resume \/ ~child[s].alone
                    \/ s = "orphan"

LEMMA WritesKeepCells ==
    ASSUME LadderInv, NEW s \in Slots, child[s].pc \in {"save", "final"}, NEW t,
           ckpt' = Saved(child[s], t),
           \A m \in Done(child[s].mem) :
              t[m].verdict = child[s].mem[m].verdict
              \/ (child[s].pc = "save" /\ m = Mode(child[s])),
           NEW l \in Labels, NEW m \in Modes, m \in Done(ckpt[l].cells),
           ckpt'[l].cells[m].verdict # ckpt[l].cells[m].verdict
    PROVE  Excused(s, l)
<1> DEFINE c == child[s]
<1>1. Alive(s) /\ c.pc \in Late
  BY DEF Alive, Late
<1>2. c \in Children /\ Sound(c, ran, cards) /\ c.mem \in Tables
  BY <1>1, LivingChild, ChildFields
<1>3. ckpt \in [Labels -> [model : Models \cup {"-"}, cells : Tables]]
  BY DEF LadderInv, LadderTypes
<1>4. l = c.ask.label /\ ckpt'[l].cells = t
  BY <1>3 DEF Saved
<1>5. CASE s = "orphan" \/ ~c.ask.resume \/ ~c.alone
  BY <1>4, <1>5 DEF Excused
<1>6. CASE s = "own" /\ c.ask.resume /\ c.alone
  <2>1. c.mem[m].verdict = ckpt[l].cells[m].verdict
    BY <1>1, <1>4, <1>6 DEF LadderInv, Kept
  <2>2. ckpt[l].cells[m].verdict \in Verdicts
    BY <1>3, DoneCells
  <2>3. m \in Done(c.mem)
    BY <1>2, <2>1, <2>2, DoneCells
  <2>4. c.pc = "save" => m # Mode(c)
    BY <1>2, <1>6, <2>3 DEF Sound, Mode
  <2>5. t[m].verdict = c.mem[m].verdict
    BY <2>3, <2>4
  <2> QED BY <1>4, <2>1, <2>5
<1> QED BY <1>5, <1>6 DEF Slots

\* Every checkpoint write replaces the whole file with one process's memory of it: a cell
\* saved before is lost or changed only by a launch without --resume, by an orphan, or by
\* a child that loaded while an orphan could still write.
THEOREM SavedCellsAreKept ==
    Spec => CellsKept
<1> DEFINE A == \A l \in Labels, m \in Modes :
                  (m \in Done(ckpt[l].cells) /\ ckpt'[l].cells[m].verdict # ckpt[l].cells[m].verdict)
                  => \E s \in Slots : /\ child[s].pc \in {"save", "final"} /\ child[s].ask.label = l
                                      /\ \/ ~child[s].ask.resume \/ ~child[s].alone
                                         \/ s = "orphan"
<1>1. ASSUME ckpt' = ckpt
      PROVE  A
  BY <1>1
<1>2. ASSUME LadderInv, NEW s \in Slots, SaveCell(s)
      PROVE  A
  <2> DEFINE c == child[s]
             t == UpsertCell(c)
  <2>1. c.pc = "save" /\ ckpt' = Saved(c, t)
    BY <1>2 DEF SaveCell
  <2>2. c \in Children /\ Sound(c, ran, cards) /\ c.ask \in Asks
    BY <1>2, <2>1, LivingChild, ChildFields DEF Alive
  <2>3. Mode(c) \in Modes /\ c.cur # NoCell
    BY <2>1, <2>2, AskFields DEF Sound, Mode
  <2>4. \A m \in Modes : m # Mode(c) => t[m] = c.mem[m]
    BY <2>2, <2>3, Upserted
  <2>5. \A m \in Done(c.mem) : t[m].verdict = c.mem[m].verdict \/ (c.pc = "save" /\ m = Mode(c))
    BY <2>1, <2>4 DEF Done
  <2> HIDE DEF t
  <2> QED BY <1>2, <2>1, <2>5, WritesKeepCells DEF Excused
<1>3. ASSUME LadderInv, NEW s \in Slots, FinalSave(s)
      PROVE  A
  <2> DEFINE c == child[s]
             t == Stamped(c.mem)
  <2>1. c.pc = "final" /\ ckpt' = Saved(c, t)
    BY <1>3 DEF FinalSave, Stamped
  <2>2. c.mem \in Tables
    BY <1>3, <2>1, LivingChild, ChildFields DEF Alive
  <2>3. \A m \in Done(c.mem) : t[m].verdict = c.mem[m].verdict \/ (c.pc = "save" /\ m = Mode(c))
    BY <2>2, StampedTable
  <2> HIDE DEF t
  <2> QED BY <1>3, <2>1, <2>3, WritesKeepCells DEF Excused
<1> HIDE DEF A
<1>4. ASSUME NEW s \in Slots, Cell(s) \/ Faulty(s), ~SaveCell(s), ~FinalSave(s)
      PROVE  ckpt' = ckpt
  BY <1>4 DEF Cell, Faulty, Parse, Preflight, Load, SkipMode, RunCell, Meter, WriteScorecard,
              PrintResult, OrphanStops, MeterDown, ChildDies, diskVars
<1>5. ASSUME Driver \/ LadderDies \/ (\E a \in Asks : Launch(a))
      PROVE  ckpt' = ckpt
  BY <1>5 DEF Driver, ResumeSkip, StartAttempt, AttemptOk, Retry, Escalate, Finish, LadderDies,
              Launch, diskVars
<1>6. ASSUME LadderInv, [Next]_vars
      PROVE  [A]_vars
  <2>1. CASE UNCHANGED vars
    BY <2>1
  <2>2. CASE Driver \/ LadderDies \/ (\E a \in Asks : Launch(a))
    BY <1>1, <1>5, <2>2
  <2>3. ASSUME NEW s \in Slots, Cell(s) \/ Faulty(s)
        PROVE  A
    BY <1>1, <1>2, <1>3, <1>4, <1>6, <2>3
  <2> QED BY <1>6, <2>1, <2>2, <2>3 DEF Next
<1>7. Spec => [][A]_vars
  BY <1>6, LadderInvariant, PTL DEF Spec
<1> QED BY <1>7 DEF A, CellsKept

\* The bound on the way: attempts up to --max-retries, and in an attempt the modes asked for.
Bounded ==
    /\ attempt <= MaxRetries
    /\ \A s \in Slots : child[s] # NoChild => child[s].i <= Len(ParseModes(child[s].ask.raw)) + 1

\* Why a launched ladder ends, short of fairness: run_unit's retry loop, its wait for the child
\* and the child's loop over the modes have no way back, and each is bounded.  As long as the
\* ladder is up, every step that moves it or its child moves them on, by attempt, place and
\* mode, whatever deaths, orphans and failures there are.
THEOREM LadderNeverTurnsBack ==
    Spec => []Bounded /\ [][OnItsWay]_vars
<1>1. LadderInv => Bounded
  <2> SUFFICES ASSUME LadderInv
               PROVE  Bounded
    OBVIOUS
  <2>1. attempt <= MaxRetries
    BY RetriesAssumption DEF LadderInv, LadderTypes
  <2>2. \A s \in Slots : child[s] # NoChild => child[s].i <= Len(ParseModes(child[s].ask.raw)) + 1
    BY DEF LadderInv, ChildrenSound, Sound
  <2> QED BY <2>1, <2>2 DEF Bounded
<1>2. LadderInv /\ [Next]_vars => [OnItsWay]_vars
  BY StepIsOnTheWay
<1> QED BY <1>1, <1>2, LadderInvariant, PTL DEF Spec
=============================================================================
