----------------------------- MODULE ServeProofs ----------------------------
(***************************************************************************)
(* What the drive through a serve guarantees for every number of chunks and *)
(* rounds, and any number of messages, kills, stalls and failed reads.     *)
(*                                                                         *)
(* The metering rests on transcripts that only grow: what a reading counts *)
(* never changes (CountAppend), so a phase's two readings bound what was   *)
(* written between them (Landed, Measured), and the sums over the phases   *)
(* follow (MeteredIsBurned, Counted).  That the worker is done when success *)
(* is reported is a separate argument about the queue (Quiet).             *)
(***************************************************************************)
EXTENDS ServeDrive, FiniteSetTheorems, TLAPS

(***************************************************************************)
(* Counting the messages of a transcript.                                  *)
(***************************************************************************)
\* Turns the worker ended by itself, those the relay killed, and with both all real turns.
Ended == {x \in Messages : x.kind \in {"done", "marked", "summary"}}

Guarded == {x \in Messages : x.kind = "guard"}

Finalized == {x \in Messages : x.kind = "finalize"}

RealOnes == Ended \cup (Guarded \cup Finalized)

\* Messages that report output tokens.
Burning == {x \in Messages : x.burns}

\* The messages of a set among the first n.
CountUpto(t, K, n) == Cardinality({i \in 1 .. n : t[i] \in K})

\* Counts are naturals, and grow with the reading.
LEMMA CountMono ==
    ASSUME NEW t, NEW K, NEW n \in Nat, NEW p \in Nat, n <= p
    PROVE  /\ CountUpto(t, K, n) \in Nat /\ CountUpto(t, K, p) \in Nat
           /\ CountUpto(t, K, n) <= CountUpto(t, K, p)
<1> DEFINE S == {i \in 1 .. n : t[i] \in K}
           T == {i \in 1 .. p : t[i] \in K}
<1>1. IsFiniteSet(1 .. p)
  BY FS_Interval
<1>2. T \in SUBSET (1 .. p)
  OBVIOUS
<1>3. IsFiniteSet(T)
  BY <1>1, <1>2, FS_Subset
<1>4. S \in SUBSET T
  OBVIOUS
<1>5. IsFiniteSet(S) /\ Cardinality(S) <= Cardinality(T)
  BY <1>3, <1>4, FS_Subset
<1>6. Cardinality(S) \in Nat /\ Cardinality(T) \in Nat
  BY <1>3, <1>5, FS_CardinalityType
<1>7. QED
  BY <1>5, <1>6 DEF CountUpto

\* What a reading counts does not change when messages are added.
LEMMA CountAppend ==
    ASSUME NEW t \in Seq(Messages), NEW k, NEW K, NEW n \in 0 .. Len(t)
    PROVE  CountUpto(Append(t, k), K, n) = CountUpto(t, K, n)
<1>1. \A i \in 1 .. n : Append(t, k)[i] = t[i]
  OBVIOUS
<1>2. {i \in 1 .. n : Append(t, k)[i] \in K} = {i \in 1 .. n : t[i] \in K}
  BY <1>1
<1>3. QED
  BY <1>2 DEF CountUpto

\* Sets that exclude each other are counted apart.
LEMMA CountSplit ==
    ASSUME NEW t, NEW K, NEW L, K \cap L = {}, NEW n \in Nat
    PROVE  CountUpto(t, K \cup L, n) = CountUpto(t, K, n) + CountUpto(t, L, n)
<1> DEFINE S == {i \in 1 .. n : t[i] \in K}
           T == {i \in 1 .. n : t[i] \in L}
<1>1. IsFiniteSet(S) /\ IsFiniteSet(T)
  <2>1. IsFiniteSet(1 .. n) /\ S \in SUBSET (1 .. n) /\ T \in SUBSET (1 .. n)
    BY FS_Interval
  <2>2. QED
    BY <2>1, FS_Subset
<1> DEFINE U == {i \in 1 .. n : t[i] \in K \cup L}
<1>2. S \cap T = {} /\ U = S \cup T
  OBVIOUS
<1>0. /\ CountUpto(t, K, n) = Cardinality(S) /\ CountUpto(t, L, n) = Cardinality(T)
      /\ CountUpto(t, K \cup L, n) = Cardinality(U)
  BY DEF CountUpto
<1> HIDE DEF S, T, U
<1>3. Cardinality(S \cup T) = Cardinality(S) + Cardinality(T) - Cardinality(S \cap T)
  BY <1>1, FS_Union
<1>4. Cardinality(S \cap T) = 0 /\ Cardinality(S) \in Nat /\ Cardinality(T) \in Nat
  BY <1>1, <1>2, FS_EmptySet, FS_CardinalityType
<1>5. QED
  BY <1>0, <1>2, <1>3, <1>4

\* Real turns are those that ended by themselves and those the relay killed.
LEMMA RealSplit ==
    ASSUME NEW t, NEW n \in Nat
    PROVE  CountUpto(t, RealOnes, n)
             = CountUpto(t, Ended, n) + (CountUpto(t, Guarded, n) + CountUpto(t, Finalized, n))
<1>1. Ended \cap (Guarded \cup Finalized) = {} /\ Guarded \cap Finalized = {}
  BY DEF Ended, Guarded, Finalized
<1>2. CountUpto(t, Guarded \cup Finalized, n) = CountUpto(t, Guarded, n) + CountUpto(t, Finalized, n)
  BY <1>1, CountSplit
<1>3. CountUpto(t, Ended \cup (Guarded \cup Finalized), n)
        = CountUpto(t, Ended, n) + CountUpto(t, Guarded \cup Finalized, n)
  BY <1>1, CountSplit
<1>4. QED
  BY <1>2, <1>3 DEF RealOnes

\* What the metrics of a reading count.
LEMMA CountAlt ==
    ASSUME NEW t \in Seq(Messages), NEW n \in 0 .. Len(t)
    PROVE  /\ Cardinality({i \in 1 .. n : Real(t[i].kind)}) = CountUpto(t, RealOnes, n)
           /\ Cardinality({i \in 1 .. n : t[i].burns}) = CountUpto(t, Burning, n)
           /\ Cardinality({i \in 1 .. n : t[i].kind = "guard"}) = CountUpto(t, Guarded, n)
           /\ Cardinality({i \in 1 .. n : t[i].kind = "finalize"}) = CountUpto(t, Finalized, n)
<1>1. \A i \in 1 .. n : t[i] \in Messages
  OBVIOUS
<1>2. \A x \in Messages : Real(x.kind) <=> x \in RealOnes
  BY DEF Messages, Real, Kinds, Answers, RealOnes, Ended, Guarded, Finalized
<1>3. /\ {i \in 1 .. n : Real(t[i].kind)} = {i \in 1 .. n : t[i] \in RealOnes}
      /\ {i \in 1 .. n : t[i].burns} = {i \in 1 .. n : t[i] \in Burning}
      /\ {i \in 1 .. n : t[i].kind = "guard"} = {i \in 1 .. n : t[i] \in Guarded}
      /\ {i \in 1 .. n : t[i].kind = "finalize"} = {i \in 1 .. n : t[i] \in Finalized}
  BY <1>1, <1>2 DEF Burning, Guarded, Finalized
<1>4. QED
  BY <1>3 DEF CountUpto

\* Some transcript, as far as a reading of it goes: {} or {n}.
Reading(t, r) == r = {} \/ \E n \in 0 .. Len(t) : r = {n}

\* The messages of a set in a reading.
CountAt(t, K, r) == CountUpto(t, K, ReadTo(r))

\* How far a reading goes.
LEMMA ReadToType ==
    ASSUME NEW t \in Seq(Messages), NEW r, Reading(t, r)
    PROVE  ReadTo(r) \in 0 .. Len(t) /\ \A n \in r : ReadTo(r) = n
<1>1. CASE r = {}
  BY <1>1 DEF ReadTo
<1>2. ASSUME NEW n \in 0 .. Len(t), r = {n} PROVE ReadTo(r) = n
  BY <1>2 DEF ReadTo
<1>3. QED
  BY <1>1, <1>2 DEF Reading

\* A reading of a transcript counts the same in the transcript that grew from it.
LEMMA ReadingGrows ==
    ASSUME NEW t \in Seq(Messages), NEW k \in Messages, NEW r, Reading(t, r), NEW K
    PROVE  /\ Reading(Append(t, k), r)
           /\ CountAt(Append(t, k), K, r) = CountAt(t, K, r)
<1>1. \A n \in 0 .. Len(t) : n \in 0 .. Len(Append(t, k))
  OBVIOUS
<1>2. QED
  BY <1>1, ReadToType, CountAppend DEF Reading, CountAt

\* What a reading counts is a natural.
LEMMA CountAtNat ==
    ASSUME NEW t \in Seq(Messages), NEW r, Reading(t, r), NEW K
    PROVE  /\ CountAt(t, K, r) \in Nat
           /\ \A n \in r : n \in 0 .. Len(t) /\ CountAt(t, K, r) = CountUpto(t, K, n)
<1>1. ASSUME NEW n \in 0 .. Len(t) PROVE CountUpto(t, K, n) \in Nat
  BY CountMono
<1>2. QED
  BY <1>1, ReadToType DEF CountAt

(***************************************************************************)
(* The invariant of the metering.                                          *)
(***************************************************************************)
ServeTypes ==
    /\ transcript \in Seq(Messages)
    /\ landed \in Int /\ seen \in Int /\ faults \in Nat
    /\ turns \in Int /\ burned \in Int /\ inPhases \in Int /\ forgone \in Int

Readings == Reading(transcript, baseline) /\ Reading(transcript, m)

\* The output written since the phase began is what the transcript has beyond the
\* phase's baseline.
Landed ==
    ~degraded /\ pc \in InPhase =>
        /\ baseline # {}
        /\ landed = CountUpto(transcript, Burning, Len(transcript))
                      - CountAt(transcript, Burning, baseline)

\* The last reading of a phase is not behind its baseline, and saw what was written
\* in between.
Measured ==
    ~degraded /\ pc \in {"window", "finish"} =>
        /\ m # {}
        /\ \A b \in baseline, n \in m : b <= n
        /\ seen = CountAt(transcript, Burning, m) - CountAt(transcript, Burning, baseline)

\* The turns that count ended by themselves, those of a phase before its baseline.
Counted ==
    ~degraded =>
        /\ turns <= CountUpto(transcript, Ended, Len(transcript))
        /\ \A b \in baseline : turns <= CountUpto(transcript, Ended, b)

ServeInv == ServeTypes /\ Readings /\ Landed /\ Measured /\ Counted /\ MeteredIsBurned

metered == <<baseline, m, landed, seen, turns, burned, inPhases, forgone, degraded>>

\* The operators of the drive are counts.
LEMMA DriveCounts ==
    ASSUME ServeTypes, NEW n \in 0 .. Len(transcript)
    PROVE  /\ RealTurns(n) = CountUpto(transcript, RealOnes, n)
           /\ OutputTokens(n) = CountUpto(transcript, Burning, n)
           /\ KilledTurns(n) = CountUpto(transcript, Guarded, n) + CountUpto(transcript, Finalized, n)
BY CountAlt DEF ServeTypes, RealTurns, OutputTokens, KilledTurns, GuardAborted, FinalizeTimeouts

\* The drive starts with nothing metered.
LEMMA ServeInvInit == Init => ServeInv
<1> SUFFICES ASSUME Init PROVE ServeInv
  OBVIOUS
<1>1. CountUpto(<<>>, Ended, 0) \in Nat
  BY CountMono
<1>2. transcript \in Seq(Messages) /\ Len(transcript) = 0
  BY DEF Init
<1>3. QED
  BY <1>1, <1>2 DEF Init, ServeInv, ServeTypes, Readings, Reading, Landed, Measured, Counted,
                    MeteredIsBurned, InPhase

\* A step that meters nothing, and does not begin a phase or end its readings.
LEMMA PassingStep ==
    ASSUME ServeInv, UNCHANGED <<transcript, metered>>, Works \/ Fails,
           pc' \in InPhase => pc \in InPhase,
           pc' \in {"window", "finish"} => pc \in {"window", "finish"}
    PROVE  ServeInv'
<1>1. faults' \in Nat /\ (faults' = 0 => faults = 0)
  BY DEF ServeInv, ServeTypes, Works, Fails
<1>2. ServeTypes' /\ Readings' /\ MeteredIsBurned'
  BY <1>1 DEF ServeInv, ServeTypes, Readings, MeteredIsBurned, metered
<1>3. QED
  BY <1>2 DEF ServeInv, Readings, Landed, Measured, Counted, metered

\* What is given up takes a call that failed, or is nothing.
LEMMA ForgoStep ==
    ASSUME ServeInv, Forgo, UNCHANGED <<burned, degraded>>, Fails \/ (Works /\ (~degraded => landed = 0))
    PROVE  inPhases' \in Int /\ forgone' \in Int /\ faults' \in Nat /\ MeteredIsBurned'
BY DEF ServeInv, ServeTypes, MeteredIsBurned, Forgo, Fails, Works

\* A step with which a phase ends unmetered.
LEMMA LeavingStep ==
    ASSUME ServeInv, Unmetered, UNCHANGED <<transcript, turns, burned, degraded>>,
           Fails \/ (Works /\ (~degraded => landed = 0))
    PROVE  ServeInv'
<1>1. inPhases' \in Int /\ forgone' \in Int /\ faults' \in Nat /\ MeteredIsBurned'
  BY ForgoStep DEF Unmetered
<1>2. QED
  BY <1>1 DEF ServeInv, ServeTypes, Readings, Reading, Landed, Measured, Counted,
              Unmetered, PhaseOver, InPhase

\* A prompt that was never seen busy is given up on a reading only if nothing of the
\* phase is in it.
LEMMA DeadIsSilent ==
    ASSUME ServeInv, pc = "busy", ~degraded,
           baseline # {} => OutputTokens(Len(transcript)) - OutputTokens(ReadTo(baseline)) <= 0
    PROVE  landed = 0
<1>1. /\ transcript \in Seq(Messages) /\ Len(transcript) \in Nat /\ ServeTypes
      /\ Reading(transcript, baseline)
      /\ landed = CountUpto(transcript, Burning, Len(transcript)) - CountAt(transcript, Burning, baseline)
      /\ baseline # {}
  BY DEF ServeInv, ServeTypes, Readings, Landed, InPhase
<1>2. ReadTo(baseline) \in 0 .. Len(transcript)
  BY <1>1, ReadToType
<1>3. /\ OutputTokens(Len(transcript)) = CountUpto(transcript, Burning, Len(transcript))
      /\ OutputTokens(ReadTo(baseline)) = CountAt(transcript, Burning, baseline)
  BY <1>1, <1>2, DriveCounts DEF CountAt
<1>4. /\ CountAt(transcript, Burning, baseline) <= CountUpto(transcript, Burning, Len(transcript))
      /\ CountAt(transcript, Burning, baseline) \in Nat
      /\ CountUpto(transcript, Burning, Len(transcript)) \in Nat
  BY <1>1, <1>2, CountMono DEF CountAt
<1>5. QED
  BY <1>1, <1>3, <1>4

\* The messages of the serve change no reading.
LEMMA ServeStep ==
    ASSUME ServeInv, Serve
    PROVE  ServeInv'
<1>0. /\ UNCHANGED <<pc, faults, baseline, m, seen, turns, burned, inPhases, forgone, degraded>>
      /\ landed' = IF pc \in InPhase
                   THEN landed + OutputTokens(Len(transcript))' - OutputTokens(Len(transcript))
                   ELSE landed
  BY DEF Serve, sums
<1>1. /\ transcript \in Seq(Messages) /\ Len(transcript) \in Nat /\ landed \in Int
      /\ Reading(transcript, baseline) /\ Reading(transcript, m)
  BY DEF ServeInv, ServeTypes, Readings
<1>2. CASE transcript' = transcript
  <2>1. OutputTokens(Len(transcript))' = OutputTokens(Len(transcript))
    BY <1>2 DEF OutputTokens
  <2>2. OutputTokens(Len(transcript)) = CountUpto(transcript, Burning, Len(transcript))
    BY <1>1, DriveCounts DEF ServeInv
  <2>3. CountUpto(transcript, Burning, Len(transcript)) \in Nat
    BY <1>1, CountMono
  <2>4. landed' = landed
    BY <2>1, <2>2, <2>3, <1>0, <1>1
  <2>5. QED
    BY <2>4, <1>0, <1>2, PassingStep DEF metered, Works
<1>3. ASSUME NEW k \in Messages, transcript' = Append(transcript, k) PROVE ServeInv'
  <2>1. /\ transcript' \in Seq(Messages) /\ Len(transcript') = Len(transcript) + 1
    BY <1>1, <1>3
  <2>2. OutputTokens(Len(transcript))' = CountUpto(transcript', Burning, Len(transcript'))
    <3>1. OutputTokens(Len(transcript))' = Cardinality({i \in 1 .. Len(transcript') : transcript'[i].burns})
      BY DEF OutputTokens
    <3>2. Len(transcript') \in 0 .. Len(transcript')
      BY <1>1, <2>1
    <3>3. Cardinality({i \in 1 .. Len(transcript') : transcript'[i].burns})
            = CountUpto(transcript', Burning, Len(transcript'))
      BY <3>2, <2>1, CountAlt
    <3>4. QED
      BY <3>1, <3>3
  <2>3. OutputTokens(Len(transcript)) = CountUpto(transcript, Burning, Len(transcript))
    BY <1>1, DriveCounts DEF ServeInv
  <2>4. /\ CountUpto(transcript', Burning, Len(transcript')) \in Nat
        /\ CountUpto(transcript, Burning, Len(transcript)) \in Nat
    BY <1>1, <2>1, CountMono
  <2>5. \A K : /\ CountAt(transcript', K, baseline) = CountAt(transcript, K, baseline)
               /\ CountAt(transcript', K, m) = CountAt(transcript, K, m)
    BY <1>1, <1>3, ReadingGrows
  <2>6. Reading(transcript', baseline) /\ Reading(transcript', m)
    BY <1>1, <1>3, ReadingGrows
  <2>7. ServeTypes' /\ Readings'
    BY <1>0, <2>1, <2>2, <2>3, <2>4, <2>6 DEF ServeInv, ServeTypes, Readings
  <2>8. Landed'
    <3>1. CountAt(transcript, Burning, baseline) \in Nat
      BY <1>1, CountAtNat
    <3>2. QED
      BY <3>1, <1>0, <1>1, <2>2, <2>3, <2>4, <2>5 DEF ServeInv, Landed
  <2>9. Measured'
    BY <1>0, <2>5 DEF ServeInv, Measured
  <2>10. Counted'
    <3>1. CountUpto(transcript', Ended, Len(transcript)) = CountUpto(transcript, Ended, Len(transcript))
      BY <1>1, <1>3, CountAppend
    <3>2. /\ CountUpto(transcript', Ended, Len(transcript))
                <= CountUpto(transcript', Ended, Len(transcript'))
          /\ CountUpto(transcript', Ended, Len(transcript)) \in Nat
          /\ CountUpto(transcript', Ended, Len(transcript')) \in Nat
      BY <1>1, <2>1, CountMono
    <3>3. \A b \in baseline : CountUpto(transcript', Ended, b) = CountUpto(transcript, Ended, b)
      BY <1>1, <1>3, CountAtNat, CountAppend
    <3>4. turns \in Int
      BY DEF ServeInv, ServeTypes
    <3>5. QED
      BY <3>1, <3>2, <3>3, <3>4, <1>0 DEF ServeInv, Counted
  <2>11. MeteredIsBurned'
    BY <1>0 DEF ServeInv, MeteredIsBurned
  <2>12. QED
    BY <2>7, <2>8, <2>9, <2>10, <2>11 DEF ServeInv
<1>4. transcript' = transcript \/ \E k \in Messages : transcript' = Append(transcript, k)
  BY ServeAssumption DEF Serve, PickUp, Write, EndTurn, SelfCompact, EndCompact, ServeAssumption
<1>5. QED
  BY <1>2, <1>3, <1>4

\* The first reading of a phase: nothing has been written since.
LEMMA BaselineStep ==
    ASSUME ServeInv, ReadBaseline
    PROVE  ServeInv'
<1>0. /\ transcript' = transcript /\ pc' = "mark" /\ landed' = 0 /\ seen' = 0
      /\ UNCHANGED <<m, turns, burned, inPhases, forgone>>
      /\ faults' \in Nat /\ (faults' = 0 => faults = 0)
  BY DEF ReadBaseline, Goto, serve, ServeInv, ServeTypes, Works, Fails
<1>1. transcript \in Seq(Messages) /\ Len(transcript) \in Nat
  BY DEF ServeInv, ServeTypes
<1>2. (baseline' = {Len(transcript)} /\ degraded' = degraded) \/ (baseline' = {} /\ degraded' = TRUE)
  BY DEF ReadBaseline
<1>3. Reading(transcript, {Len(transcript)}) /\ Reading(transcript, {})
  BY <1>1 DEF Reading
<1>4. ServeTypes' /\ Readings'
  <2>1. ServeTypes' /\ Reading(transcript', m')
    BY <1>0 DEF ServeInv, ServeTypes, Readings
  <2>2. Reading(transcript', baseline')
    BY <1>0, <1>2, <1>3
  <2>3. QED
    BY <2>1, <2>2 DEF Readings
<1>5. Landed'
  <2>1. CountAt(transcript, Burning, {Len(transcript)})
          = CountUpto(transcript, Burning, Len(transcript))
    BY <1>1, <1>3, CountAtNat
  <2>2. CountUpto(transcript, Burning, Len(transcript)) \in Nat
    BY <1>1, CountMono
  <2>3. CASE baseline' = {} /\ degraded' = TRUE
    BY <2>3 DEF Landed
  <2>4. CASE baseline' = {Len(transcript)}
    <3>1. baseline' # {} /\ landed' = CountUpto(transcript, Burning, Len(transcript))
                                        - CountAt(transcript, Burning, baseline')
      BY <1>0, <2>1, <2>2, <2>4
    <3>2. QED
      BY <3>1, <1>0 DEF Landed
  <2>5. QED
    BY <1>2, <2>3, <2>4
<1>6. Measured' /\ MeteredIsBurned'
  BY <1>0, <1>2 DEF ServeInv, Measured, MeteredIsBurned
<1>7. Counted'
  BY <1>0, <1>2 DEF ServeInv, Counted
<1>8. QED
  BY <1>4, <1>5, <1>6, <1>7 DEF ServeInv

\* The last reading of a phase: it saw all there is.
LEMMA MeterWorks ==
    ASSUME ServeInv, pc \in InPhase, pc' \in InPhase,
           m' = {Len(transcript)}, seen' = landed,
           UNCHANGED <<transcript, faults, baseline, landed, turns, burned, inPhases, forgone, degraded>>
    PROVE  ServeInv'
<1>1. /\ transcript \in Seq(Messages) /\ Len(transcript) \in Nat
      /\ Reading(transcript, baseline)
  BY DEF ServeInv, ServeTypes, Readings
<1>2. Reading(transcript, {Len(transcript)})
  BY <1>1 DEF Reading
<1>3. ServeTypes' /\ Readings'
  BY <1>2 DEF ServeInv, ServeTypes, Readings
<1>4. CountAt(transcript, Burning, {Len(transcript)})
        = CountUpto(transcript, Burning, Len(transcript))
  BY <1>1, <1>2, CountAtNat
<1>5. \A b \in baseline : b <= Len(transcript)
  BY <1>1, CountAtNat
<1>6. Measured'
  BY <1>4, <1>5 DEF ServeInv, Landed, Measured
<1>7. QED
  BY <1>3, <1>6 DEF ServeInv, Landed, Counted, MeteredIsBurned

\* A phase whose last reading is lost has not moved.
LEMMA LostStep ==
    ASSUME ServeInv, pc \in InPhase, Lost,
           UNCHANGED <<transcript, baseline, landed, turns, burned, degraded>>
    PROVE  ServeInv'
<1>0. inPhases' \in Int /\ forgone' \in Int /\ faults' \in Nat /\ MeteredIsBurned'
  BY ForgoStep DEF Lost
<1>1. /\ transcript \in Seq(Messages) /\ Reading(transcript, baseline)
      /\ CountAt(transcript, Burning, baseline) \in Nat
  BY CountAtNat DEF ServeInv, ServeTypes, Readings
<1>2. m' = baseline /\ seen' = 0 /\ pc' = "finish"
  BY DEF Lost
<1>3. ServeTypes' /\ Readings'
  BY <1>0, <1>2 DEF ServeInv, ServeTypes, Readings
<1>4. \A b, n \in baseline : b <= n
  BY <1>1 DEF Reading
<1>5. Landed' /\ Measured'
  BY <1>1, <1>2, <1>4 DEF ServeInv, Landed, Measured, InPhase
<1>6. QED
  BY <1>0, <1>3, <1>5 DEF ServeInv, Counted

\* The deltas of a phase: the tokens are those the readings saw, and of the turns no
\* more count than ended by themselves.
LEMMA FinishStep ==
    ASSUME ServeInv, FinishPhase
    PROVE  ServeInv'
<1> DEFINE c(K, r) == CountAt(transcript, K, r)
           killedTurns(r) == c(Guarded, r) + c(Finalized, r)
           d == c(RealOnes, m) - c(RealOnes, baseline)
           o == c(Burning, m) - c(Burning, baseline)
<1>0. /\ transcript \in Seq(Messages) /\ Len(transcript) \in Nat
      /\ Reading(transcript, baseline) /\ Reading(transcript, m)
      /\ turns \in Int /\ burned \in Int /\ inPhases \in Int /\ seen \in Int
      /\ forgone \in Int /\ faults \in Nat
      /\ ServeTypes
  BY DEF ServeInv, ServeTypes, Readings
<1>1. \A K : c(K, m) \in Nat /\ c(K, baseline) \in Nat
  BY <1>0, CountAtNat
<1>2. /\ turns' = turns + Floor(d - (killedTurns(m) - killedTurns(baseline)))
      /\ burned' = burned + o
      /\ inPhases' = inPhases + seen
  <2>1. ReadTo(m) \in 0 .. Len(transcript) /\ ReadTo(baseline) \in 0 .. Len(transcript)
    BY <1>0, ReadToType
  <2>2. QED
    BY <1>0, <2>1, DriveCounts DEF FinishPhase, CountAt
<1>3. /\ transcript' = transcript /\ degraded' = degraded /\ forgone' = forgone /\ faults' = faults
      /\ baseline' = {} /\ m' = {} /\ landed' = 0 /\ seen' = 0
      /\ pc = "finish" /\ pc' \in {"returned", "scan"}
  BY DEF FinishPhase, PhaseOver, serve
<1> HIDE DEF c
<1>4. d \in Int /\ o \in Int /\ killedTurns(m) \in Int /\ killedTurns(baseline) \in Int
  BY <1>1
<1>5. ServeTypes' /\ Readings'
  <2>1. Floor(d - (killedTurns(m) - killedTurns(baseline))) \in Int
    BY <1>4 DEF Floor
  <2>2. burned + o \in Int /\ inPhases + seen \in Int
    BY <1>0, <1>4
  <2> HIDE DEF d, o, killedTurns
  <2>3. turns' \in Int
    BY <1>0, <1>2, <2>1
  <2>4. QED
    BY <1>0, <1>2, <1>3, <2>2, <2>3 DEF ServeTypes, Readings, Reading
<1>6. Landed' /\ Measured'
  BY <1>3 DEF Landed, Measured, InPhase
<1>7. MeteredIsBurned'
  <2>1. ~degraded => seen = o
    BY <1>3 DEF ServeInv, Measured, c
  <2> HIDE DEF o
  <2>2. QED
    BY <1>0, <1>2, <1>3, <1>4, <2>1 DEF ServeInv, MeteredIsBurned
<1>8. Counted'
  <2> SUFFICES ASSUME ~degraded PROVE turns' <= CountUpto(transcript, Ended, Len(transcript))
    BY <1>3 DEF Counted
  <2>1. PICK b \in 0 .. Len(transcript), n \in 0 .. Len(transcript) :
            baseline = {b} /\ m = {n} /\ b <= n
    BY <1>0, <1>3 DEF ServeInv, Landed, Measured, Reading, InPhase
  <2>2. turns <= CountUpto(transcript, Ended, b)
    BY <2>1 DEF ServeInv, Counted
  <2>3. /\ c(Ended, m) = CountUpto(transcript, Ended, n)
        /\ c(Ended, baseline) = CountUpto(transcript, Ended, b)
    BY <2>1, <1>0, CountAtNat DEF c
  <2>4. /\ c(RealOnes, m) = c(Ended, m) + killedTurns(m)
        /\ c(RealOnes, baseline) = c(Ended, baseline) + killedTurns(baseline)
    <3>1. \A K : c(K, m) = CountUpto(transcript, K, n) /\ c(K, baseline) = CountUpto(transcript, K, b)
      BY <2>1, <1>0, CountAtNat DEF c
    <3>2. b \in Nat /\ n \in Nat
      BY <2>1
    <3>3. QED
      BY <3>1, <3>2, RealSplit
  <2>5. /\ CountUpto(transcript, Ended, b) <= CountUpto(transcript, Ended, n)
        /\ CountUpto(transcript, Ended, n) <= CountUpto(transcript, Ended, Len(transcript))
        /\ CountUpto(transcript, Ended, b) \in Nat /\ CountUpto(transcript, Ended, n) \in Nat
        /\ CountUpto(transcript, Ended, Len(transcript)) \in Nat
    BY <2>1, <1>0, CountMono
  <2>6. d - (killedTurns(m) - killedTurns(baseline))
          = CountUpto(transcript, Ended, n) - CountUpto(transcript, Ended, b)
    BY <2>3, <2>4, <2>5, <1>4
  <2>7. turns' = turns + (CountUpto(transcript, Ended, n) - CountUpto(transcript, Ended, b))
    BY <1>2, <2>5, <2>6 DEF Floor
  <2>8. QED
    BY <2>2, <2>5, <2>7, <1>0
<1>9. QED
  BY <1>5, <1>6, <1>7, <1>8 DEF ServeInv

\* Every step of the harness keeps the metering right.
LEMMA HarnessStep ==
    ASSUME ServeInv, Harness \/ StartFeedback
    PROVE  ServeInv'
<1> USE DEF serve, phase, sums, measures, metered, Goto, InPhase, Works
<1>1. CASE ReadBaseline
  BY <1>1, BaselineStep
<1>2. CASE ReadWindow \/ SeesBusy \/ SeesIdle \/ RunTimeout \/ AdvanceWindow
  BY <1>2, PassingStep DEF ReadWindow, SeesBusy, SeesIdle, RunTimeout, AdvanceWindow
<1>3. CASE SendPrompt
  BY <1>3, PassingStep, LeavingStep DEF SendPrompt
<1>4. CASE NeverBusy
  BY <1>4, PassingStep, LeavingStep, DeadIsSilent DEF NeverBusy
<1>5. CASE MeterRead
  BY <1>5, MeterWorks, LostStep DEF MeterRead
<1>6. CASE WindowRead
  BY <1>6, PassingStep, LostStep DEF WindowRead
<1>7. CASE FinishPhase
  BY <1>7, FinishStep
<1>8. CASE StartChunk \/ ScanMarker \/ Confirm \/ \E from \in Unguarded : Raises(from)
  BY <1>8, PassingStep DEF StartChunk, ScanMarker, Confirm, GoOn, Raises
<1>9. CASE WatchCompaction \/ Backstop
  BY <1>9, PassingStep DEF WatchCompaction, Backstop, GoOn
<1>10. CASE StartFeedback
  BY <1>10, PassingStep DEF StartFeedback
<1>11. QED
  BY <1>1, <1>2, <1>3, <1>4, <1>5, <1>6, <1>7, <1>8, <1>9, <1>10 DEF Harness

\* ServeInv is inductive.
LEMMA ServeInvStep == ServeInv /\ [Next]_vars => ServeInv'
<1> SUFFICES ASSUME ServeInv, [Next]_vars PROVE ServeInv'
  OBVIOUS
<1>1. CASE UNCHANGED vars
  BY <1>1, PassingStep DEF vars, serve, phase, sums, metered, Works
<1>2. QED
  BY <1>1, ServeStep, HarnessStep DEF Next

\* Every output token written in a phase, up to its last reading or to where it broke
\* off, is metered once or was given up, and none is given up unless a call failed;
\* where a baseline could be read, that is, and however often the phase was nudged.
THEOREM MeteringIsExact == Spec => []MeteredIsBurned
<1>1. ServeInv => MeteredIsBurned
  BY DEF ServeInv
<1>2. QED
  BY <1>1, ServeInvInit, ServeInvStep, PTL DEF Spec

\* No turn the relay killed counts for the score: the turns that count were ended by the
\* worker itself.
THEOREM RecoveryDoesNotInflate == Spec => []KilledTurnsDoNotCount
<1>1. ServeInv => KilledTurnsDoNotCount
  <2> SUFFICES ASSUME ServeInv, ~degraded
               PROVE  turns <= Cardinality({i \in DOMAIN transcript :
                                        transcript[i].kind \in {"done", "marked", "summary"}})
    BY DEF KilledTurnsDoNotCount
  <2>1. DOMAIN transcript = 1 .. Len(transcript) /\ \A i \in DOMAIN transcript : transcript[i] \in Messages
    BY DEF ServeInv, ServeTypes
  <2>2. {i \in DOMAIN transcript : transcript[i].kind \in {"done", "marked", "summary"}}
          = {i \in 1 .. Len(transcript) : transcript[i] \in Ended}
    BY <2>1 DEF Ended
  <2>3. QED
    BY <2>2 DEF ServeInv, Counted, CountUpto
<1>2. QED
  BY <1>1, ServeInvInit, ServeInvStep, PTL DEF Spec

(***************************************************************************)
(* Success is reported when the worker is done.                            *)
(***************************************************************************)
\* A session that was seen busy and turns idle has no prompt waiting; nothing is sent
\* from there to the end of a phase that goes well.
Quiet ==
    /\ pc = "idle" /\ busy = "idle" => queue = 0
    /\ pc \in {"meter", "window", "advance", "finish", "scan", "returned"} /\ exit = 0 /\ ~raced
         => queue = 0 /\ busy # "prompt"

\* The serve takes a session that is quiet out of its quiet with no step of its own.
LEMMA QuietServe ==
    ASSUME Quiet, Serve
    PROVE  Quiet'
<1>0. UNCHANGED <<pc, exit, raced>>
  BY DEF Serve, sums
<1>1. ASSUME Settle PROVE /\ busy' = "idle" => queue' = 0
                          /\ queue = 0 => queue' = 0 /\ busy' # "prompt"
  BY <1>1 DEF Settle
<1>2. CASE PickUp
  BY <1>0, <1>2 DEF PickUp, Quiet
<1>3. CASE Write
  BY <1>0, <1>1, <1>3 DEF Write, Quiet
<1>4. CASE EndTurn
  BY <1>0, <1>1, <1>4 DEF EndTurn, Quiet
<1>5. CASE SelfCompact
  BY <1>0, <1>5 DEF SelfCompact, Quiet
<1>6. CASE EndCompact
  BY <1>0, <1>1, <1>6 DEF EndCompact, Quiet
<1>7. QED
  BY <1>2, <1>3, <1>4, <1>5, <1>6 DEF Serve

\* The harness sends nothing into the quiet it is going to report.
LEMMA QuietHarness ==
    ASSUME Quiet, Harness \/ StartFeedback
    PROVE  Quiet'
<1> USE DEF serve, phase, sums, measures, Goto, Quiet
<1>1. CASE ReadBaseline \/ ReadWindow \/ SeesBusy \/ SeesIdle \/ RunTimeout \/ AdvanceWindow
  BY <1>1 DEF ReadBaseline, ReadWindow, SeesBusy, SeesIdle, RunTimeout, AdvanceWindow
<1>2. CASE SendPrompt
  BY <1>2 DEF SendPrompt, Unmetered
<1>3. CASE NeverBusy
  BY <1>3 DEF NeverBusy, Unmetered
<1>4. CASE MeterRead \/ WindowRead
  BY <1>4 DEF MeterRead, WindowRead, Lost
<1>5. CASE FinishPhase
  BY <1>5 DEF FinishPhase
<1>6. CASE StartChunk \/ ScanMarker \/ Confirm \/ \E from \in Unguarded : Raises(from)
  BY <1>6 DEF StartChunk, ScanMarker, Confirm, GoOn, Raises
<1>7. CASE WatchCompaction \/ Backstop
  BY <1>7 DEF WatchCompaction, Backstop, GoOn
<1>8. CASE StartFeedback
  BY <1>8 DEF StartFeedback
<1>9. QED
  BY <1>1, <1>2, <1>3, <1>4, <1>5, <1>6, <1>7, <1>8 DEF Harness

\* A drive that reports success leaves no prompt waiting and none being worked on, unless
\* one that was never seen busy was taken for answered.
THEOREM SuccessIsQuiet == Spec => []GatedWhenQuiet
<1>1. Init => Quiet
  BY DEF Init, Quiet
<1>2. Quiet /\ [Next]_vars => Quiet'
  <2>1. ASSUME Quiet, UNCHANGED vars PROVE Quiet'
    BY <2>1 DEF vars, serve, phase, sums, Quiet
  <2>2. QED
    BY <2>1, QuietServe, QuietHarness DEF Next
<1>3. Quiet => GatedWhenQuiet
  BY DEF Quiet, GatedWhenQuiet
<1>4. QED
  BY <1>1, <1>2, <1>3, PTL DEF Spec

(***************************************************************************)
(* Every retry is paid for.                                                *)
(***************************************************************************)
\* What the relay leaves of a turn it killed.
RelayKills == {"guard", "void", "finalize"}

KilledBetween(from, to) == \E i \in from + 1 .. to : transcript[i].kind \in RelayKills

\* Nudges are not counted, but each has a cause of its own.  A killed turn is driven again
\* on a kill that no nudge before it answered to, unless the window could not be moved past
\* it; and a chunk gets to the scan, which may drive it again, only when the worker wrote
\* something in the phase, unless the phase had no baseline.
RetriesArePaid ==
    /\ AdvanceWindow => faults' > faults \/ KilledBetween(window, window')
    /\ FinishPhase /\ pc' = "scan" => baseline = {} \/ \E b \in baseline : b < Len(transcript)

\* The classification looks at a part of the transcript, where the kill is that is going
\* to be answered.
Windowed ==
    /\ faults \in Nat /\ window \in 0 .. Len(transcript)
    /\ pc = "advance" => KilledBetween(window, Len(transcript))

\* A classification that calls for a nudge has seen a kill.
LEMMA NudgedOnKill ==
    ASSUME NEW n, Classified(n) \in Recoverable
    PROVE  KilledBetween(n, Len(transcript))
<1> DEFINE named == {i \in n + 1 .. Len(transcript) : transcript[i].kind \in RelayKills}
<1>1. ASSUME named = {} PROVE Classified(n) \in {"error", "none"}
  BY <1>1 DEF Classified, RelayKills
<1>2. named # {}
  BY <1>1 DEF Recoverable
<1>3. QED
  BY <1>2 DEF KilledBetween

\* A transcript that grows keeps the kills in it.
LEMMA KillsStay ==
    ASSUME ServeTypes, Serve, Windowed
    PROVE  /\ window' = window /\ window \in 0 .. Len(transcript')
           /\ KilledBetween(window, Len(transcript)) => KilledBetween(window, Len(transcript))'
<1>1. /\ transcript \in Seq(Messages) /\ Len(transcript) \in Nat /\ window' = window
      /\ window \in 0 .. Len(transcript)
  BY DEF ServeTypes, Serve, Windowed
<1>2. transcript' = transcript \/ \E k \in Messages : transcript' = Append(transcript, k)
  BY ServeAssumption DEF Serve, PickUp, Write, EndTurn, SelfCompact, EndCompact, ServeAssumption
<1>3. /\ Len(transcript') \in Nat /\ Len(transcript') >= Len(transcript)
      /\ \A i \in 1 .. Len(transcript) : transcript'[i] = transcript[i]
  BY <1>1, <1>2
<1>4. QED
  BY <1>1, <1>3 DEF KilledBetween

\* The steps of the harness keep the window within the transcript.
LEMMA WindowedHarness ==
    ASSUME ServeTypes, Windowed, Harness \/ StartFeedback
    PROVE  Windowed'
<1>0. transcript' = transcript /\ Len(transcript) \in Nat
  BY DEF ServeTypes, Harness, serve, ReadBaseline, ReadWindow, SendPrompt, SeesBusy, NeverBusy,
     SeesIdle, RunTimeout, MeterRead, WindowRead, AdvanceWindow, FinishPhase, StartChunk,
     ScanMarker, WatchCompaction, Backstop, Confirm, Raises, StartFeedback
<1>1. faults' \in Nat
  BY DEF Windowed, Harness, ReadBaseline, ReadWindow, SendPrompt, Posted, SeesBusy, NeverBusy,
     SeesIdle, RunTimeout, MeterRead, WindowRead, Lost, AdvanceWindow, FinishPhase, StartChunk,
     ScanMarker, WatchCompaction, Backstop, Confirm, Raises, StartFeedback, Works, Fails
<1> USE DEF Goto, phase, measures, PhaseOver, Unmetered
<1>2. window' \in {window, 0, Len(transcript)}
  <2>1. CASE ReadBaseline \/ ReadWindow \/ SendPrompt \/ SeesBusy \/ NeverBusy \/ SeesIdle
    BY <2>1 DEF ReadBaseline, ReadWindow, SendPrompt, SeesBusy, NeverBusy, SeesIdle
  <2>2. CASE RunTimeout \/ MeterRead \/ WindowRead \/ AdvanceWindow \/ FinishPhase
    BY <2>2 DEF RunTimeout, MeterRead, WindowRead, AdvanceWindow, FinishPhase
  <2>3. CASE StartChunk \/ ScanMarker \/ WatchCompaction \/ Backstop \/ Confirm
    BY <2>3 DEF StartChunk, ScanMarker, WatchCompaction, Backstop, Confirm
  <2>4. CASE StartFeedback \/ \E from \in Unguarded : Raises(from)
    BY <2>4 DEF StartFeedback, Raises
  <2>5. QED
    BY <2>1, <2>2, <2>3, <2>4 DEF Harness
<1>3. pc' = "advance" => WindowRead
  <2>1. CASE ReadBaseline \/ ReadWindow \/ SendPrompt \/ SeesBusy \/ NeverBusy \/ SeesIdle
    BY <2>1 DEF ReadBaseline, ReadWindow, SendPrompt, SeesBusy, NeverBusy, SeesIdle
  <2>2. CASE RunTimeout \/ MeterRead \/ AdvanceWindow \/ FinishPhase
    BY <2>2 DEF RunTimeout, MeterRead, Lost, AdvanceWindow, FinishPhase
  <2>3. CASE StartChunk \/ ScanMarker \/ WatchCompaction \/ Backstop \/ Confirm
    BY <2>3 DEF StartChunk, ScanMarker, WatchCompaction, GoOn, Backstop, Confirm
  <2>4. CASE StartFeedback \/ \E from \in Unguarded : Raises(from)
    BY <2>4 DEF StartFeedback, Raises
  <2>5. QED
    BY <2>1, <2>2, <2>3, <2>4 DEF Harness
<1>4. ASSUME WindowRead, pc' = "advance" PROVE KilledBetween(window, Len(transcript)) /\ window' = window
  <2>1. Classified(window) \in Recoverable /\ window' = window
    BY <1>4 DEF WindowRead, Lost
  <2>2. QED
    BY <2>1, NudgedOnKill
<1>5. window' \in 0 .. Len(transcript')
  BY <1>0, <1>2 DEF Windowed
<1>6. ASSUME pc' = "advance" PROVE KilledBetween(window, Len(transcript))'
  BY <1>0, <1>3, <1>4, <1>6 DEF KilledBetween
<1>7. QED
  BY <1>1, <1>5, <1>6 DEF Windowed

\* Every step keeps it there.
LEMMA WindowedStep == ServeInv /\ Windowed /\ [Next]_vars => Windowed'
<1> SUFFICES ASSUME ServeInv, Windowed, [Next]_vars PROVE Windowed'
  OBVIOUS
<1>1. CASE UNCHANGED vars
  BY <1>1 DEF vars, serve, phase, Windowed, KilledBetween
<1>2. CASE Serve
  <2>1. pc' = pc /\ faults' = faults
    BY <1>2 DEF Serve
  <2>2. QED
    BY <2>1, <1>2, KillsStay DEF ServeInv, Windowed, KilledBetween
<1>3. CASE Harness \/ StartFeedback
  BY <1>3, WindowedHarness DEF ServeInv
<1>4. QED
  BY <1>1, <1>2, <1>3 DEF Next

\* A phase that turns out to have produced something was written in.
LEMMA ProducedIsWritten ==
    ASSUME ServeInv, FinishPhase, pc' = "scan", baseline # {}
    PROVE  \E b \in baseline : b < Len(transcript)
<1> DEFINE b == ReadTo(baseline)
           n == ReadTo(m)
<1>1. /\ transcript \in Seq(Messages) /\ Len(transcript) \in Nat /\ ServeTypes
      /\ Reading(transcript, m) /\ Reading(transcript, baseline)
  BY DEF ServeInv, ServeTypes, Readings
<1>2. b \in 0 .. Len(transcript) /\ n \in 0 .. Len(transcript) /\ baseline = {b}
  BY <1>1, ReadToType DEF Reading
<1>3. ~(/\ RealTurns(n) - RealTurns(b) <= 0
        /\ OutputTokens(n) - OutputTokens(b) <= 0
        /\ ~InputGrew(b, n))
  BY DEF FinishPhase
<1> HIDE DEF b, n
<1>4. CASE b = Len(transcript)
  <2>1. n <= b
    BY <1>2, <1>4
  <2>2. RealTurns(n) - RealTurns(b) <= 0 /\ OutputTokens(n) - OutputTokens(b) <= 0
    <3>1. \A K : /\ CountUpto(transcript, K, n) \in Nat /\ CountUpto(transcript, K, b) \in Nat
                /\ CountUpto(transcript, K, n) <= CountUpto(transcript, K, b)
      BY <1>1, <1>2, <2>1, CountMono
    <3>2. /\ RealTurns(n) = CountUpto(transcript, RealOnes, n)
          /\ RealTurns(b) = CountUpto(transcript, RealOnes, b)
          /\ OutputTokens(n) = CountUpto(transcript, Burning, n)
          /\ OutputTokens(b) = CountUpto(transcript, Burning, b)
      BY <1>1, <1>2, DriveCounts
    <3>3. QED
      BY <3>1, <3>2
  <2>3. ~InputGrew(b, n)
    <3>1. \A i \in 1 .. n : i \in 1 .. b /\ transcript[i].input \in Nat
      BY <1>1, <1>2, <2>1 DEF Messages
    <3>2. QED
      BY <3>1 DEF InputGrew
  <2>4. QED
    BY <1>3, <2>2, <2>3
<1>5. QED
  BY <1>2, <1>4

\* The drive does not go in circles: every nudge answers to a kill of its own, and every
\* phase after which a chunk may be driven again has something written in it, but for those
\* a failed read has cost.  So a worker that is no longer killed and writes nothing is left
\* alone (DriveReturns short of its fairness).
THEOREM NoNudgeForNothing == Spec => [][RetriesArePaid]_vars
<1>1. Init => Windowed
  BY DEF Init, Windowed
<1>2. ServeInv /\ Windowed /\ [Next]_vars => [RetriesArePaid]_vars
  <2> SUFFICES ASSUME ServeInv, Windowed
               PROVE  RetriesArePaid
    OBVIOUS
  <2>1. ASSUME AdvanceWindow PROVE faults' > faults \/ KilledBetween(window, window')
    <3>1. pc = "advance" /\ (window' = Len(transcript) \/ faults' = faults + 1)
      BY <2>1 DEF AdvanceWindow, Goto, Fails
    <3>2. faults \in Nat /\ KilledBetween(window, Len(transcript))
      BY <3>1 DEF Windowed
    <3>3. QED
      BY <3>1, <3>2
  <2>2. QED
    BY <2>1, ProducedIsWritten DEF RetriesArePaid
<1>3. QED
  BY <1>1, <1>2, ServeInvInit, ServeInvStep, WindowedStep, PTL DEF Spec

=============================================================================
