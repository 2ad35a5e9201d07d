----------------------------- MODULE OtpProofs -----------------------------
(***************************************************************************)
(* Proofs about Otp and OtpStorage for any counters, session counters,     *)
(* seeds, access codes and backlog of releases.  The invariant has two     *)
(* parts.  One is about each slot on its own: its counter is not behind    *)
(* the last code made from it, and once the slots were scanned the next    *)
(* code of a steady slot, the pair of its counter and its session counter, *)
(* comes after the last.  The other is about what the flash may hold after *)
(* a cut (see below).                                                      *)
(***************************************************************************)
EXTENDS OtpStorage, TLAPS

\* What a slot may hold.
Contents == Configs \cup {Empty}

\* The counter covers the last code, and only a slot that keeps one has codes.
Covered(r) ==
    r # Empty =>
        /\ r.count = Lost \/ r.mode = "other" => r.last = None
        /\ r.mode = "otp" /\ r.count # Lost => r.count <= CtrMax
        /\ r.last # None /\ r.count # Lost =>
              IF r.mode = "otp" THEN r.last[1] <= r.count ELSE r.last[1] < r.count

\* A code made now from r and the session counter n comes after the last one.
Ahead(r, n) ==
    r # Empty /\ r.mode = "otp" /\ r.last # None /\ r.steady /\ r.last[1] < CtrMax =>
        r.last[1] < r.count \/ (r.last[1] = r.count /\ r.last[2] < n)

\* Every slot is covered, and ahead once they were scanned.
SlotsOK(slots, sessions, ready) ==
    \A s \in Slots : Covered(slots[s]) /\ (ready => Ahead(slots[s], sessions[s]))

\* The code just typed is a later one.
CodeGrew ==
    out # None /\ out.prev # None /\ out.steady /\ ~Saturated(out.mode, out.prev)
        => Before(out.prev, out.code)

\* The invariant of Otp.
OtpInv == TypeOK /\ SlotsOK(slot, session, scanned) /\ CodeGrew

\* The same configuration, or none.
SameId(r, x) == (r = Empty <=> x = Empty) /\ (r # Empty => x.id = r.id)

(***************************************************************************)
(* What the scan, a swap and a report do to one slot                       *)
(***************************************************************************)

\* An unsteady slot promises nothing of its next code.
LEMMA UnsteadySlot ==
    ASSUME NEW r \in Contents, Covered(r)
    PROVE  /\ Unsteady(r) \in Contents /\ Covered(Unsteady(r)) /\ SameId(r, Unsteady(r))
           /\ \A n : Ahead(Unsteady(r), n)
<1>1. CASE r = Empty \/ r.mode # "otp"
  BY <1>1 DEF Unsteady, SameId, Ahead
<1>2. CASE r # Empty /\ r.mode = "otp"
  <2> DEFINE x == [r EXCEPT !.steady = r.steady /\ r.last = None]
  <2>1. Unsteady(r) = x
    BY <1>2 DEF Unsteady
  <2>2. r \in Configs
    BY <1>2 DEF Contents
  <2>3. x \in Configs
    BY <2>2 DEF Configs
  <2>4. /\ x.id = r.id /\ x.mode = r.mode /\ x.count = r.count /\ x.last = r.last
        /\ x.steady = (r.steady /\ r.last = None)
    BY <2>2 DEF Configs
  <2>5. x # Empty
    BY <2>3, EmptyAssumption
  <2> HIDE DEF x
  <2>6. Covered(x) /\ \A n : Ahead(x, n)
    BY <1>2, <2>4 DEF Covered, Ahead
  <2> QED
    BY <1>2, <2>1, <2>3, <2>4, <2>5, <2>6 DEF Contents, SameId
<1> QED
  BY <1>1, <1>2

\* A usage counter raised at power-up passes every code made before.
LEMMA RaisedSlot ==
    ASSUME NEW r \in Contents, Covered(r), NEW x \in Raised(r)
    PROVE  x \in Contents /\ Covered(x) /\ SameId(r, x) /\ \A n : Ahead(x, n)
<1>1. CASE r = Empty \/ r.mode # "otp"
  BY <1>1 DEF Raised, SameId, Ahead
<1>2. CASE r # Empty /\ r.mode = "otp"
  <2>0. r \in Configs /\ r.count \in Counters \cup {Lost} /\ r.last \in Codes \cup {None}
    BY <1>2 DEF Contents, Configs
  <2>1. PICK v \in Reads(r.count) :
            x = IF (v + 1) % CtrMod <= CtrMax
                THEN [r EXCEPT !.count = (v + 1) % CtrMod, !.steady = TRUE] ELSE r
    BY <1>2 DEF Raised
  <2>2. v \in Counters /\ (r.count # Lost => v = r.count)
    BY <2>0 DEF Reads
  <2> DEFINE n == (v + 1) % CtrMod
  <2>3. n \in Counters /\ (v < CtrMod - 1 => n = v + 1)
    BY <2>2, CounterAssumption DEF Counters
  <2>4. r.count # Lost => r.count <= CtrMax /\ n = r.count + 1
    BY <1>2, <2>2, <2>3, CounterAssumption DEF Covered, Counters
  <2>5. r.last # None => r.count # Lost /\ r.last[1] <= r.count /\ r.last[1] \in Nat /\ r.count \in Nat
    BY <1>2, <2>0 DEF Covered, Codes, Counters
  <2>6. CASE n <= CtrMax
    <3> DEFINE y == [r EXCEPT !.count = n, !.steady = TRUE]
    <3>1. x = y
      BY <2>1, <2>6
    <3>2. y \in Configs
      BY <2>0, <2>3 DEF Configs
    <3>3. y.id = r.id /\ y.mode = r.mode /\ y.count = n /\ y.last = r.last /\ y.steady = TRUE
      BY <2>0 DEF Configs
    <3>4. y # Empty
      BY <3>2, EmptyAssumption
    <3>5. n # Lost /\ n \in Nat
      BY <2>3, MarkAssumption, CounterAssumption DEF Counters
    <3> HIDE DEF y, n
    <3>6. y.last # None => y.last[1] < y.count
      BY <2>4, <2>5, <3>3
    <3>7. Covered(y) /\ \A m : Ahead(y, m)
      BY <1>2, <2>5, <2>6, <3>3, <3>5, <3>6 DEF Covered, Ahead
    <3> QED
      BY <1>2, <3>1, <3>2, <3>3, <3>4, <3>7 DEF Contents, SameId
  <2>7. CASE ~(n <= CtrMax)
    <3>1. x = r
      BY <2>1, <2>7
    <3>2. r.last # None => r.count = CtrMax
      BY <2>3, <2>4, <2>5, <2>7, CounterAssumption DEF Counters
    <3>3. \A m : Ahead(r, m)
      BY <3>2 DEF Ahead
    <3> QED
      BY <3>1, <3>3 DEF SameId
  <2> QED
    BY <2>6, <2>7
<1> QED
  BY <1>1, <1>2

\* The slots as a button press finds them.
LEMMA ScannedSlots ==
    ASSUME OtpInv, NEW slots \in AfterInit
    PROVE  /\ slots \in [Slots -> Contents] /\ SlotsOK(slots, session, TRUE)
           /\ \A s \in Slots : SameId(slot[s], slots[s])
<1>0. /\ slot \in [Slots -> Contents] /\ slot[1] \in Contents /\ slot[2] \in Contents
      /\ Covered(slot[1]) /\ Covered(slot[2])
  BY DEF OtpInv, TypeOK, SlotsOK, Slots, Contents
<1>1. CASE scanned
  BY <1>0, <1>1 DEF AfterInit, OtpInv, SlotsOK, SameId
<1>2. CASE ~scanned
  <2>1. PICK one \in Raised(slot[1]), two \in Raised(slot[2]) :
            slots = [s \in Slots |-> IF s = 1 THEN one ELSE two]
    BY <1>2 DEF AfterInit
  <2>2. /\ one \in Contents /\ Covered(one) /\ SameId(slot[1], one) /\ \A n : Ahead(one, n)
        /\ two \in Contents /\ Covered(two) /\ SameId(slot[2], two) /\ \A n : Ahead(two, n)
    BY <1>0, RaisedSlot
  <2>3. \A s \in Slots : (s = 1 /\ slots[s] = one) \/ (s = 2 /\ slots[s] = two)
    BY <2>1 DEF Slots
  <2>4. slots \in [Slots -> Contents]
    BY <2>1, <2>2
  <2> QED
    BY <2>2, <2>3, <2>4 DEF SlotsOK
<1> QED
  BY <1>1, <1>2

\* otp_status() leaves slots that are covered, and ahead.
LEMMA ReportedSlots ==
    ASSUME NEW slots \in [Slots -> Contents], \A s \in Slots : Covered(slots[s]),
           scanned => SlotsOK(slots, session, TRUE), Reported(slots), UNCHANGED session
    PROVE  /\ slot' \in [Slots -> Contents] /\ SlotsOK(slot', session', scanned')
           /\ \A s \in Slots : SameId(slots[s], slot'[s])
<1>1. CASE scanned
  BY <1>1 DEF Reported, SlotsOK, SameId
<1>2. CASE ~scanned
  <2>1. scanned' = TRUE /\ slot' = [s \in Slots |-> Unsteady(slots[s])]
    BY <1>2 DEF Reported
  <2>2. ASSUME NEW s \in Slots
        PROVE  /\ slot'[s] \in Contents /\ Covered(slot'[s]) /\ SameId(slots[s], slot'[s])
               /\ \A n : Ahead(slot'[s], n)
    BY <2>1, UnsteadySlot
  <2> QED
    BY <2>1, <2>2 DEF SlotsOK
<1> QED
  BY <1>1, <1>2

(***************************************************************************)
(* The button                                                              *)
(***************************************************************************)

\* A press that types code from slot s and leaves count there keeps the slots
\* covered and ahead, if count covers the code and what comes next is after it.
LEMMA TypedSlot ==
    ASSUME NEW slots \in [Slots -> Contents], SlotsOK(slots, session, TRUE),
           NEW s \in Slots, slots[s] # Empty, slots[s].mode \in {"otp", "hotp"},
           NEW count \in Counters \cup {Lost}, NEW code \in Codes,
           Typed(slots, s, count, code),
           \A t \in Slots \ {s} : session'[t] = session[t],
           slots[s].mode = "otp" /\ count # Lost => count <= CtrMax,
           slots[s].count # Lost =>
               /\ count # Lost
               /\ slots[s].mode = "otp" =>
                     /\ code[1] <= count
                     /\ code[1] < CtrMax => code[1] < count \/ (code[1] = count /\ code[2] < session'[s])
               /\ slots[s].mode = "hotp" => code[1] < count,
           slots[s].last # None /\ slots[s].steady /\ ~Saturated(slots[s].mode, slots[s].last)
               => Before(slots[s].last, code)
    PROVE  /\ slot' \in [Slots -> Contents] /\ SlotsOK(slot', session', TRUE) /\ CodeGrew'
           /\ \A t \in Slots : SameId(slots[t], slot'[t])
           /\ out' \in [mode : {"otp", "hotp"}, prev : Codes \cup {None}, code : Codes, steady : BOOLEAN]
<1> DEFINE r == slots[s]
           last == IF r.count = Lost THEN None ELSE code
           x == [r EXCEPT !.count = count, !.last = last]
<1>1. r \in Configs /\ r # Empty
  BY DEF Contents
<1>2. x \in Configs /\ x # Empty
  <2>1. x \in Configs
    BY <1>1 DEF Configs
  <2> QED
    BY <2>1, EmptyAssumption
<1>3. /\ x.id = r.id /\ x.mode = r.mode /\ x.count = count /\ x.last = last /\ x.steady = r.steady
      /\ r.steady \in BOOLEAN /\ r.last \in Codes \cup {None}
  BY <1>1 DEF Configs
<1>4. /\ slot' = [slots EXCEPT ![s] = x]
      /\ out' = [mode |-> r.mode, prev |-> r.last, code |-> code, steady |-> r.steady]
  <2>1. slot' = [slots EXCEPT ![s].count = count, ![s].last = last]
    BY DEF Typed
  <2> QED
    BY <2>1 DEF Typed
<1>5. Covered(x) /\ Ahead(x, session'[s])
  <2>1. CASE r.count = Lost
    BY <1>3, <2>1 DEF Covered, Ahead
  <2>2. CASE r.count # Lost
    <3>1. x.last = code
      BY <1>3, <2>2
    <3> HIDE DEF x, last, r
    <3> QED
      BY <1>3, <2>2, <3>1 DEF Covered, Ahead, r
  <2> QED
    BY <2>1, <2>2
<1>6. SameId(r, x)
  BY <1>1, <1>2, <1>3 DEF SameId
<1>7. CodeGrew'
  <2>1. out'.mode = r.mode /\ out'.prev = r.last /\ out'.code = code /\ out'.steady = r.steady
    BY <1>4
  <2> QED
    BY <2>1 DEF CodeGrew, Saturated, Before
<1>8. out' \in [mode : {"otp", "hotp"}, prev : Codes \cup {None}, code : Codes, steady : BOOLEAN]
  BY <1>3, <1>4
<1> HIDE DEF x, last
<1>9. slot' \in [Slots -> Contents] /\ slot'[s] = x /\ \A t \in Slots \ {s} : slot'[t] = slots[t]
  BY <1>2, <1>4 DEF Contents
<1>10. SlotsOK(slot', session', TRUE)
  BY <1>5, <1>9 DEF SlotsOK
<1>11. \A t \in Slots : SameId(slots[t], slot'[t])
  BY <1>6, <1>9 DEF SameId
<1> QED
  BY <1>7, <1>8, <1>9, <1>10, <1>11

\* A moving factor is used once.
LEMMA HotpSlot ==
    ASSUME NEW slots \in [Slots -> Contents], SlotsOK(slots, session, TRUE),
           NEW s \in Slots, slots[s] # Empty, slots[s].mode = "hotp",
           slots[s].count # Lost => slots[s].count < CtrMod - 1,
           NEW imf \in Reads(slots[s].count), UNCHANGED session,
           Typed(slots, s, ((IF imf = 0 THEN slots[s].seed ELSE imf) + 1) % CtrMod,
                 <<IF imf = 0 THEN slots[s].seed ELSE imf, 0>>)
    PROVE  /\ slot' \in [Slots -> Contents] /\ SlotsOK(slot', session', TRUE) /\ CodeGrew'
           /\ \A t \in Slots : SameId(slots[t], slot'[t])
           /\ out' \in [mode : {"otp", "hotp"}, prev : Codes \cup {None}, code : Codes, steady : BOOLEAN]
<1> DEFINE r == slots[s]
           first == IF imf = 0 THEN r.seed ELSE imf
           code == <<first, 0>>
           count == (first + 1) % CtrMod
<1>1. r \in Configs /\ r.seed \in Seeds /\ r.count \in Counters \cup {Lost} /\ r.last \in Codes \cup {None}
  BY DEF Contents, Configs
<1>2. imf \in Counters /\ (r.count # Lost => imf = r.count)
  BY <1>1 DEF Reads
<1>3. r.seed \in Counters /\ r.seed < CtrMod - 1 /\ CtrMod \in Nat /\ 0 \in Counters
  <2>1. r.seed \in 0 .. CtrMod - 2 /\ CtrMod \in Nat
    BY <1>1, CounterAssumption
  <2> QED
    BY <2>1 DEF Counters
<1>4. first \in Counters /\ first \in Nat
  BY <1>2, <1>3 DEF Counters
<1>5. code \in Codes /\ code[1] = first /\ code[2] = 0
  BY <1>3, <1>4 DEF Codes
<1>6. count \in Counters
  BY <1>3, <1>4, CounterAssumption DEF Counters
<1>7. r.count # Lost => count = first + 1
  <2> SUFFICES ASSUME r.count # Lost PROVE count = first + 1
    OBVIOUS
  <2>1. first < CtrMod - 1
    BY <1>2, <1>3
  <2> HIDE DEF first
  <2> QED
    BY <1>3, <1>4, <2>1 DEF Counters
<1>8. r.last # None => r.last[1] < first /\ r.last[1] \in Nat
  <2> SUFFICES ASSUME r.last # None PROVE r.last[1] < first /\ r.last[1] \in Nat
    OBVIOUS
  <2>1. r.last[1] \in Nat
    BY <1>1 DEF Codes, Counters
  <2>2. r.count # Lost /\ r.last[1] < r.count
    BY DEF SlotsOK, Covered
  <2>3. imf # 0 /\ first = r.count
    BY <1>2, <2>1, <2>2 DEF Counters
  <2> QED
    BY <2>1, <2>2, <2>3
<1>9. r.last # None => Before(r.last, code)
  BY <1>5, <1>8 DEF Before
<1>10. count # Lost /\ (r.count # Lost => code[1] < count)
  BY <1>4, <1>5, <1>6, <1>7, MarkAssumption DEF Counters
<1>11. Typed(slots, s, count, code)
  OBVIOUS
<1> HIDE DEF count, code, first
<1> QED
  BY <1>5, <1>6, <1>9, <1>10, <1>11, TypedSlot

\* A pair of counters is used once while the usage counter can still rise.
LEMMA OtpSlot ==
    ASSUME NEW slots \in [Slots -> Contents], SlotsOK(slots, session, TRUE),
           session \in [Slots -> 0 .. SessMod - 1],
           NEW s \in Slots, slots[s] # Empty, slots[s].mode = "otp",
           NEW v \in Reads(slots[s].count), NEW counter, NEW wraps \in BOOLEAN, NEW next, NEW count,
           counter = IF v = 0 THEN 1 ELSE v,
           wraps = (session[s] + 1 = SessMod),
           next = IF wraps THEN (counter + 1) % CtrMod ELSE counter,
           count = IF v = 0 \/ (wraps /\ next <= CtrMax) THEN next ELSE slots[s].count,
           session' = [session EXCEPT ![s] = (session[s] + 1) % SessMod],
           Typed(slots, s, count, <<counter, session[s]>>)
    PROVE  /\ slot' \in [Slots -> Contents] /\ SlotsOK(slot', session', TRUE) /\ CodeGrew'
           /\ \A t \in Slots : SameId(slots[t], slot'[t])
           /\ out' \in [mode : {"otp", "hotp"}, prev : Codes \cup {None}, code : Codes, steady : BOOLEAN]
           /\ session' \in [Slots -> 0 .. SessMod - 1]
<1> DEFINE r == slots[s]
           n == session[s]
           code == <<counter, n>>
<1>1. r \in Configs /\ r.count \in Counters \cup {Lost} /\ r.last \in Codes \cup {None}
  BY DEF Contents, Configs
<1>2. v \in Counters /\ (r.count # Lost => v = r.count /\ v <= CtrMax)
  BY <1>1 DEF Reads, SlotsOK, Covered
<1>3. n \in 0 .. SessMod - 1 /\ n \in Counters
  BY CounterAssumption DEF Counters
<1>4. counter \in Counters /\ counter > 0 /\ counter >= v
  BY <1>2, CounterAssumption DEF Counters
<1>5. next \in Counters /\ (~wraps => next = counter)
  <2>1. (counter + 1) % CtrMod \in 0 .. CtrMod - 1
    BY <1>4, CounterAssumption DEF Counters
  <2>2. next = (counter + 1) % CtrMod \/ next = counter
    OBVIOUS
  <2>3. next \in Counters
    BY <1>4, <2>1, <2>2 DEF Counters
  <2> QED
    BY <2>3
<1>6. r.count # Lost => counter <= CtrMax /\ (wraps => next = counter + 1)
  BY <1>2, <1>4, CounterAssumption DEF Counters
<1>7. v = 0 => next <= CtrMax
  BY <1>4, CounterAssumption DEF Counters
<1>8. code \in Codes /\ code[1] = counter /\ code[2] = n
  BY <1>3, <1>4 DEF Codes
<1>9. count \in Counters \cup {Lost} /\ (count # Lost => count <= CtrMax)
  BY <1>1, <1>2, <1>4, <1>5, <1>7, CounterAssumption DEF Counters
<1>10. session'[s] = (n + 1) % SessMod /\ \A t \in Slots \ {s} : session'[t] = session[t]
  OBVIOUS
<1>11. session' \in [Slots -> 0 .. SessMod - 1]
  <2>1. (n + 1) % SessMod \in 0 .. SessMod - 1
    BY <1>3, CounterAssumption
  <2> QED
    BY <2>1
<1>12. ~wraps => session'[s] = n + 1
  <2> SUFFICES ASSUME ~wraps PROVE session'[s] = n + 1
    OBVIOUS
  <2>1. n + 1 # SessMod
    BY Zenon
  <2>2. (n + 1) % SessMod = n + 1
    BY <1>3, <2>1, CounterAssumption
  <2> QED
    BY <1>10, <2>2
<1>13. r.count # Lost =>
          /\ count # Lost /\ counter <= count
          /\ counter < CtrMax => counter < count \/ (counter = count /\ n < session'[s])
  <2> SUFFICES ASSUME r.count # Lost
               PROVE  /\ count # Lost /\ counter <= count
                      /\ counter < CtrMax => counter < count \/ (counter = count /\ n < session'[s])
    OBVIOUS
  <2>1. next # Lost /\ next \in Nat /\ counter \in Nat /\ n \in Nat /\ CtrMax \in Nat
    BY <1>3, <1>4, <1>5, MarkAssumption, CounterAssumption DEF Counters
  <2>2. CASE wraps
    <3>1. next = counter + 1
      BY <1>6, <2>2
    <3>2. CASE v = 0
      BY <2>1, <3>1, <3>2
    <3>3. CASE v # 0
      BY <1>2, <2>1, <2>2, <3>1, <3>3
    <3> QED
      BY <3>2, <3>3
  <2>3. CASE ~wraps
    <3>1. count = counter
      BY <1>2, <1>5, <2>3
    <3> QED
      BY <1>5, <1>12, <2>1, <2>3, <3>1
  <2> QED
    BY <2>2, <2>3
<1>14. r.last # None /\ r.steady /\ ~Saturated(r.mode, r.last) => Before(r.last, code)
  <2> SUFFICES ASSUME r.last # None, r.steady, ~Saturated(r.mode, r.last) PROVE Before(r.last, code)
    OBVIOUS
  <2>1. r.last[1] \in Nat /\ r.last[2] \in Nat
    BY <1>1 DEF Codes, Counters
  <2>2. r.count # Lost
    BY DEF SlotsOK, Covered
  <2>3. r.last[1] < CtrMax
    BY <2>1, CounterAssumption DEF Saturated
  <2>4. r.last[1] < r.count \/ (r.last[1] = r.count /\ r.last[2] < n)
    BY <2>3 DEF SlotsOK, Ahead
  <2>5. r.last[1] < counter \/ (r.last[1] = counter /\ r.last[2] < n)
    BY <1>2, <1>4, <2>1, <2>2, <2>4 DEF Counters
  <2> QED
    BY <1>8, <2>5 DEF Before
<1>15. Typed(slots, s, count, code)
  OBVIOUS
<1> HIDE DEF code, n
<1>16. r.count # Lost =>
         /\ count # Lost
         /\ code[1] <= count
         /\ code[1] < CtrMax => code[1] < count \/ (code[1] = count /\ code[2] < session'[s])
  BY <1>8, <1>13
<1> QED
  BY <1>8, <1>9, <1>10, <1>11, <1>14, <1>15, <1>16, TypedSlot

\* A press, whatever its slot holds.
LEMMA PressStep ==
    ASSUME OtpInv, NEW s \in Slots, Press(s)
    PROVE  OtpInv' /\ \A t \in Slots : SameId(slot[t], slot'[t])
<1>0. /\ session \in [Slots -> 0 .. SessMod - 1] /\ made' \in 0 .. MaxConfigs /\ scanned' = TRUE
      /\ cmd' \in [name : Commands, acc : AccCodes \cup {None}]
  BY DEF OtpInv, TypeOK, Press, Did, Commands
<1>1. /\ slot' \in [Slots -> Contents] /\ SlotsOK(slot', session', TRUE) /\ CodeGrew'
      /\ \A t \in Slots : SameId(slot[t], slot'[t])
      /\ out' \in [mode : {"otp", "hotp"}, prev : Codes \cup {None}, code : Codes, steady : BOOLEAN]
                 \cup {None}
      /\ session' \in [Slots -> 0 .. SessMod - 1]
  <2>1. CASE PressSilent(s)
    <3>1. slot' \in AfterInit /\ UNCHANGED <<session, out>>
      BY <2>1 DEF PressSilent
    <3> QED
      BY <1>0, <3>1, ScannedSlots DEF OtpInv, TypeOK, CodeGrew, Saturated, Before
  <2>2. CASE PressHotp(s)
    <3>1. PICK slots \in AfterInit :
            /\ slots[s] # Empty /\ slots[s].mode = "hotp"
            /\ slots[s].count # Lost => slots[s].count < CtrMod - 1
            /\ \E imf \in Reads(slots[s].count) :
                 Typed(slots, s, ((IF imf = 0 THEN slots[s].seed ELSE imf) + 1) % CtrMod,
                       <<IF imf = 0 THEN slots[s].seed ELSE imf, 0>>)
      BY <2>2 DEF PressHotp
    <3>2. /\ slots \in [Slots -> Contents] /\ SlotsOK(slots, session, TRUE)
          /\ \A t \in Slots : SameId(slot[t], slots[t])
      BY ScannedSlots
    <3>3. UNCHANGED session
      BY <2>2 DEF PressHotp
    <3>4. /\ slot' \in [Slots -> Contents] /\ SlotsOK(slot', session', TRUE) /\ CodeGrew'
          /\ \A t \in Slots : SameId(slots[t], slot'[t])
          /\ out' \in [mode : {"otp", "hotp"}, prev : Codes \cup {None}, code : Codes, steady : BOOLEAN]
      BY <3>1, <3>2, <3>3, HotpSlot
    <3> QED
      BY <1>0, <3>2, <3>3, <3>4 DEF SameId
  <2>3. CASE PressOtp(s)
    <3>1. PICK slots \in AfterInit : PressOtp(s)!(slots)
      BY <2>3 DEF PressOtp
    <3>2. /\ slots \in [Slots -> Contents] /\ SlotsOK(slots, session, TRUE)
          /\ \A t \in Slots : SameId(slot[t], slots[t])
      BY ScannedSlots
    <3>3. PICK v \in Reads(slots[s].count) : PressOtp(s)!(slots)!2!(v)
      BY <3>1
    <3> DEFINE counter == IF v = 0 THEN 1 ELSE v
               wraps == session[s] + 1 = SessMod
               next == IF wraps THEN (counter + 1) % CtrMod ELSE counter
               count == IF v = 0 \/ (wraps /\ next <= CtrMax) THEN next ELSE slots[s].count
    <3>4. /\ session' = [session EXCEPT ![s] = (session[s] + 1) % SessMod]
          /\ Typed(slots, s, count, <<counter, session[s]>>)
      BY <3>3
    <3>5. slots[s] # Empty /\ slots[s].mode = "otp"
      BY <3>1
    <3>6. wraps \in BOOLEAN
      OBVIOUS
    <3>7. /\ counter = IF v = 0 THEN 1 ELSE v
          /\ wraps = (session[s] + 1 = SessMod)
          /\ next = IF wraps THEN (counter + 1) % CtrMod ELSE counter
          /\ count = IF v = 0 \/ (wraps /\ next <= CtrMax) THEN next ELSE slots[s].count
      OBVIOUS
    <3> HIDE DEF counter, wraps, next, count
    <3>8. /\ slot' \in [Slots -> Contents] /\ SlotsOK(slot', session', TRUE) /\ CodeGrew'
          /\ \A t \in Slots : SameId(slots[t], slot'[t])
          /\ out' \in [mode : {"otp", "hotp"}, prev : Codes \cup {None}, code : Codes, steady : BOOLEAN]
          /\ session' \in [Slots -> 0 .. SessMod - 1]
      BY <1>0, <3>2, <3>4, <3>5, <3>6, <3>7, OtpSlot
    <3> QED
      BY <3>2, <3>8 DEF SameId
  <2> QED
    BY <2>1, <2>2, <2>3 DEF Press
<1>2. \A t \in Slots : slot'[t] # Empty /\ slot'[t].mode = "otp" /\ slot'[t].count # Lost
                          => slot'[t].count <= CtrMax
  BY <1>1 DEF SlotsOK, Covered
<1>3. TypeOK'
  BY <1>0, <1>1, <1>2 DEF TypeOK, Contents
<1> QED
  BY <1>0, <1>1, <1>3 DEF OtpInv, SlotsOK

(***************************************************************************)
(* The other commands                                                      *)
(***************************************************************************)

\* A command that types nothing, from what it does to the slots.
LEMMA QuietStep ==
    ASSUME OtpInv, UNCHANGED out, slot' \in [Slots -> Contents], SlotsOK(slot', session', scanned'),
           session' \in [Slots -> 0 .. SessMod - 1], scanned' \in BOOLEAN, made' \in 0 .. MaxConfigs,
           cmd' \in [name : Commands, acc : AccCodes \cup {None}]
    PROVE  OtpInv'
<1>1. \A t \in Slots : slot'[t] # Empty /\ slot'[t].mode = "otp" /\ slot'[t].count # Lost
                          => slot'[t].count <= CtrMax
  BY DEF SlotsOK, Covered
<1>2. TypeOK'
  BY <1>1 DEF OtpInv, TypeOK, Contents
<1>3. CodeGrew'
  BY DEF OtpInv, CodeGrew, Saturated, Before
<1> QED
  BY <1>2, <1>3 DEF OtpInv

\* A configuration, or none, in one slot.
LEMMA WriteStep ==
    ASSUME OtpInv, NEW s \in Slots, NEW slots \in [Slots -> Contents],
           \A t \in Slots \ {s} : slots[t] = slot[t], Covered(slots[s]), \A n : Ahead(slots[s], n)
    PROVE  SlotsOK(slots, session, scanned)
BY DEF OtpInv, SlotsOK

\* A command on slot s that brings acc.
Brings(s, name, acc) == MayWrite(s, acc) /\ cmd' = [name |-> name, acc |-> acc]

\* A configuration replaces one slot, if its access code allows.
LEMMA ConfigureStep ==
    ASSUME OtpInv, NEW s \in Slots, NEW mode \in Modes, NEW acc \in AccCodes, NEW seed \in Seeds,
           NEW presented \in AccCodes, Configure(s, mode, acc, seed, presented)
    PROVE  OtpInv' /\ Brings(s, "CONFIGURE", presented) /\ \A t \in Slots \ {s} : SameId(slot[t], slot'[t])
<1> DEFINE x == [id |-> made + 1, mode |-> mode, acc |-> acc, seed |-> seed,
                 count |-> 0, last |-> None, steady |-> TRUE]
           slots == [slot EXCEPT ![s] = x]
<1>1. /\ made \in 0 .. MaxConfigs /\ made < MaxConfigs /\ made' = made + 1 /\ MaxConfigs \in Nat
      /\ Reported(slots) /\ UNCHANGED <<session, out>> /\ session \in [Slots -> 0 .. SessMod - 1]
  BY CounterAssumption DEF Configure, OtpInv, TypeOK
<1>2. made + 1 \in 1 .. MaxConfigs /\ made' \in 0 .. MaxConfigs
  BY <1>1
<1>3. seed \in Counters /\ 0 \in Counters
  <2>1. seed \in 0 .. CtrMod - 2 /\ CtrMod \in Nat
    BY CounterAssumption
  <2> QED
    BY <2>1 DEF Counters
<1>4. x \in Contents
  BY <1>2, <1>3 DEF Contents, Configs
<1>5. Covered(x) /\ \A n : Ahead(x, n)
  BY <1>3, CounterAssumption DEF Covered, Ahead
<1> HIDE DEF x
<1>e. /\ slots \in [Slots -> Contents] /\ slots[s] = x
      /\ \A t \in Slots \ {s} : slots[t] = slot[t]
  BY <1>4 DEF OtpInv, TypeOK, Contents
<1> HIDE DEF slots
<1>6. SlotsOK(slots, session, scanned) /\ \A t \in Slots : Covered(slots[t])
  <2>1. SlotsOK(slots, session, scanned)
    BY <1>5, <1>e, WriteStep
  <2> QED
    BY <2>1 DEF SlotsOK
<1>7. /\ slot' \in [Slots -> Contents] /\ SlotsOK(slot', session', scanned')
      /\ \A t \in Slots : SameId(slots[t], slot'[t])
  BY <1>1, <1>e, <1>6, ReportedSlots
<1>8. cmd' \in [name : Commands, acc : AccCodes \cup {None}] /\ scanned' \in BOOLEAN
  BY DEF Configure, Did, Commands, Reported
<1>9. OtpInv'
  BY <1>1, <1>2, <1>7, <1>8, QuietStep
<1> QED
  BY <1>e, <1>7, <1>9 DEF Brings, Configure, Did

\* A deletion empties one slot, likewise.
LEMMA DeleteStep ==
    ASSUME OtpInv, NEW s \in Slots, NEW presented \in AccCodes, DeleteSlot(s, presented)
    PROVE  OtpInv' /\ Brings(s, "DELETE", presented) /\ \A t \in Slots \ {s} : SameId(slot[t], slot'[t])
<1> DEFINE slots == [slot EXCEPT ![s] = Empty]
<1>1. /\ UNCHANGED <<made, session, out>> /\ made \in 0 .. MaxConfigs
      /\ Reported(slots) /\ session \in [Slots -> 0 .. SessMod - 1]
  BY DEF DeleteSlot, OtpInv, TypeOK
<1>2. Empty \in Contents /\ Covered(Empty) /\ \A n : Ahead(Empty, n)
  BY DEF Contents, Covered, Ahead
<1>e. /\ slots \in [Slots -> Contents] /\ slots[s] = Empty
      /\ \A t \in Slots \ {s} : slots[t] = slot[t]
  BY <1>2 DEF OtpInv, TypeOK, Contents
<1> HIDE DEF slots
<1>3. SlotsOK(slots, session, scanned) /\ \A t \in Slots : Covered(slots[t])
  <2>1. SlotsOK(slots, session, scanned)
    BY <1>2, <1>e, WriteStep
  <2> QED
    BY <2>1 DEF SlotsOK
<1>4. /\ slot' \in [Slots -> Contents] /\ SlotsOK(slot', session', scanned')
      /\ \A t \in Slots : SameId(slots[t], slot'[t])
  BY <1>1, <1>e, <1>3, ReportedSlots
<1>5. cmd' \in [name : Commands, acc : AccCodes \cup {None}] /\ scanned' \in BOOLEAN
  BY DEF DeleteSlot, Did, Commands, Reported
<1>6. OtpInv'
  BY <1>1, <1>4, <1>5, QuietStep
<1> QED
  BY <1>e, <1>4, <1>6 DEF Brings, DeleteSlot, Did

\* An update leaves the configuration without codes to come after.
LEMMA UpdateStep ==
    ASSUME OtpInv, NEW s \in Slots, NEW acc \in AccCodes, NEW presented \in AccCodes,
           Update(s, acc, presented)
    PROVE  OtpInv' /\ \A t \in Slots : SameId(slot[t], slot'[t])
<1> DEFINE r == slot[s]
           x == [r EXCEPT !.acc = acc, !.count = Lost, !.last = None]
<1>1. /\ r \in Configs /\ r # Empty /\ slot' = [slot EXCEPT ![s] = x]
      /\ UNCHANGED <<session, scanned, made, out>>
  BY DEF Update, OtpInv, TypeOK
<1>2. x \in Configs
  BY <1>1 DEF Configs
<1>3. x # Empty /\ x \in Contents
  BY <1>2, EmptyAssumption DEF Contents
<1>4. x.id = r.id /\ x.last = None /\ x.count = Lost
  BY <1>1 DEF Configs
<1> HIDE DEF x
<1>5. Covered(x) /\ \A n : Ahead(x, n)
  BY <1>4 DEF Covered, Ahead
<1>e. /\ slot' \in [Slots -> Contents] /\ slot'[s] = x
      /\ \A t \in Slots \ {s} : slot'[t] = slot[t]
  BY <1>1, <1>3 DEF OtpInv, TypeOK, Contents
<1> DEFINE slots == slot'
<1>f. /\ slots \in [Slots -> Contents] /\ slots[s] = x
      /\ \A t \in Slots \ {s} : slots[t] = slot[t]
  BY <1>e
<1> HIDE DEF slots
<1>g. SlotsOK(slots, session, scanned)
  BY <1>5, <1>f, WriteStep
<1>6. SlotsOK(slot', session', scanned')
  BY <1>1, <1>g DEF slots
<1>7. cmd' \in [name : Commands, acc : AccCodes \cup {None}]
  BY DEF Update, Did, Commands
<1>8. OtpInv'
  BY <1>1, <1>e, <1>6, <1>7, QuietStep DEF OtpInv, TypeOK
<1> QED
  BY <1>1, <1>3, <1>4, <1>e, <1>8 DEF SameId

\* A swap moves both configurations, or the one there is.
LEMMA SwapStep ==
    ASSUME OtpInv, Swap
    PROVE  OtpInv' /\ \A t \in Slots : SameId(slot[t], slot'[3 - t])
<1>1. \A t \in Slots : 3 - t \in Slots /\ 3 - (3 - t) = t
  BY DEF Slots
<1>2. /\ slot' = [s \in Slots |-> Unsteady(slot[3 - s])] /\ slot \in [Slots -> Contents]
      /\ UNCHANGED <<session, scanned, made, out>>
  BY DEF Swap, OtpInv, TypeOK, Contents
<1>3. ASSUME NEW s \in Slots
      PROVE  /\ slot'[s] \in Contents /\ Covered(slot'[s]) /\ SameId(slot[3 - s], slot'[s])
             /\ \A n : Ahead(slot'[s], n)
  <2>1. slot[3 - s] \in Contents /\ Covered(slot[3 - s]) /\ slot'[s] = Unsteady(slot[3 - s])
    BY <1>1, <1>2 DEF OtpInv, SlotsOK
  <2> QED
    BY <2>1, UnsteadySlot
<1>4. slot' \in [Slots -> Contents] /\ SlotsOK(slot', session', scanned')
  BY <1>2, <1>3 DEF SlotsOK
<1>5. cmd' \in [name : Commands, acc : AccCodes \cup {None}]
  BY DEF Swap, Did, Commands
<1>6. OtpInv'
  BY <1>2, <1>4, <1>5, QuietStep DEF OtpInv, TypeOK
<1>7. ASSUME NEW t \in Slots PROVE SameId(slot[t], slot'[3 - t])
  BY <1>1, <1>3
<1> QED
  BY <1>6, <1>7

\* Nothing else changes a configuration, but a reset.
LEMMA RestStep ==
    ASSUME OtpInv, Status \/ InitOtp \/ Reset \/ PowerCycle \/ UNCHANGED vars
    PROVE  OtpInv' /\ (cmd'.name = "RESET" \/ \A t \in Slots : SameId(slot[t], slot'[t]))
<1>0. /\ slot \in [Slots -> Contents] /\ \A t \in Slots : Covered(slot[t])
      /\ session \in [Slots -> 0 .. SessMod - 1] /\ made \in 0 .. MaxConfigs /\ scanned \in BOOLEAN
      /\ cmd \in [name : Commands, acc : AccCodes \cup {None}] /\ SlotsOK(slot, session, scanned)
  BY DEF OtpInv, TypeOK, SlotsOK, Contents
<1>1. CASE Status
  <2>1. Reported(slot) /\ UNCHANGED <<session, made, cmd, out>> /\ scanned' \in BOOLEAN
    BY <1>1 DEF Status, Reported
  <2>2. /\ slot' \in [Slots -> Contents] /\ SlotsOK(slot', session', scanned')
        /\ \A t \in Slots : SameId(slot[t], slot'[t])
    BY <1>0, <2>1, ReportedSlots
  <2> QED
    BY <1>0, <2>1, <2>2, QuietStep
<1>2. CASE Reset
  <2>1. /\ slot' = [s \in Slots |-> Empty] /\ cmd' = [name |-> "RESET", acc |-> None]
        /\ scanned' \in BOOLEAN /\ UNCHANGED <<session, made, out>>
    BY <1>2 DEF Reset, Did
  <2>2. slot' \in [Slots -> Contents] /\ SlotsOK(slot', session', scanned')
    BY <2>1 DEF Contents, SlotsOK, Covered, Ahead
  <2>3. cmd' \in [name : Commands, acc : AccCodes \cup {None}] /\ cmd'.name = "RESET"
    BY <2>1 DEF Commands
  <2> QED
    BY <1>0, <2>1, <2>2, <2>3, QuietStep
<1>3. CASE PowerCycle
  <2>1. /\ session' = [s \in Slots |-> 0] /\ scanned' = FALSE /\ UNCHANGED <<slot, made, cmd, out>>
    BY <1>3 DEF PowerCycle
  <2>2. session' \in [Slots -> 0 .. SessMod - 1]
    BY <2>1, CounterAssumption
  <2>3. SlotsOK(slot', session', scanned')
    BY <1>0, <2>1 DEF SlotsOK
  <2> QED
    BY <1>0, <2>1, <2>2, <2>3, QuietStep DEF SameId
<1>4. CASE InitOtp
  <2>1. slot' \in AfterInit /\ scanned' = TRUE /\ UNCHANGED <<session, made, cmd, out>>
    BY <1>4 DEF InitOtp
  <2> DEFINE slots == slot'
  <2>2. slots \in AfterInit
    BY <2>1
  <2> HIDE DEF slots
  <2>3. /\ slots \in [Slots -> Contents] /\ SlotsOK(slots, session, TRUE)
        /\ \A s \in Slots : SameId(slot[s], slots[s])
    BY <2>2, ScannedSlots
  <2>4. SlotsOK(slot', session', scanned')
    BY <2>1, <2>3 DEF slots
  <2> QED
    BY <1>0, <2>1, <2>3, <2>4, QuietStep DEF slots
<1>5. CASE UNCHANGED vars
  BY <1>0, <1>5, QuietStep DEF vars, SameId
<1> QED
  BY <1>1, <1>2, <1>3, <1>4, <1>5

\* What any step does to the invariant and to the configurations.
LEMMA OtpStep ==
    ASSUME OtpInv, [Next]_vars
    PROVE  /\ OtpInv'
           /\ \/ \A t \in Slots : SameId(slot[t], slot'[t])
              \/ \A t \in Slots : SameId(slot[t], slot'[3 - t])
              \/ cmd'.name = "RESET"
              \/ \E s \in Slots, acc \in AccCodes, name \in {"CONFIGURE", "DELETE"} :
                    Brings(s, name, acc) /\ \A t \in Slots \ {s} : SameId(slot[t], slot'[t])
<1>1. ASSUME NEW s \in Slots, Press(s) PROVE OtpInv' /\ \A t \in Slots : SameId(slot[t], slot'[t])
  BY <1>1, PressStep
<1>2. ASSUME NEW s \in Slots, NEW presented \in AccCodes, DeleteSlot(s, presented)
      PROVE  OtpInv' /\ Brings(s, "DELETE", presented) /\ \A t \in Slots \ {s} : SameId(slot[t], slot'[t])
  BY <1>2, DeleteStep
<1>3. ASSUME NEW s \in Slots, NEW acc \in AccCodes, NEW presented \in AccCodes, Update(s, acc, presented)
      PROVE  OtpInv' /\ \A t \in Slots : SameId(slot[t], slot'[t])
  BY <1>3, UpdateStep
<1>4. ASSUME NEW s \in Slots, NEW mode \in Modes, NEW acc \in AccCodes, NEW seed \in Seeds,
             NEW presented \in AccCodes, Configure(s, mode, acc, seed, presented)
      PROVE  OtpInv' /\ Brings(s, "CONFIGURE", presented) /\ \A t \in Slots \ {s} : SameId(slot[t], slot'[t])
  BY <1>4, ConfigureStep
<1>5. CASE Swap
  BY <1>5, SwapStep
<1>6. CASE Status \/ InitOtp \/ Reset \/ PowerCycle \/ UNCHANGED vars
  BY <1>6, RestStep
<1> QED
  BY <1>1, <1>2, <1>3, <1>4, <1>5, <1>6 DEF Next

(***************************************************************************)
(* The storage                                                             *)
(*                                                                         *)
(* Every content that a cut can leave, and the slots themselves, keep up   *)
(* with the counters typed, but for the releases behind it and those that  *)
(* were lost.  So a counter may rise by one for each release at most       *)
(* (Grown, Leads), and a configuration whose codes count is in one slot    *)
(* (Alone).                                                                *)
(***************************************************************************)

\* The counter of the next code, for short.
N(r) == NextCounter(r)

\* A usage counter may be one behind the last one typed.
Slack(r) == IF r.mode = "otp" THEN 1 ELSE 0

\* The codes of r are recorded.
Counting(r, l) == r # Empty /\ r.mode # "other" /\ r.id \notin l

\* x is the configuration r with a counter raised by no more than q.
Grown(r, x, q) ==
    /\ r # Empty /\ x.id = r.id /\ x.mode = r.mode
    /\ r.mode # "other" /\ r.count # Lost => /\ N(r) <= N(x) /\ N(x) <= N(r) + q
                                           /\ x.count # Lost

\* The slots c are behind the counters typed by d at most.
KeepsUp(c, d, m, u, l) ==
    \A s \in Slots : c[s] # Empty =>
        /\ c[s].id <= m
        /\ Counting(c[s], l) => c[s].count # Lost /\ u[c[s].id] <= N(c[s]) + d + Slack(c[s])

\* The counters now are ahead of the slots c by d at most.
Leads(c, d, now, l) ==
    \A s, t \in Slots : Counting(c[s], l) /\ now[t] # Empty /\ now[t].id = c[s].id =>
        now[t].mode = c[s].mode /\ N(now[t]) <= N(c[s]) + d

\* A configuration whose codes are recorded is in one slot.
Alone(now, l) ==
    \A s, t \in Slots : Counting(now[s], l) /\ now[t] # Empty /\ now[t].id = now[s].id => s = t

\* The slots c are not ahead of the counters now.
Level(c, now, l) ==
    \A s, t \in Slots : Counting(now[t], l) /\ c[s] # Empty /\ c[s].id = now[t].id =>
        N(c[s]) <= N(now[t])

\* Every configuration now in a slot is in c as well.
Held(c, now) ==
    \A t \in Slots : now[t] # Empty => \E s \in Slots : c[s] # Empty /\ c[s].id = now[t].id

\* What the flash may hold.
Plains == {r \in Configs : r.last = None /\ (r.mode = "otp" /\ r.count # Lost => r.count <= CtrMax)}
Flashes == [Slots -> Plains \cup {Empty}]

\* Types, and no code from a configuration not yet made.
StorageTypes ==
    /\ flashed \in Flashes /\ pending \in Seq(Flashes) /\ lost \in Nat
    /\ used \in [Ids -> Nat] /\ loose \subseteq Ids
    /\ \A i \in Ids : i > made => used[i] = 0

\* What a cut can leave, content k having Len(pending) - k releases behind it.
ContentsInv ==
    \A k \in 0 .. Len(pending) :
        /\ KeepsUp(Written(k), lost + (Len(pending) - k), made, used, loose)
        /\ Leads(Written(k), Len(pending) - k, slot, loose)

\* The slots, and what the last release holds of them.
PresentInv ==
    /\ KeepsUp(slot, lost, made, used, loose)
    /\ Alone(slot, loose)
    /\ Level(Released, slot, loose)
    /\ Held(Released, slot)

\* The inductive invariant.
StorageInv == OtpInv /\ StorageTypes /\ PresentInv /\ ContentsInv

\* The next counter is a number unless the count was cut off.
LEMMA CounterType ==
    ASSUME NEW r \in Configs
    PROVE  /\ r.id \in 1 .. MaxConfigs /\ r.mode \in Modes /\ r # Empty
           /\ r.count # Lost => N(r) \in Nat
           /\ N(r) \in Nat \cup {Lost}
<1>1. r.count \in Counters \cup {Lost} /\ r.seed \in Seeds /\ r.id \in 1 .. MaxConfigs /\ r.mode \in Modes
  BY DEF Configs
<1>2. r # Empty
  BY EmptyAssumption
<1>3. Counters \subseteq Nat /\ Seeds \subseteq Nat
  BY CounterAssumption DEF Counters
<1> QED
  BY <1>1, <1>2, <1>3 DEF N, NextCounter

\* The contents are the flash and each of the releases.
LEMMA ReleasedIsLast ==
    ASSUME pending \in Seq(Flashes), flashed \in Flashes
    PROVE  /\ Released = Written(Len(pending)) /\ Len(pending) \in Nat
           /\ \A k \in 0 .. Len(pending) : Written(k) \in Flashes
<1>1. Len(pending) \in Nat /\ \A k \in 1 .. Len(pending) : pending[k] \in Flashes
  OBVIOUS
<1>2. pending # <<>> => Len(pending) # 0 /\ Last(pending) = pending[Len(pending)]
  BY DEF Last
<1>3. pending = <<>> => Len(pending) = 0
  OBVIOUS
<1> QED
  BY <1>1, <1>2, <1>3 DEF Released, Written

\* A slot without its histories has its number, mode and counter.
LEMMA PlainSlot ==
    ASSUME NEW r \in Configs \cup {Empty}, r # Empty /\ r.mode = "otp" /\ r.count # Lost => r.count <= CtrMax
    PROVE  /\ Plain(r) \in Plains \cup {Empty}
           /\ Plain(r) = Empty <=> r = Empty
           /\ r # Empty => /\ Plain(r).id = r.id /\ Plain(r).mode = r.mode /\ Plain(r).count = r.count
                           /\ N(Plain(r)) = N(r) /\ Plain(r).last = None
<1>1. CASE r = Empty
  BY <1>1 DEF Plain
<1>2. CASE r # Empty
  <2> DEFINE x == [r EXCEPT !.last = None, !.steady = FALSE]
  <2>1. r \in Configs /\ Plain(r) = x
    BY <1>2 DEF Plain
  <2>2. /\ x \in Configs /\ x.id = r.id /\ x.mode = r.mode /\ x.count = r.count /\ x.seed = r.seed
        /\ x.last = None
    BY <2>1 DEF Configs
  <2>3. x # Empty
    BY <2>2, EmptyAssumption
  <2> HIDE DEF x
  <2> QED
    BY <1>2, <2>1, <2>2, <2>3 DEF Plains, N, NextCounter
<1> QED
  BY <1>1, <1>2

\* What a command does to the slots: every configuration of the new slots is a new
\* one or an old one, whose counter has risen by q at most.
Evolves(q) ==
    /\ UNCHANGED lost
    /\ made \in Nat /\ made' \in Nat /\ made <= made'
    /\ loose \subseteq loose' /\ loose' \subseteq Ids
    /\ used' \in [Ids -> Nat] /\ \A i \in Ids : i > made' => used'[i] = 0
    /\ \A t \in Slots : slot'[t] # Empty =>
         /\ slot'[t].id <= made'
         /\ \/ slot'[t].id > made /\ slot'[t].count # Lost
            \/ \E u \in Slots : /\ slot[u] # Empty /\ slot[u].id = slot'[t].id
                                /\ slot'[t].id \notin loose' => Grown(slot[u], slot'[t], q)
    /\ Alone(slot', loose')
    /\ \A i \in Ids \ loose' :
         \/ used'[i] <= used[i]
         \/ \E t \in Slots : /\ slot'[t] # Empty /\ slot'[t].id = i /\ slot'[t].mode # "other"
                             /\ used'[i] <= N(slot'[t]) + Slack(slot'[t])

\* The slots keep up with what the command typed.
LEMMA PresentKeepsUp ==
    ASSUME StorageInv, OtpInv', NEW q \in {0, 1}, Evolves(q)
    PROVE  KeepsUp(slot', lost', made', used', loose')
<1> USE DEF Slack
<1>0. /\ lost \in Nat /\ lost' = lost /\ used \in [Ids -> Nat] /\ used' \in [Ids -> Nat]
      /\ slot \in [Slots -> Configs \cup {Empty}] /\ slot' \in [Slots -> Configs \cup {Empty}]
  BY DEF StorageInv, StorageTypes, Evolves, OtpInv, TypeOK
<1> SUFFICES ASSUME NEW s \in Slots, slot'[s] # Empty
             PROVE  /\ slot'[s].id <= made'
                    /\ Counting(slot'[s], loose') =>
                         /\ slot'[s].count # Lost
                         /\ used'[slot'[s].id] <= N(slot'[s]) + lost' + Slack(slot'[s])
  BY DEF KeepsUp
<1> DEFINE x == slot'[s]
<1>1. /\ x \in Configs /\ x.id \in Ids /\ x.id <= made' /\ (x.count # Lost => N(x) \in Nat)
      /\ x.id \in Nat /\ made \in Nat /\ made' \in Nat
  BY <1>0, CounterType, CounterAssumption DEF Evolves, Ids
<1> SUFFICES ASSUME Counting(x, loose')
             PROVE  x.count # Lost /\ used'[x.id] <= N(x) + lost + Slack(x)
  BY <1>0, <1>1
<1>2. x # Empty /\ x.mode # "other" /\ x.id \notin loose' /\ x.id \notin loose
  BY DEF Counting, Evolves
<1>3. x.count # Lost /\ used[x.id] <= N(x) + lost + Slack(x)
  <2>1. CASE x.id > made /\ x.count # Lost
    <3>1. used[x.id] = 0
      BY <1>1, <2>1 DEF StorageInv, StorageTypes
    <3> QED
      BY <1>0, <1>1, <2>1, <3>1
  <2>2. CASE \E u \in Slots : slot[u] # Empty /\ slot[u].id = x.id /\ Grown(slot[u], x, q)
    <3>1. PICK u \in Slots : slot[u] # Empty /\ slot[u].id = x.id /\ Grown(slot[u], x, q)
      BY <2>2
    <3>2. Counting(slot[u], loose) /\ slot[u] \in Configs
      BY <1>0, <1>2, <3>1 DEF Counting, Grown
    <3>3. /\ slot[u].count # Lost /\ N(slot[u]) \in Nat
          /\ used[x.id] <= N(slot[u]) + lost + Slack(slot[u])
      BY <3>1, <3>2, CounterType DEF StorageInv, PresentInv, KeepsUp
    <3>4. x.count # Lost /\ N(slot[u]) <= N(x) /\ x.mode = slot[u].mode
      BY <1>2, <3>1, <3>3 DEF Grown
    <3> QED
      BY <1>0, <1>1, <3>3, <3>4
  <2>3. \/ x.id > made /\ x.count # Lost
        \/ \E u \in Slots : /\ slot[u] # Empty /\ slot[u].id = x.id
                            /\ x.id \notin loose' => Grown(slot[u], x, q)
    BY DEF Evolves
  <2> HIDE DEF x
  <2> QED
    BY <1>2, <2>1, <2>2, <2>3
<1>4. CASE used'[x.id] <= used[x.id]
  BY <1>0, <1>1, <1>3, <1>4
<1>5. CASE \E t \in Slots : /\ slot'[t] # Empty /\ slot'[t].id = x.id /\ slot'[t].mode # "other"
                            /\ used'[x.id] <= N(slot'[t]) + Slack(slot'[t])
  <2>1. PICK t \in Slots : /\ slot'[t] # Empty /\ slot'[t].id = x.id
                          /\ used'[x.id] <= N(slot'[t]) + Slack(slot'[t])
    BY <1>5
  <2>2. t = s
    BY <2>1 DEF Evolves, Alone
  <2> QED
    BY <1>0, <1>1, <1>3, <2>1, <2>2
<1> QED
  BY <1>1, <1>2, <1>3, <1>4, <1>5 DEF Evolves

\* An older content is behind by q more.
LEMMA ContentKeepsUp ==
    ASSUME StorageInv, OtpInv', NEW q \in {0, 1}, Evolves(q), NEW c \in Flashes, NEW d \in Nat,
           KeepsUp(c, lost + d, made, used, loose), Leads(c, d, slot, loose)
    PROVE  KeepsUp(c, lost' + (d + q), made', used', loose') /\ Leads(c, d + q, slot', loose')
<1> USE DEF Slack
<1>0. /\ lost \in Nat /\ lost' = lost /\ used \in [Ids -> Nat] /\ used' \in [Ids -> Nat]
      /\ slot \in [Slots -> Configs \cup {Empty}] /\ slot' \in [Slots -> Configs \cup {Empty}]
      /\ made \in Nat /\ made' \in Nat /\ made <= made'
  BY DEF StorageInv, StorageTypes, Evolves, OtpInv, TypeOK
<1>1. ASSUME NEW s \in Slots, c[s] # Empty
      PROVE  /\ c[s] \in Configs /\ c[s].id \in Ids /\ c[s].id \in Nat /\ c[s].id <= made /\ c[s].id <= made'
             /\ Counting(c[s], loose') => /\ Counting(c[s], loose) /\ c[s].count # Lost /\ N(c[s]) \in Nat
                                           /\ used[c[s].id] <= N(c[s]) + (lost + d) + Slack(c[s])
  <2>1. c[s] \in Configs /\ c[s].id \in Ids /\ c[s].id \in Nat
    BY <1>1, CounterType, CounterAssumption DEF Flashes, Plains, Ids
  <2>2. c[s].id <= made /\ (Counting(c[s], loose) => /\ c[s].count # Lost
                                                     /\ used[c[s].id] <= N(c[s]) + (lost + d) + Slack(c[s]))
    BY <1>1 DEF KeepsUp
  <2>3. Counting(c[s], loose') => Counting(c[s], loose)
    BY DEF Counting, Evolves
  <2> QED
    BY <1>0, <2>1, <2>2, <2>3, CounterType
<1>2. ASSUME NEW s \in Slots, NEW t \in Slots, Counting(c[s], loose'), slot'[t] # Empty, slot'[t].id = c[s].id
      PROVE  slot'[t].mode = c[s].mode /\ N(slot'[t]) <= N(c[s]) + (d + q) /\ N(slot'[t]) \in Nat
  <2>1. c[s] # Empty /\ c[s].id \notin loose' /\ c[s].mode # "other"
    BY <1>2 DEF Counting
  <2>a. \/ slot'[t].id > made
        \/ \E u \in Slots : /\ slot[u] # Empty /\ slot[u].id = slot'[t].id
                            /\ slot'[t].id \notin loose' => Grown(slot[u], slot'[t], q)
    BY <1>2 DEF Evolves
  <2>b. c[s].id <= made /\ c[s].id \in Nat
    BY <1>1, <2>1
  <2>2. PICK u \in Slots : slot[u] # Empty /\ slot[u].id = slot'[t].id /\ Grown(slot[u], slot'[t], q)
    BY <1>0, <1>2, <2>1, <2>a, <2>b
  <2>3. slot[u].mode = c[s].mode /\ N(slot[u]) <= N(c[s]) + d
    BY <1>1, <1>2, <2>1, <2>2 DEF Leads
  <2>4. Counting(slot[u], loose) /\ slot[u] \in Configs
    BY <1>0, <1>1, <1>2, <2>1, <2>2, <2>3 DEF Counting
  <2>5. slot[u].count # Lost
    BY <2>4, <2>2 DEF StorageInv, PresentInv, KeepsUp
  <2>6. slot'[t].count # Lost /\ slot'[t] \in Configs /\ slot'[t].mode = slot[u].mode /\ N(slot'[t]) <= N(slot[u]) + q
    BY <1>0, <1>2, <2>1, <2>2, <2>3, <2>5 DEF Grown
  <2>7. N(slot'[t]) \in Nat /\ N(slot[u]) \in Nat /\ N(c[s]) \in Nat
    BY <1>1, <1>2, <2>1, <2>4, <2>5, <2>6, CounterType
  <2> QED
    BY <2>3, <2>6, <2>7
<1>3. ASSUME NEW s \in Slots, c[s] # Empty, Counting(c[s], loose')
      PROVE  used'[c[s].id] <= N(c[s]) + (lost + (d + q)) + Slack(c[s])
  <2>0. /\ c[s].id \in Ids \ loose' /\ N(c[s]) \in Nat /\ used[c[s].id] \in Nat /\ used'[c[s].id] \in Nat
        /\ used[c[s].id] <= N(c[s]) + (lost + d) + Slack(c[s])
    BY <1>0, <1>1, <1>3 DEF Counting
  <2>1. CASE used'[c[s].id] <= used[c[s].id]
    BY <1>0, <2>0, <2>1
  <2>2. CASE \E t \in Slots : /\ slot'[t] # Empty /\ slot'[t].id = c[s].id
                              /\ used'[c[s].id] <= N(slot'[t]) + Slack(slot'[t])
    <3>1. PICK t \in Slots : /\ slot'[t] # Empty /\ slot'[t].id = c[s].id
                            /\ used'[c[s].id] <= N(slot'[t]) + Slack(slot'[t])
      BY <2>2
    <3>2. slot'[t].mode = c[s].mode /\ N(slot'[t]) <= N(c[s]) + (d + q) /\ N(slot'[t]) \in Nat
      BY <1>2, <1>3, <3>1
    <3> QED
      BY <1>0, <2>0, <3>1, <3>2
  <2> QED
    BY <2>0, <2>1, <2>2 DEF Evolves
<1> QED
  BY <1>0, <1>1, <1>2, <1>3 DEF KeepsUp, Leads

\* A command that appends the slots to the releases.
LEMMA Appended ==
    ASSUME StorageInv, OtpInv', Evolves(1), pending' = Append(pending, Files'), UNCHANGED flashed
    PROVE  StorageInv'
<1>n. PICK n \in Nat : n = Len(pending)
  BY DEF StorageInv, StorageTypes
<1>0. /\ lost \in Nat /\ lost' = lost /\ n \in Nat /\ pending \in Seq(Flashes) /\ flashed \in Flashes
      /\ \A k \in 0 .. n : Written(k) \in Flashes
  BY <1>n, ReleasedIsLast DEF StorageInv, StorageTypes, Evolves
<1>1. /\ Files' \in Flashes
      /\ \A s \in Slots :
           /\ Files'[s] = Empty <=> slot'[s] = Empty
           /\ slot'[s] # Empty => /\ Files'[s].id = slot'[s].id /\ Files'[s].mode = slot'[s].mode
                                  /\ Files'[s].count = slot'[s].count /\ N(Files'[s]) = N(slot'[s])
  <2>1. ASSUME NEW s \in Slots
        PROVE  /\ Plain(slot'[s]) \in Plains \cup {Empty}
               /\ Plain(slot'[s]) = Empty <=> slot'[s] = Empty
               /\ slot'[s] # Empty => /\ Plain(slot'[s]).id = slot'[s].id
                                      /\ Plain(slot'[s]).mode = slot'[s].mode
                                      /\ Plain(slot'[s]).count = slot'[s].count
                                      /\ N(Plain(slot'[s])) = N(slot'[s])
    BY PlainSlot DEF OtpInv, TypeOK
  <2> QED
    BY <2>1 DEF Files, Flashes
<1>2. /\ Len(pending') = n + 1 /\ pending' \in Seq(Flashes) /\ pending'[n + 1] = Files'
      /\ \A k \in 1 .. n : pending'[k] = pending[k]
  BY <1>0, <1>1, <1>n
<1>3. /\ Written(n + 1)' = Files'
      /\ \A k \in 0 .. n : Written(k)' = Written(k)
  BY <1>0, <1>2 DEF Written
<1>4. StorageTypes'
  BY <1>0, <1>2 DEF StorageInv, StorageTypes, Evolves
<1>5. KeepsUp(slot', lost', made', used', loose') /\ Alone(slot', loose')
  BY PresentKeepsUp DEF Evolves
<1>6. KeepsUp(Files', lost', made', used', loose')
  BY <1>1, <1>5 DEF KeepsUp, Counting, Slack
<1>7. Leads(Files', 0, slot', loose') /\ Level(Files', slot', loose')
  <2> SUFFICES ASSUME NEW s \in Slots, NEW t \in Slots, Files'[s] # Empty, slot'[t] # Empty,
                      Files'[s].id = slot'[t].id, Counting(Files'[s], loose') \/ Counting(slot'[t], loose')
               PROVE  /\ slot'[t].mode = Files'[s].mode /\ N(slot'[t]) = N(Files'[s])
                      /\ N(Files'[s]) \in Nat
    BY DEF Leads, Level, Counting
  <2>1. s = t
    BY <1>1, <1>5 DEF Alone, Counting
  <2>2. Counting(slot'[s], loose') /\ slot'[s] \in Configs
    BY <1>1, <2>1 DEF Counting, OtpInv, TypeOK
  <2>3. slot'[s].count # Lost
    BY <1>5, <2>2 DEF KeepsUp, Counting
  <2> QED
    BY <1>1, <2>1, <2>2, <2>3, CounterType
<1>8. Held(Files', slot')
  BY <1>1 DEF Held
<1>9. Released' = Files'
  BY <1>0, <1>1, <1>2 DEF Released, Last
<1>10. PresentInv'
  BY <1>0, <1>5, <1>7, <1>8, <1>9 DEF PresentInv
<1>11. ASSUME NEW k \in 0 .. n
       PROVE  /\ KeepsUp(Written(k), lost' + ((n + 1) - k), made', used', loose')
              /\ Leads(Written(k), (n + 1) - k, slot', loose')
  <2>1. /\ KeepsUp(Written(k), lost + (n - k), made, used, loose) /\ Leads(Written(k), n - k, slot, loose)
        /\ Written(k) \in Flashes /\ n - k \in Nat
    BY <1>0, <1>n DEF StorageInv, ContentsInv
  <2>2. (n - k) + 1 = (n + 1) - k
    BY <1>0
  <2> QED
    BY <2>1, <2>2, ContentKeepsUp
<1>12. ContentsInv'
  <2> SUFFICES ASSUME NEW k \in 0 .. n + 1
               PROVE  /\ KeepsUp(Written(k)', lost' + ((n + 1) - k), made', used', loose')
                      /\ Leads(Written(k)', (n + 1) - k, slot', loose')
    BY <1>2 DEF ContentsInv
  <2>1. CASE k \in 0 .. n
    BY <1>3, <1>11, <2>1
  <2>2. CASE k = n + 1
    <3>1. (n + 1) - k = 0 /\ lost' + 0 = lost'
      BY <1>0, <2>2
    <3> QED
      BY <1>3, <1>6, <1>7, <2>2, <3>1
  <2> QED
    BY <2>1, <2>2
<1> QED
  BY <1>4, <1>10, <1>12 DEF StorageInv

\* A command that releases nothing makes no configuration and raises no counter.
LEMMA Unreleased ==
    ASSUME StorageInv, OtpInv', Evolves(0), NoRelease,
           \A t \in Slots : slot'[t] # Empty => slot'[t].id <= made
    PROVE  StorageInv'
<1>n. PICK n \in Nat : n = Len(pending)
  BY DEF StorageInv, StorageTypes
<1>0. /\ UNCHANGED <<flashed, pending, lost>> /\ lost \in Nat /\ flashed \in Flashes /\ pending \in Seq(Flashes)
      /\ Len(pending') = n /\ Released' = Released /\ Released = Written(n) /\ made \in Nat
      /\ \A k \in 0 .. n : Written(k)' = Written(k) /\ Written(k) \in Flashes
  BY <1>n, ReleasedIsLast DEF NoRelease, StorageInv, StorageTypes, Released, Written, Evolves
<1>1. StorageTypes'
  BY <1>0 DEF StorageInv, StorageTypes, Evolves
<1>2. KeepsUp(slot', lost', made', used', loose') /\ Alone(slot', loose')
  BY PresentKeepsUp DEF Evolves
<1>3. ASSUME NEW t \in Slots, slot'[t] # Empty
      PROVE  \E u \in Slots : /\ slot[u] # Empty /\ slot[u].id = slot'[t].id
                              /\ slot'[t].id \notin loose' => Grown(slot[u], slot'[t], 0)
  <2>1. slot'[t] \in Configs /\ slot'[t].id \in Nat /\ ~(slot'[t].id > made)
    BY <1>0, <1>3, CounterType, CounterAssumption DEF OtpInv, TypeOK
  <2> QED
    BY <1>3, <2>1 DEF Evolves
<1>4. Held(Released, slot')
  BY <1>3 DEF Held, StorageInv, PresentInv
<1>5. Level(Released, slot', loose')
  <2> SUFFICES ASSUME NEW s \in Slots, NEW t \in Slots, Counting(slot'[t], loose'),
                      Released[s] # Empty, Released[s].id = slot'[t].id
               PROVE  N(Released[s]) <= N(slot'[t])
    BY DEF Level
  <2>1. slot'[t] # Empty /\ slot'[t].mode # "other" /\ slot'[t].id \notin loose' /\ slot'[t].id \notin loose
    BY DEF Counting, Evolves
  <2>2. PICK u \in Slots : slot[u] # Empty /\ slot[u].id = slot'[t].id /\ Grown(slot[u], slot'[t], 0)
    BY <1>3, <2>1
  <2>3. Counting(slot[u], loose) /\ slot[u] \in Configs
    BY <2>1, <2>2 DEF Counting, Grown, StorageInv, OtpInv, TypeOK
  <2>4. slot[u].count # Lost /\ slot[u].mode # "other"
    BY <2>2, <2>3 DEF StorageInv, PresentInv, KeepsUp, Counting
  <2>5. /\ N(slot[u]) <= N(slot'[t]) /\ N(slot'[t]) <= N(slot[u]) + 0
        /\ slot'[t].count # Lost /\ slot'[t] \in Configs
    BY <2>1, <2>2, <2>4 DEF Grown, OtpInv, TypeOK
  <2>6. Counting(slot[u], loose) /\ N(Released[s]) <= N(slot[u])
    BY <2>2, <2>3 DEF StorageInv, PresentInv, Level
  <2>7. N(slot[u]) = N(slot'[t])
    BY <2>3, <2>4, <2>5, CounterType
  <2> QED
    BY <2>6, <2>7
<1>6. PresentInv'
  BY <1>0, <1>2, <1>4, <1>5 DEF PresentInv
<1>7. ASSUME NEW k \in 0 .. n
      PROVE  /\ KeepsUp(Written(k)', lost' + (n - k), made', used', loose')
             /\ Leads(Written(k)', n - k, slot', loose')
  <2>1. /\ KeepsUp(Written(k), lost + (n - k), made, used, loose) /\ Leads(Written(k), n - k, slot, loose)
        /\ Written(k) \in Flashes
    BY <1>0, <1>n DEF StorageInv, ContentsInv
  <2>a. n - k \in Nat /\ (n - k) + 0 = n - k
    OBVIOUS
  <2>2. /\ KeepsUp(Written(k), lost' + ((n - k) + 0), made', used', loose')
        /\ Leads(Written(k), (n - k) + 0, slot', loose')
    BY <2>1, <2>a, ContentKeepsUp
  <2> QED
    BY <1>0, <2>a, <2>2
<1>8. ContentsInv'
  BY <1>0, <1>7 DEF ContentsInv
<1> QED
  BY <1>1, <1>6, <1>8 DEF StorageInv

\* A command after which no counter is ahead of where it was.
LEMMA Still ==
    ASSUME StorageInv, OtpInv', Evolves(1),
           \A t \in Slots : slot'[t] # Empty =>
               /\ slot'[t].id <= made
               /\ \A u \in Slots : Counting(slot'[t], loose') /\ slot[u] # Empty /\ slot[u].id = slot'[t].id
                                      => N(slot'[t]) <= N(slot[u])
    PROVE  Evolves(0)
<1> SUFFICES ASSUME NEW t \in Slots, slot'[t] # Empty
             PROVE  \E u \in Slots : /\ slot[u] # Empty /\ slot[u].id = slot'[t].id
                                     /\ slot'[t].id \notin loose' => Grown(slot[u], slot'[t], 0)
  BY DEF Evolves
<1>1. slot'[t] \in Configs /\ slot'[t].id \in Nat /\ made \in Nat /\ ~(slot'[t].id > made)
  BY CounterType, CounterAssumption DEF OtpInv, TypeOK, Evolves
<1>2. PICK u \in Slots : /\ slot[u] # Empty /\ slot[u].id = slot'[t].id
                         /\ slot'[t].id \notin loose' => Grown(slot[u], slot'[t], 1)
  BY <1>1 DEF Evolves
<1>3. ASSUME slot'[t].id \notin loose' PROVE Grown(slot[u], slot'[t], 0)
  <2>1. Grown(slot[u], slot'[t], 1) /\ slot[u] \in Configs
    BY <1>2, <1>3 DEF StorageInv, OtpInv, TypeOK
  <2>2. CASE slot[u].mode # "other" /\ slot[u].count # Lost
    <3>1. Counting(slot'[t], loose') /\ slot'[t].count # Lost
      BY <1>3, <2>1, <2>2 DEF Grown, Counting
    <3>2. N(slot'[t]) <= N(slot[u]) /\ N(slot'[t]) \in Nat /\ N(slot[u]) \in Nat
      BY <1>1, <1>2, <2>1, <2>2, <3>1, CounterType
    <3> QED
      BY <2>1, <2>2, <3>2 DEF Grown
  <2> QED
    BY <2>1, <2>2 DEF Grown
<1> QED
  BY <1>2, <1>3

\* A command that releases its writes.
LEMMA Releasing ==
    ASSUME StorageInv, OtpInv', Evolves(1), Release
    PROVE  StorageInv'
<1>1. CASE Files' # Released
  BY <1>1, Appended DEF Release
<1>2. CASE Files' = Released
  <2>n. PICK n \in Nat : n = Len(pending)
    BY DEF StorageInv, StorageTypes
  <2>1. /\ NoRelease /\ Released \in Flashes /\ Released = Written(n) /\ n \in 0 .. n
        /\ \A s \in Slots : slot'[s] \in Configs \cup {Empty}
    BY <1>2, <2>n, ReleasedIsLast DEF Release, NoRelease, StorageInv, StorageTypes, OtpInv, TypeOK
  <2>2. KeepsUp(Released, lost + (n - n), made, used, loose)
    BY <2>n, <2>1 DEF StorageInv, ContentsInv
  <2>3. ASSUME NEW t \in Slots, slot'[t] # Empty
        PROVE  /\ Released[t] # Empty /\ Released[t].id = slot'[t].id /\ N(Released[t]) = N(slot'[t])
               /\ slot'[t].id <= made
    <3>1. /\ Plain(slot'[t]) # Empty /\ Plain(slot'[t]).id = slot'[t].id
          /\ N(Plain(slot'[t])) = N(slot'[t])
      BY <2>3, PlainSlot DEF OtpInv, TypeOK
    <3>2. Released[t] = Plain(slot'[t])
      BY <1>2 DEF Files
    <3> QED
      BY <2>2, <3>1, <3>2 DEF KeepsUp
  <2>4. ASSUME NEW t \in Slots, NEW u \in Slots, Counting(slot'[t], loose'), slot[u] # Empty,
               slot[u].id = slot'[t].id, slot'[t] # Empty
        PROVE  N(slot'[t]) <= N(slot[u])
    <3>a. /\ slot'[t].id \notin loose' /\ slot'[t].id \notin loose /\ slot'[t].mode # "other"
          /\ slot'[t].id \in Nat /\ made \in Nat
      BY <2>1, <2>4, CounterType, CounterAssumption DEF Counting, Evolves
    <3>b. PICK w \in Slots : slot[w] # Empty /\ slot[w].id = slot'[t].id /\ Grown(slot[w], slot'[t], 1)
      BY <2>3, <2>4, <3>a DEF Evolves
    <3>c. Counting(slot[w], loose)
      BY <3>a, <3>b DEF Grown, Counting
    <3>1. Counting(slot[u], loose)
      BY <2>4, <3>b, <3>c DEF StorageInv, PresentInv, Alone
    <3> QED
      BY <2>3, <2>4, <3>1 DEF StorageInv, PresentInv, Level
  <2>5. Evolves(0)
    BY <2>3, <2>4, Still
  <2> QED
    BY <2>1, <2>3, <2>5, Unreleased
<1> QED
  BY <1>1, <1>2

(***************************************************************************)
(* The flash                                                               *)
(***************************************************************************)

\* A write takes the first content away.
LEMMA FlushStep ==
    ASSUME StorageInv, OtpInv', Flush
    PROVE  StorageInv'
<1>n. PICK n \in Nat : n = Len(pending)
  BY DEF StorageInv, StorageTypes
<1>0. /\ flashed \in Flashes /\ pending \in Seq(Flashes) /\ Released = Written(n)
      /\ \A k \in 0 .. n : Written(k) \in Flashes
      /\ pending # <<>> /\ flashed' = Head(pending) /\ pending' = Tail(pending)
      /\ UNCHANGED <<slot, made, lost, used, loose>>
  BY <1>n, ReleasedIsLast DEF StorageInv, StorageTypes, Flush, vars, typing
<1>1. /\ n > 0 /\ Len(pending') = n - 1 /\ pending' \in Seq(Flashes) /\ flashed' = pending[1]
      /\ \A k \in 1 .. n - 1 : pending'[k] = pending[k + 1]
  BY <1>0, <1>n
<1>2. \A k \in 0 .. n - 1 : Written(k)' = Written(k + 1)
  BY <1>1 DEF Written
<1>3. flashed' \in Flashes
  BY <1>0, <1>1, <1>n
<1>4. StorageTypes'
  BY <1>0, <1>1, <1>3 DEF StorageInv, StorageTypes
<1>5. Released' = Released
  <2>1. CASE n = 1
    <3>1. pending' = <<>>
      BY <1>1, <2>1
    <3> QED
      BY <1>0, <1>1, <2>1, <3>1 DEF Released, Written
  <2>2. CASE n # 1
    <3>1. pending' # <<>> /\ pending'[n - 1] = pending[n]
      BY <1>1, <2>2
    <3> QED
      BY <1>0, <1>1, <1>n, <2>2, <3>1 DEF Released, Last
  <2> QED
    BY <2>1, <2>2
<1>6. PresentInv'
  BY <1>0, <1>5 DEF StorageInv, PresentInv
<1>7. ASSUME NEW k \in 0 .. n - 1
      PROVE  /\ KeepsUp(Written(k)', lost' + ((n - 1) - k), made', used', loose')
             /\ Leads(Written(k)', (n - 1) - k, slot', loose')
  <2>1. k + 1 \in 0 .. n /\ n - (k + 1) = (n - 1) - k
    BY <1>1
  <2>2. /\ KeepsUp(Written(k + 1), lost + (n - (k + 1)), made, used, loose)
        /\ Leads(Written(k + 1), n - (k + 1), slot, loose)
    BY <1>n, <2>1 DEF StorageInv, ContentsInv
  <2> QED
    BY <1>0, <1>2, <2>1, <2>2
<1>8. ContentsInv'
  BY <1>1, <1>7 DEF ContentsInv
<1> QED
  BY <1>4, <1>6, <1>8 DEF StorageInv

\* No slot is left by an erasure.
LEMMA EraseStep ==
    ASSUME StorageInv, OtpInv', Erase
    PROVE  StorageInv'
<1>1. /\ slot' = [s \in Slots |-> Empty] /\ flashed' = Files' /\ pending' = <<>>
      /\ UNCHANGED <<made, lost, used, loose>>
  BY DEF Erase, Reset, typing
<1>2. flashed' = [s \in Slots |-> Empty]
  BY <1>1 DEF Files, Plain
<1>3. Len(pending') = 0 /\ Released' = flashed' /\ \A k \in 0 .. 0 : Written(k)' = flashed'
  BY <1>1 DEF Released, Written
<1>4. StorageTypes'
  BY <1>1, <1>2 DEF StorageInv, StorageTypes, Flashes
<1>5. PresentInv'
  BY <1>1, <1>2, <1>3 DEF PresentInv, KeepsUp, Alone, Level, Held, Counting
<1>6. ContentsInv'
  BY <1>1, <1>2, <1>3 DEF ContentsInv, KeepsUp, Leads, Counting
<1> QED
  BY <1>4, <1>5, <1>6 DEF StorageInv

\* Nothing of the storage's invariant is about the RAM.
LEMMA RestingStep ==
    ASSUME StorageInv, OtpInv', UNCHANGED <<slot, made, flashed, pending, lost, used, loose>>
    PROVE  StorageInv'
<1>1. StorageTypes'
  BY DEF StorageInv, StorageTypes
<1>2. PresentInv'
  BY DEF StorageInv, PresentInv, Released
<1>3. ContentsInv'
  BY DEF StorageInv, ContentsInv, Written
<1> QED
  BY <1>1, <1>2, <1>3 DEF StorageInv

\* A cut goes back to a content, torn or not, and loses the releases after it.
LEMMA CutStep ==
    ASSUME StorageInv, PowerCut
    PROVE  StorageInv' /\ (lost' = lost => Held(slot', slot))
<1>n. PICK n \in Nat : n = Len(pending)
  BY DEF StorageInv, StorageTypes
<1>0. /\ flashed \in Flashes /\ pending \in Seq(Flashes) /\ Released = Written(n) /\ lost \in Nat
      /\ \A k \in 0 .. n : Written(k) \in Flashes
      /\ used \in [Ids -> Nat] /\ loose \subseteq Ids /\ UNCHANGED <<made, out>>
  BY <1>n, ReleasedIsLast DEF StorageInv, StorageTypes, PowerCut
<1>1. PICK k \in 0 .. n :
        \E left \in {Written(k)} \cup (IF k < n THEN TornAt(k + 1) ELSE {}) :
            /\ slot' = left /\ flashed' = left /\ pending' = <<>>
            /\ session' = [s \in Slots |-> 0] /\ scanned' = FALSE
            /\ lost' = lost + n - k
            /\ Loosen(Twins(left))
  BY <1>n DEF PowerCut
<1>2. PICK left \in {Written(k)} \cup (IF k < n THEN TornAt(k + 1) ELSE {}) :
            /\ slot' = left /\ flashed' = left /\ pending' = <<>>
            /\ session' = [s \in Slots |-> 0] /\ scanned' = FALSE
            /\ lost' = lost + n - k
            /\ Loosen(Twins(left))
  BY <1>1
<1>3. \A t \in Slots : left[t] = Written(k)[t] \/ (k < n /\ left[t] = Written(k + 1)[t])
  <2>1. CASE left = Written(k)
    BY <2>1
  <2>2. CASE k < n /\ left \in TornAt(k + 1)
    <3>1. PICK s \in Slots : left = [Written(k) EXCEPT ![s] = pending[k + 1][s]]
      BY <2>2 DEF TornAt
    <3>2. Written(k + 1) = pending[k + 1] /\ Written(k) \in Flashes
      BY <1>0 DEF Written
    <3> QED
      BY <1>0, <2>2, <3>1, <3>2 DEF Flashes
  <2> QED
    BY <1>2, <2>1, <2>2
<1>4. left \in Flashes
  <2>1. CASE left = Written(k)
    BY <1>0, <2>1
  <2>2. CASE k < n /\ left \in TornAt(k + 1)
    <3>1. PICK s \in Slots : left = [Written(k) EXCEPT ![s] = pending[k + 1][s]]
      BY <2>2 DEF TornAt
    <3>2. Written(k + 1) = pending[k + 1] /\ Written(k) \in Flashes /\ Written(k + 1) \in Flashes
      BY <1>0, <2>2 DEF Written
    <3> QED
      BY <3>1, <3>2 DEF Flashes
  <2> QED
    BY <1>2, <2>1, <2>2
<1>5. ASSUME NEW s \in Slots, left[s] # Empty
      PROVE  /\ left[s] \in Configs /\ left[s].id \in Ids /\ left[s].id <= made
             /\ Counting(left[s], loose) =>
                  /\ left[s].count # Lost /\ N(left[s]) \in Nat
                  /\ used[left[s].id] <= N(left[s]) + lost' + Slack(left[s])
  <2>0. left[s] \in Configs /\ left[s].id \in Ids /\ (left[s].count # Lost => N(left[s]) \in Nat)
    BY <1>4, <1>5, CounterType DEF Flashes, Plains, Ids
  <2>1. CASE left[s] = Written(k)[s]
    <3>1. KeepsUp(Written(k), lost + (n - k), made, used, loose)
      BY <1>n DEF StorageInv, ContentsInv
    <3>2. /\ left[s].id <= made
          /\ Counting(left[s], loose) =>
               left[s].count # Lost /\ used[left[s].id] <= N(left[s]) + (lost + (n - k)) + Slack(left[s])
      BY <1>5, <2>1, <3>1 DEF KeepsUp
    <3>3. lost' = lost + (n - k)
      BY <1>0, <1>2
    <3> QED
      BY <2>0, <3>2, <3>3
  <2>2. CASE k < n /\ left[s] = Written(k + 1)[s]
    <3>1. KeepsUp(Written(k + 1), lost + (n - (k + 1)), made, used, loose)
      BY <1>n, <2>2 DEF StorageInv, ContentsInv
    <3>2. /\ left[s].id <= made
          /\ Counting(left[s], loose) =>
               /\ left[s].count # Lost
               /\ used[left[s].id] <= N(left[s]) + (lost + (n - (k + 1))) + Slack(left[s])
      BY <1>5, <2>2, <3>1 DEF KeepsUp
    <3>3. ASSUME Counting(left[s], loose)
          PROVE  used[left[s].id] <= N(left[s]) + lost' + Slack(left[s])
      BY <1>0, <1>2, <2>0, <2>2, <3>2, <3>3 DEF Slack
    <3> QED
      BY <2>0, <3>2, <3>3
  <2> QED
    BY <1>3, <2>1, <2>2
<1>6. /\ loose \subseteq loose' /\ loose' \subseteq Ids /\ used' \in [Ids -> Nat]
      /\ \A i \in Ids \ loose' : used'[i] = used[i]
      /\ \A i \in Ids : i > made' => used'[i] = 0
      /\ \A i \in Twins(left) : i \in loose'
  BY <1>0, <1>2 DEF Loosen, Twins, StorageInv, StorageTypes
<1>7. Alone(left, loose')
  <2> SUFFICES ASSUME NEW s \in Slots, NEW t \in Slots, Counting(left[s], loose'), left[t] # Empty,
                      left[t].id = left[s].id, s # t
               PROVE  FALSE
    BY DEF Alone
  <2>1. left[s] # Empty /\ left[s].id \in Ids /\ left[s].id \notin loose'
    BY <1>5 DEF Counting
  <2>2. \A u \in Slots : u = s \/ u = t
    BY DEF Slots
  <2>3. left[s].id \in Twins(left)
    BY <2>1, <2>2 DEF Twins
  <2> QED
    BY <1>6, <2>1, <2>3
<1>8. KeepsUp(left, lost', made', used', loose')
  <2> SUFFICES ASSUME NEW s \in Slots, left[s] # Empty
               PROVE  /\ left[s].id <= made'
                      /\ Counting(left[s], loose') =>
                           /\ left[s].count # Lost
                           /\ used'[left[s].id] <= N(left[s]) + lost' + Slack(left[s])
    BY DEF KeepsUp
  <2>1. Counting(left[s], loose') => Counting(left[s], loose) /\ left[s].id \in Ids \ loose'
    BY <1>5, <1>6 DEF Counting
  <2> QED
    BY <1>0, <1>5, <1>6, <2>1
<1>9. /\ Level(left, left, loose') /\ Leads(left, 0, left, loose') /\ Held(left, left)
  <2>1. ASSUME NEW s \in Slots, NEW t \in Slots, left[s] # Empty, left[t] # Empty, left[s].id = left[t].id,
               Counting(left[s], loose') \/ Counting(left[t], loose')
        PROVE  s = t /\ N(left[s]) \in Nat
    <3>1. s = t /\ Counting(left[s], loose')
      BY <1>7, <2>1 DEF Alone
    <3>2. Counting(left[s], loose)
      BY <1>6, <3>1 DEF Counting
    <3> QED
      BY <1>5, <2>1, <3>1, <3>2
  <2>2. Level(left, left, loose')
    BY <2>1 DEF Level, Counting
  <2>3. Leads(left, 0, left, loose')
    BY <2>1 DEF Leads, Counting
  <2> QED
    BY <2>2, <2>3 DEF Held
<1>10. Len(pending') = 0 /\ Released' = left /\ \A j \in 0 .. 0 : Written(j)' = left
  BY <1>2 DEF Released, Written
<1>11. PresentInv' /\ ContentsInv'
  <2>1. lost' \in Nat /\ lost' + 0 = lost'
    BY <1>0, <1>2
  <2>2. PresentInv'
    BY <1>2, <1>7, <1>8, <1>9, <1>10 DEF PresentInv
  <2>3. ASSUME NEW j \in 0 .. 0
        PROVE  /\ KeepsUp(Written(j)', lost' + (0 - j), made', used', loose')
               /\ Leads(Written(j)', 0 - j, slot', loose')
    <3>0. j = 0
      OBVIOUS
    <3>1. 0 - j = 0
      BY <3>0
    <3> QED
      BY <1>2, <1>8, <1>9, <1>10, <2>1, <3>1
  <2>4. ContentsInv'
    BY <1>10, <2>3 DEF ContentsInv
  <2> QED
    BY <2>2, <2>4
<1>12. StorageTypes'
  BY <1>0, <1>2, <1>4, <1>6 DEF StorageTypes
<1>13. OtpInv'
  <2>1. ASSUME NEW s \in Slots
        PROVE  /\ left[s] \in Configs \cup {Empty} /\ Covered(left[s]) /\ \A m : Ahead(left[s], m)
               /\ left[s] # Empty /\ left[s].mode = "otp" /\ left[s].count # Lost => left[s].count <= CtrMax
    BY <1>4 DEF Flashes, Plains, Covered, Ahead
  <2>2. left \in [Slots -> Configs \cup {Empty}]
    BY <1>4 DEF Flashes, Plains
  <2>3. cmd' \in [name : Commands, acc : AccCodes \cup {None}] /\ session' \in [Slots -> 0 .. SessMod - 1]
    BY <1>2, CounterAssumption DEF PowerCut, Commands
  <2>4. TypeOK'
    BY <1>0, <1>2, <2>1, <2>2, <2>3 DEF StorageInv, OtpInv, TypeOK
  <2>5. SlotsOK(slot', session', scanned')
    BY <1>2, <2>1 DEF SlotsOK
  <2>6. CodeGrew'
    BY <1>0 DEF StorageInv, OtpInv, CodeGrew, Saturated, Before
  <2> QED
    BY <2>4, <2>5, <2>6 DEF OtpInv
<1>14. ASSUME lost' = lost PROVE Held(slot', slot)
  <2>1. k = n /\ left = Released
    BY <1>0, <1>2, <1>14
  <2> QED
    BY <1>2, <2>1 DEF StorageInv, PresentInv
<1> QED
  BY <1>11, <1>12, <1>13, <1>14 DEF StorageInv

(***************************************************************************)
(* The commands                                                            *)
(***************************************************************************)

\* A command that moves the configurations, each with its counter raised by q at most.
LEMMA Moved ==
    ASSUME StorageInv, OtpInv', NEW q \in {0, 1}, UNCHANGED <<lost, made>>,
           NEW f \in [Slots -> Slots], \A s, t \in Slots : f[s] = f[t] => s = t,
           loose \subseteq loose', loose' \subseteq Ids, used' \in [Ids -> Nat],
           \A i \in Ids : i > made => used'[i] = 0,
           \A i \in Ids \ loose' :
              \/ used'[i] <= used[i]
              \/ \E t \in Slots : /\ slot'[t] # Empty /\ slot'[t].id = i /\ slot'[t].mode # "other"
                                  /\ used'[i] <= N(slot'[t]) + Slack(slot'[t]),
           \A t \in Slots : slot'[t] # Empty =>
              /\ slot[f[t]] # Empty /\ slot[f[t]].id = slot'[t].id
              /\ slot'[t].id \notin loose' => Grown(slot[f[t]], slot'[t], q)
    PROVE  Evolves(q) /\ \A t \in Slots : slot'[t] # Empty => slot'[t].id <= made
<1>1. made \in Nat /\ made' = made /\ lost' = lost /\ \A t \in Slots : f[t] \in Slots
  BY DEF StorageInv, OtpInv, TypeOK
<1>2. \A u \in Slots : slot[u] # Empty => slot[u].id <= made
  BY DEF StorageInv, PresentInv, KeepsUp
<1>3. Alone(slot', loose')
  <2> SUFFICES ASSUME NEW s \in Slots, NEW t \in Slots, Counting(slot'[s], loose'), slot'[t] # Empty,
                      slot'[t].id = slot'[s].id
               PROVE  s = t
    BY DEF Alone
  <2>1. slot'[s] # Empty /\ slot'[s].mode # "other" /\ slot'[s].id \notin loose' /\ slot'[s].id \notin loose
    BY DEF Counting
  <2>2. Counting(slot[f[s]], loose) /\ slot[f[t]] # Empty /\ slot[f[t]].id = slot[f[s]].id
    BY <2>1 DEF Counting, Grown
  <2>3. f[s] = f[t]
    BY <1>1, <2>2 DEF StorageInv, PresentInv, Alone
  <2> QED
    BY <2>3
<1>4. ASSUME NEW t \in Slots, slot'[t] # Empty
      PROVE  /\ slot'[t].id <= made'
             /\ \E u \in Slots : /\ slot[u] # Empty /\ slot[u].id = slot'[t].id
                                 /\ slot'[t].id \notin loose' => Grown(slot[u], slot'[t], q)
  <2>1. /\ f[t] \in Slots /\ slot[f[t]] # Empty /\ slot[f[t]].id = slot'[t].id
        /\ slot'[t].id \notin loose' => Grown(slot[f[t]], slot'[t], q)
    BY <1>1, <1>4
  <2>2. slot'[t].id <= made'
    BY <1>1, <1>2, <2>1
  <2> QED
    BY <2>1, <2>2
<1> QED
  BY <1>1, <1>3, <1>4 DEF Evolves

\* An unsteady slot keeps its counter.
LEMMA UnsteadyGrows ==
    ASSUME NEW r \in Configs, NEW q \in {0, 1}, r.mode # "other" /\ r.count # Lost => N(r) \in Nat
    PROVE  Unsteady(r) # Empty /\ Unsteady(r).id = r.id /\ Grown(r, Unsteady(r), q) /\ Grown(r, r, q)
<1>1. r # Empty
  BY EmptyAssumption
<1>2. CASE r.mode # "otp"
  BY <1>1, <1>2 DEF Unsteady, Grown
<1>3. CASE r.mode = "otp"
  <2> DEFINE x == [r EXCEPT !.steady = r.steady /\ r.last = None]
  <2>1. Unsteady(r) = x
    BY <1>1, <1>3 DEF Unsteady
  <2>2. /\ x \in Configs /\ x.id = r.id /\ x.mode = r.mode /\ x.count = r.count /\ x.seed = r.seed
    BY DEF Configs
  <2>3. x # Empty /\ N(x) = N(r)
    BY <2>2, EmptyAssumption DEF N, NextCounter
  <2> HIDE DEF x
  <2> QED
    BY <1>1, <2>1, <2>2, <2>3 DEF Grown
<1> QED
  BY <1>2, <1>3

\* otp_status() moves nothing.
LEMMA ReportEvolves ==
    ASSUME StorageInv, OtpInv', UNCHANGED <<lost, made, used, loose>>,
           NEW slots \in [Slots -> Configs \cup {Empty}], Reported(slots),
           \A s \in Slots : slots[s] # Empty => slots[s] = slot[s]
    PROVE  Evolves(0) /\ \A t \in Slots : slot'[t] # Empty => slot'[t].id <= made
<1> DEFINE f == [t \in Slots |-> t]
<1>1. f \in [Slots -> Slots] /\ \A t \in Slots : f[t] = t
  OBVIOUS
<1>2. ASSUME NEW t \in Slots, slot'[t] # Empty
      PROVE  slot[t] # Empty /\ slot[t].id = slot'[t].id /\ Grown(slot[t], slot'[t], 0)
  <2>1. slot'[t] = slots[t] \/ slot'[t] = Unsteady(slots[t])
    BY DEF Reported
  <2>2. slots[t] # Empty /\ slots[t] = slot[t] /\ slots[t] \in Configs
    BY <1>2, <2>1 DEF Unsteady
  <2> QED
    BY <2>1, <2>2, UnsteadyGrows, CounterType
<1> HIDE DEF f
<1> QED
  BY <1>1, <1>2, Moved DEF StorageInv, StorageTypes

\* A swap takes each configuration to the other slot.
LEMMA ExchangeEvolves ==
    ASSUME StorageInv, OtpInv', Exchange
    PROVE  Evolves(1)
<1> DEFINE f == [t \in Slots |-> 3 - t]
<1>1. f \in [Slots -> Slots] /\ \A t \in Slots : f[t] = 3 - t /\ 3 - t \in Slots
  BY DEF Slots
<1>2. \A s, t \in Slots : f[s] = f[t] => s = t
  BY DEF Slots
<1>3. /\ slot' = [s \in Slots |-> Unsteady(slot[3 - s])] /\ UNCHANGED <<made, lost, used, loose>>
      /\ slot \in [Slots -> Configs \cup {Empty}]
  BY DEF Exchange, Swap, Release, typing, StorageInv, OtpInv, TypeOK
<1>4. ASSUME NEW t \in Slots, slot'[t] # Empty
      PROVE  /\ slot[f[t]] # Empty /\ slot[f[t]].id = slot'[t].id
             /\ slot'[t].id \notin loose' => Grown(slot[f[t]], slot'[t], 1)
  <2>1. 3 - t \in Slots /\ slot'[t] = Unsteady(slot[3 - t])
    BY <1>1, <1>3
  <2>2. slot[3 - t] # Empty /\ slot[3 - t] \in Configs
    BY <1>3, <1>4, <2>1 DEF Unsteady
  <2> QED
    BY <1>1, <2>1, <2>2, UnsteadyGrows, CounterType
<1>5. /\ loose \subseteq loose' /\ loose' \subseteq Ids /\ used' \in [Ids -> Nat]
      /\ \A i \in Ids : i > made => used'[i] = 0
      /\ \A i \in Ids \ loose' : used'[i] <= used[i]
  BY <1>3 DEF StorageInv, StorageTypes
<1>6. f \in [Slots -> Slots]
  BY <1>1
<1> HIDE DEF f
<1> QED
  BY <1>2, <1>3, <1>4, <1>5, <1>6, Moved

\* The scan raises a usage counter by one.
LEMMA ScanEvolves ==
    ASSUME StorageInv, OtpInv', Scan
    PROVE  Evolves(1)
<1> DEFINE f == [t \in Slots |-> t]
<1>1. f \in [Slots -> Slots] /\ \A t \in Slots : f[t] = t
  OBVIOUS
<1>2. /\ UNCHANGED <<made, lost, used, loose>> /\ slot \in [Slots -> Configs \cup {Empty}]
      /\ \A t \in Slots : slot'[t] \in Raised(slot[t])
  <2>1. ~scanned /\ slot' \in AfterInit
    BY DEF Scan, InitOtp
  <2>2. PICK one \in Raised(slot[1]), two \in Raised(slot[2]) :
            slot' = [s \in Slots |-> IF s = 1 THEN one ELSE two]
    BY <2>1 DEF AfterInit
  <2>3. \A s \in Slots : (s = 1 /\ slot'[s] = one) \/ (s = 2 /\ slot'[s] = two)
    BY <2>2 DEF Slots
  <2> QED
    BY <2>2, <2>3 DEF Scan, InitOtp, Release, typing, StorageInv, OtpInv, TypeOK
<1>3. ASSUME NEW t \in Slots, slot'[t] # Empty
      PROVE  /\ slot[t] # Empty /\ slot[t].id = slot'[t].id
             /\ (slot'[t].id \notin loose => Grown(slot[t], slot'[t], 1))
  <2> DEFINE r == slot[t]
  <2>1. r # Empty /\ r \in Configs /\ Covered(r)
    BY <1>2, <1>3 DEF Raised, StorageInv, OtpInv, SlotsOK
  <2>2. SameId(r, slot'[t]) /\ slot'[t] \in Raised(r)
    BY <1>2, <2>1, RaisedSlot DEF Contents
  <2>3. ASSUME r.id \notin loose PROVE Grown(r, slot'[t], 1)
    <3>1. CASE r.mode # "otp"
      <4>1. slot'[t] = r
        BY <2>2, <3>1 DEF Raised
      <4> QED
        BY <2>1, <4>1, CounterType DEF Grown
    <3>2. CASE r.mode = "otp"
      <4>1. r.count # Lost
        BY <2>1, <2>3, <3>2 DEF StorageInv, PresentInv, KeepsUp, Counting
      <4>2. r.count \in Counters /\ r.count <= CtrMax
        BY <2>1, <3>2, <4>1 DEF Covered, Configs
      <4>3. (r.count + 1) % CtrMod = r.count + 1 /\ r.count + 1 # Lost
        <5>1. r.count \in Nat /\ r.count + 1 < CtrMod /\ r.count + 1 \in Counters
          BY <4>2, CounterAssumption DEF Counters
        <5> QED
          BY <5>1, MarkAssumption, CounterAssumption
      <4> DEFINE x == [r EXCEPT !.count = r.count + 1, !.steady = TRUE]
      <4>4. slot'[t] = x \/ slot'[t] = r
        BY <2>1, <2>2, <3>2, <4>1, <4>3 DEF Raised, Reads
      <4>5. x.id = r.id /\ x.mode = r.mode /\ x.count = r.count + 1 /\ x.seed = r.seed
        BY <2>1 DEF Configs
      <4> HIDE DEF x
      <4>6. CASE slot'[t] = x
        <5>1. r.count \in Nat /\ N(r) = (IF r.count # 0 THEN r.count ELSE 1) /\ N(x) = r.count + 1
          BY <3>2, <4>2, <4>5, CounterAssumption DEF N, NextCounter, Counters
        <5> QED
          BY <2>1, <3>2, <4>3, <4>5, <4>6, <5>1 DEF Grown
      <4>7. CASE slot'[t] = r
        BY <2>1, <4>7, CounterType DEF Grown
      <4> QED
        BY <4>4, <4>6, <4>7
    <3> QED
      BY <3>1, <3>2
  <2> QED
    BY <2>1, <2>2, <2>3 DEF SameId
<1> HIDE DEF f
<1> QED
  BY <1>1, <1>2, <1>3, Moved DEF StorageInv, StorageTypes

\* An update gives up on the counter.
LEMMA ChangeEvolves ==
    ASSUME StorageInv, OtpInv', NEW s \in Slots, NEW acc \in AccCodes, NEW presented \in AccCodes,
           Change(s, acc, presented)
    PROVE  Evolves(1)
<1> DEFINE f == [t \in Slots |-> t]
           r == slot[s]
           x == [r EXCEPT !.acc = acc, !.count = Lost, !.last = None]
<1>1. f \in [Slots -> Slots] /\ \A t \in Slots : f[t] = t
  OBVIOUS
<1>2. /\ slot \in [Slots -> Configs \cup {Empty}] /\ r \in Configs /\ r # Empty
      /\ slot' = [slot EXCEPT ![s] = x] /\ UNCHANGED <<made, lost>> /\ Loosen({r.id})
      /\ loose \subseteq Ids /\ used \in [Ids -> Nat] /\ \A i \in Ids : i > made => used[i] = 0
  BY DEF Change, Update, Release, StorageInv, StorageTypes, OtpInv, TypeOK
<1>3. r.id \in Ids /\ x.id = r.id
  BY <1>2 DEF Configs, Ids
<1>4. /\ loose \subseteq loose' /\ loose' \subseteq Ids /\ used' \in [Ids -> Nat] /\ r.id \in loose'
      /\ \A i \in Ids : i > made => used'[i] = 0
      /\ \A i \in Ids \ loose' : used'[i] <= used[i]
  BY <1>2, <1>3 DEF Loosen
<1> HIDE DEF x
<1>5. ASSUME NEW t \in Slots, slot'[t] # Empty
      PROVE  /\ slot[t] # Empty /\ slot[t].id = slot'[t].id
             /\ (slot'[t].id \notin loose' => Grown(slot[t], slot'[t], 1))
  <2>1. CASE t = s
    BY <1>2, <1>3, <1>4, <2>1
  <2>2. CASE t # s
    BY <1>2, <1>5, <2>2, UnsteadyGrows, CounterType
  <2> QED
    BY <2>1, <2>2
<1> HIDE DEF f, r
<1> QED
  BY <1>1, <1>2, <1>4, <1>5, Moved

\* A configuration takes a new number, and the count begins.
LEMMA WriteEvolves ==
    ASSUME StorageInv, OtpInv', NEW s \in Slots, NEW mode \in Modes, NEW acc \in AccCodes, NEW seed \in Seeds,
           NEW presented \in AccCodes, Write(s, mode, acc, seed, presented)
    PROVE  Evolves(1)
<1> DEFINE x == [id |-> made + 1, mode |-> mode, acc |-> acc, seed |-> seed,
                 count |-> 0, last |-> None, steady |-> TRUE]
           slots == [slot EXCEPT ![s] = x]
<1>1. /\ made \in Nat /\ made' = made + 1 /\ made + 1 \in 1 .. MaxConfigs /\ Reported(slots)
      /\ UNCHANGED <<lost, used, loose>> /\ slot \in [Slots -> Configs \cup {Empty}]
  BY CounterAssumption DEF Write, Configure, Release, typing, StorageInv, OtpInv, TypeOK
<1>2. 0 \in Counters /\ seed \in Seeds /\ 0 # Lost
  BY CounterAssumption, MarkAssumption DEF Counters
<1>3. x \in Configs /\ x.id = made + 1 /\ x.count = 0
  BY <1>1, <1>2 DEF Configs
<1> HIDE DEF x
<1>4. slots[s] = x /\ \A t \in Slots \ {s} : slots[t] = slot[t]
  BY <1>1
<1> HIDE DEF slots
<1>5. \A t \in Slots : slot'[t] = slots[t] \/ slot'[t] = Unsteady(slots[t])
  BY <1>1 DEF Reported
<1>6. slot'[s] # Empty /\ slot'[s].id = made + 1 /\ slot'[s].count # Lost
  <2>1. Unsteady(x).id = x.id /\ Unsteady(x).count = x.count /\ Unsteady(x) # Empty
    <3> DEFINE y == [x EXCEPT !.steady = x.steady /\ x.last = None]
    <3>1. y \in Configs /\ y.id = x.id /\ y.count = x.count
      BY <1>3 DEF Configs
    <3>2. Unsteady(x) = x \/ Unsteady(x) = y
      BY DEF Unsteady
    <3> HIDE DEF y
    <3> QED
      BY <1>3, <3>1, <3>2, EmptyAssumption
  <2> QED
    BY <1>2, <1>3, <1>4, <1>5, <2>1, EmptyAssumption
<1>7. ASSUME NEW t \in Slots \ {s}, slot'[t] # Empty
      PROVE  /\ slot[t] # Empty /\ slot[t].id = slot'[t].id /\ Grown(slot[t], slot'[t], 1)
             /\ slot'[t].id <= made /\ slot'[t].id \in Nat
  <2>1. slot'[t] = slot[t] \/ slot'[t] = Unsteady(slot[t])
    BY <1>4, <1>5
  <2>2. slot[t] # Empty /\ slot[t] \in Configs
    BY <1>1, <1>7, <2>1 DEF Unsteady
  <2>3. slot[t].id = slot'[t].id /\ Grown(slot[t], slot'[t], 1)
    BY <2>1, <2>2, UnsteadyGrows, CounterType
  <2> QED
    BY <2>2, <2>3, CounterType, CounterAssumption DEF StorageInv, PresentInv, KeepsUp
<1>8. Alone(slot', loose')
  <2> SUFFICES ASSUME NEW t \in Slots, NEW u \in Slots, Counting(slot'[t], loose'), slot'[u] # Empty,
                      slot'[u].id = slot'[t].id, t # u
               PROVE  FALSE
    BY DEF Alone
  <2>1. CASE t = s \/ u = s
    BY <1>1, <1>6, <1>7, <2>1 DEF Counting
  <2>2. CASE t # s /\ u # s
    BY <2>2 DEF Slots
  <2> QED
    BY <2>1, <2>2
<1>9. ASSUME NEW t \in Slots, slot'[t] # Empty
      PROVE  /\ slot'[t].id <= made'
             /\ \/ slot'[t].id > made /\ slot'[t].count # Lost
                \/ \E u \in Slots : /\ slot[u] # Empty /\ slot[u].id = slot'[t].id
                                    /\ slot'[t].id \notin loose' => Grown(slot[u], slot'[t], 1)
  <2>1. CASE t = s
    BY <1>1, <1>6, <2>1
  <2>2. CASE t # s
    BY <1>1, <1>7, <1>9, <2>2
  <2> QED
    BY <2>1, <2>2
<1>10. /\ loose \subseteq loose' /\ loose' \subseteq Ids /\ used' \in [Ids -> Nat]
       /\ \A i \in Ids : i > made' => used'[i] = 0
       /\ \A i \in Ids \ loose' : used'[i] <= used[i]
  BY <1>1 DEF StorageInv, StorageTypes, Ids
<1> QED
  BY <1>1, <1>8, <1>9, <1>10 DEF Evolves

\* The higher of two numbers is one of them.
LEMMA MaxOfTwo ==
    ASSUME NEW a \in Nat, NEW b \in Nat
    PROVE  Max({a, b}) = a \/ Max({a, b}) = b
<1>1. \E m \in {a, b} : \A y \in {a, b} : m >= y
  <2>1. CASE a >= b
    BY <2>1
  <2>2. CASE b >= a
    BY <2>2
  <2> QED
    BY <2>1, <2>2
<1> QED
  BY <1>1 DEF Max

\* What a press does to the slot it types from.
LEMMA TypeGrows ==
    ASSUME StorageInv, OtpInv', NEW s \in Slots, scanned, Press(s), slot[s] # Empty,
           slot[s].mode # "other", slot[s].id \notin loose
    PROVE  /\ slot' = [slot EXCEPT ![s] = slot'[s]] /\ slot'[s] # Empty
           /\ Grown(slot[s], slot'[s], 1)
           /\ out'.code[1] \in Nat
           /\ out'.code[1] + 1 <= N(slot'[s]) + Slack(slot'[s])
<1> DEFINE r == slot[s]
<1>1. /\ r \in Configs /\ r.count # Lost /\ r.count \in Counters /\ r.seed \in Seeds /\ N(r) \in Nat
      /\ slot \in [Slots -> Configs \cup {Empty}] /\ session[s] \in Nat
  <2>1. r \in Configs /\ Counting(r, loose) /\ slot \in [Slots -> Configs \cup {Empty}]
        /\ session \in [Slots -> 0 .. SessMod - 1]
    BY DEF StorageInv, OtpInv, TypeOK, Counting
  <2>2. r.count # Lost
    BY <2>1 DEF StorageInv, PresentInv, KeepsUp, Counting
  <2> QED
    BY <2>1, <2>2, CounterType, CounterAssumption DEF Configs
<1>2. AfterInit = {slot} /\ Reads(r.count) = {r.count}
  BY <1>1 DEF AfterInit, Reads
<1>3. ASSUME NEW count \in Counters, NEW code, Typed(slot, s, count, code), code[1] \in Nat,
             code[1] = N(r), count \in Nat, count = N(r) \/ count = N(r) + 1,
             count = 0 => FALSE, r.mode = "hotp" => count = N(r) + 1
      PROVE  /\ slot' = [slot EXCEPT ![s] = slot'[s]] /\ slot'[s] # Empty
             /\ Grown(r, slot'[s], 1)
             /\ out'.code[1] \in Nat
             /\ out'.code[1] + 1 <= N(slot'[s]) + Slack(slot'[s])
  <2> DEFINE x == [r EXCEPT !.count = count, !.last = code]
  <2>1. slot' = [slot EXCEPT ![s] = x] /\ out'.code = code
    BY <1>1, <1>3 DEF Typed
  <2>2. slot'[s] = x /\ slot' = [slot EXCEPT ![s] = slot'[s]]
    BY <1>1, <2>1
  <2>3. x.id = r.id /\ x.mode = r.mode /\ x.count = count /\ x.seed = r.seed
    BY <1>1 DEF Configs
  <2>4. slot'[s] # Empty
    BY PressStep DEF SameId, StorageInv
  <2> HIDE DEF x
  <2>5. N(x) = count /\ count # Lost /\ r.mode \in Modes
    BY <1>1, <1>3, <2>3, MarkAssumption DEF N, NextCounter, Configs
  <2>6. Grown(r, x, 1)
    BY <1>1, <1>3, <2>3, <2>5 DEF Grown
  <2>7. code[1] + 1 <= N(x) + Slack(x)
    BY <1>1, <1>3, <2>3, <2>5 DEF Slack, Modes
  <2> QED
    BY <1>3, <2>1, <2>2, <2>4, <2>6, <2>7
<1>4. CASE PressSilent(s)
  BY <1>2, <1>4 DEF PressSilent
<1>5. CASE PressHotp(s)
  <2> DEFINE first == IF r.count = 0 THEN r.seed ELSE r.count
  <2>1. r.mode = "hotp" /\ r.count < CtrMod - 1 /\ Typed(slot, s, (first + 1) % CtrMod, <<first, 0>>)
    BY <1>1, <1>2, <1>5 DEF PressHotp
  <2>2. first = N(r)
    BY <2>1 DEF N, NextCounter
  <2>3. first \in Nat /\ first < CtrMod - 1
    <3>1. /\ r.seed \in 0 .. CtrMod - 2 /\ CtrMod \in Nat /\ r.count \in 0 .. CtrMod - 1
          /\ r.count < CtrMod - 1
      BY <1>1, <2>1, CounterAssumption DEF Counters
    <3> QED
      BY <3>1
  <2> HIDE DEF first
  <2>4. (first + 1) % CtrMod = first + 1 /\ first + 1 \in Counters
    BY <2>3, CounterAssumption DEF Counters
  <2>5. <<first, 0>>[1] = first
    OBVIOUS
  <2> QED
    BY <1>3, <2>1, <2>2, <2>3, <2>4, <2>5
<1>6. CASE PressOtp(s)
  <2> DEFINE counter == IF r.count = 0 THEN 1 ELSE r.count
             wraps   == session[s] + 1 = SessMod
             next    == IF wraps THEN (counter + 1) % CtrMod ELSE counter
             count   == IF r.count = 0 \/ (wraps /\ next <= CtrMax) THEN next ELSE r.count
  <2>1. r.mode = "otp" /\ Typed(slot, s, count, <<counter, session[s]>>)
    BY <1>1, <1>2, <1>6 DEF PressOtp
  <2>2. counter = N(r) /\ counter \in Nat /\ counter > 0 /\ r.count <= CtrMax
    BY <1>1, <2>1, CounterAssumption DEF N, NextCounter, Counters, StorageInv, OtpInv, TypeOK
  <2>3. counter <= CtrMax /\ counter + 1 < CtrMod /\ (counter + 1) % CtrMod = counter + 1
    BY <2>2, CounterAssumption
  <2>4. count \in Counters /\ count \in Nat /\ (count = counter \/ count = counter + 1)
    BY <1>1, <2>2, <2>3, CounterAssumption DEF Counters
  <2>5. <<counter, session[s]>>[1] = counter
    OBVIOUS
  <2> HIDE DEF counter, wraps, next, count
  <2> QED
    BY <1>3, <2>1, <2>2, <2>4, <2>5
<1> QED
  BY <1>4, <1>5, <1>6 DEF Press

\* A press raises the counter, and types one that the raised one covers.
LEMMA TypeEvolves ==
    ASSUME StorageInv, OtpInv', NEW s \in Slots, Type(s)
    PROVE  Evolves(1) /\ \A t \in Slots : slot'[t] # Empty => slot'[t].id <= made
<1> DEFINE f == [t \in Slots |-> t]
           r == slot[s]
<1>1. f \in [Slots -> Slots] /\ \A t \in Slots : f[t] = t
  OBVIOUS
<1>2. /\ scanned /\ Press(s) /\ Count(s) /\ UNCHANGED <<lost, made, loose>>
      /\ slot \in [Slots -> Configs \cup {Empty}] /\ loose \subseteq Ids /\ used \in [Ids -> Nat]
      /\ \A i \in Ids : i > made => used[i] = 0
  BY DEF Type, Press, Count, NoRelease, Release, StorageInv, StorageTypes, OtpInv, TypeOK
<1> HIDE DEF f
<1>a. /\ \A t \in Slots : SameId(slot[t], slot'[t])
      /\ \A t \in Slots : slot[t] # Empty => slot[t].id <= made
      /\ \A t \in Slots : slot'[t] # Empty => slot'[t] \in Configs
  BY <1>2, PressStep DEF StorageInv, PresentInv, KeepsUp, OtpInv, TypeOK
<1>b. \/ slot' = slot
      \/ /\ r # Empty /\ r.mode # "other"
         /\ \A t \in Slots \ {s} : slot'[t] = slot[t]
  <2>1. AfterInit = {slot}
    BY <1>2 DEF AfterInit
  <2>2. CASE PressSilent(s)
    BY <2>1, <2>2 DEF PressSilent
  <2>3. CASE PressHotp(s) \/ PressOtp(s)
    <3>a. ASSUME PressHotp(s)
          PROVE  \E count, code : Typed(slot, s, count, code) /\ r # Empty /\ r.mode # "other"
      BY <2>1, <3>a DEF PressHotp
    <3>b. ASSUME PressOtp(s)
          PROVE  \E count, code : Typed(slot, s, count, code) /\ r # Empty /\ r.mode # "other"
      BY <2>1, <3>b DEF PressOtp
    <3>1. \E count, code : Typed(slot, s, count, code) /\ r # Empty /\ r.mode # "other"
      BY <2>3, <3>a, <3>b
    <3> QED
      BY <1>2, <3>1 DEF Typed
  <2> QED
    BY <1>2, <2>2, <2>3 DEF Press
<1>3. CASE r = Empty \/ r.mode = "other" \/ r.id \in loose
  <2>1. used' = used
    BY <1>2, <1>3 DEF Count
  <2>2. ASSUME NEW t \in Slots, slot'[t] # Empty
        PROVE  /\ slot[t] # Empty /\ slot[t].id = slot'[t].id
               /\ (slot'[t].id \notin loose' => Grown(slot[t], slot'[t], 1))
    <3>1. slot[t] # Empty /\ slot[t].id = slot'[t].id /\ slot[t] \in Configs
      BY <1>2, <1>a, <2>2 DEF SameId
    <3>2. slot'[t].id \notin loose' => slot'[t] = slot[t]
      BY <1>2, <1>3, <1>b, <3>1
    <3> QED
      BY <3>1, <3>2, UnsteadyGrows, CounterType
  <2>3. Evolves(1)
    BY <1>1, <1>2, <2>1, <2>2, Moved
  <2> QED
    BY <1>a, <2>3 DEF SameId
<1>4. CASE r # Empty /\ r.mode # "other" /\ r.id \notin loose
  <2>1. /\ slot'[s] # Empty /\ Grown(r, slot'[s], 1) /\ out'.code[1] \in Nat
        /\ out'.code[1] + 1 <= N(slot'[s]) + Slack(slot'[s])
    BY <1>2, <1>4, TypeGrows
  <2>2. r.id \in Ids /\ used' = [used EXCEPT ![r.id] = Max({used[r.id], out'.code[1] + 1})]
    BY <1>2, <1>4 DEF Count, Configs, Ids
  <2>3. Max({used[r.id], out'.code[1] + 1}) \in {used[r.id], out'.code[1] + 1} /\ used[r.id] \in Nat
    BY <1>2, <2>1, <2>2, MaxOfTwo
  <2>4. used' \in [Ids -> Nat] /\ \A i \in Ids \ {r.id} : used'[i] = used[i]
    BY <1>2, <2>1, <2>2, <2>3
  <2>5. used'[r.id] = used[r.id] \/ used'[r.id] = out'.code[1] + 1
    BY <1>2, <2>2, <2>3
  <2>6. slot'[s].id = r.id /\ slot'[s].mode = r.mode
    BY <2>1 DEF Grown
  <2>7. ASSUME NEW i \in Ids \ loose'
        PROVE  \/ used'[i] <= used[i]
               \/ \E t \in Slots : /\ slot'[t] # Empty /\ slot'[t].id = i /\ slot'[t].mode # "other"
                                   /\ used'[i] <= N(slot'[t]) + Slack(slot'[t])
    BY <1>2, <1>4, <2>1, <2>4, <2>5, <2>6
  <2>8. \A i \in Ids : i > made => used'[i] = 0
    <3>1. r.id <= made /\ r.id \in Nat /\ made \in Nat
      BY <1>a, <1>4, <2>2, CounterAssumption DEF Ids, StorageInv, OtpInv, TypeOK
    <3> QED
      BY <1>2, <2>4, <3>1, CounterAssumption DEF Ids
  <2>9. ASSUME NEW t \in Slots, slot'[t] # Empty
        PROVE  /\ slot[t] # Empty /\ slot[t].id = slot'[t].id
               /\ (slot'[t].id \notin loose' => Grown(slot[t], slot'[t], 1))
    <3>1. CASE t = s
      BY <1>4, <2>1, <2>6, <3>1
    <3>2. CASE t # s
      <4>1. slot'[t] = slot[t] /\ slot[t] \in Configs
        BY <1>2, <1>b, <2>9, <3>2
      <4> QED
        BY <2>9, <4>1, UnsteadyGrows, CounterType
    <3> QED
      BY <3>1, <3>2
  <2>10. Evolves(1)
    BY <1>1, <1>2, <2>4, <2>7, <2>8, <2>9, Moved
  <2> QED
    BY <1>a, <2>10 DEF SameId
<1> QED
  BY <1>3, <1>4

(***************************************************************************)
(* Theorems                                                                *)
(***************************************************************************)

\* Every step but a cut is one of Otp, or leaves its variables.
LEMMA StorageSteps ==
    ASSUME [StorageNext]_storageVars, ~PowerCut
    PROVE  [Next]_vars
BY DEF StorageNext, storageVars, Next, Report, Scan, Write, Clear, Change, Exchange, Type, Erase, Flush,
       PowerOff

\* What any step does to the invariant.
LEMMA StorageStep ==
    ASSUME StorageInv, [StorageNext]_storageVars
    PROVE  StorageInv'
<1>0. ~PowerCut => OtpInv'
  BY StorageSteps, OtpStep DEF StorageInv
<1>1. CASE PowerCut
  BY <1>1, CutStep
<1>2. CASE Report /\ OtpInv'
  <2>1. /\ Reported(slot) /\ UNCHANGED <<lost, made, used, loose>> /\ NoRelease
        /\ slot \in [Slots -> Configs \cup {Empty}]
    BY <1>2 DEF Report, Status, NoRelease, typing, StorageInv, OtpInv, TypeOK
  <2>2. Evolves(0) /\ \A t \in Slots : slot'[t] # Empty => slot'[t].id <= made
    BY <1>2, <2>1, ReportEvolves
  <2> QED
    BY <1>2, <2>1, <2>2, Unreleased
<1>3. ASSUME NEW s \in Slots, NEW presented \in AccCodes, Clear(s, presented), OtpInv'
      PROVE  StorageInv'
  <2> DEFINE slots == [slot EXCEPT ![s] = Empty]
  <2>1. /\ Reported(slots) /\ UNCHANGED <<lost, made, used, loose>> /\ NoRelease
        /\ slot \in [Slots -> Configs \cup {Empty}]
    BY <1>3 DEF Clear, DeleteSlot, NoRelease, typing, StorageInv, OtpInv, TypeOK
  <2>2. slots \in [Slots -> Configs \cup {Empty}] /\ \A t \in Slots : slots[t] # Empty => slots[t] = slot[t]
    BY <2>1
  <2> HIDE DEF slots
  <2>3. Evolves(0) /\ \A t \in Slots : slot'[t] # Empty => slot'[t].id <= made
    BY <1>3, <2>1, <2>2, ReportEvolves
  <2> QED
    BY <1>3, <2>1, <2>3, Unreleased
<1>4. CASE Scan /\ OtpInv'
  BY <1>4, ScanEvolves, Releasing DEF Scan
<1>5. CASE Exchange /\ OtpInv'
  BY <1>5, ExchangeEvolves, Releasing DEF Exchange
<1>6. ASSUME NEW s \in Slots, NEW acc \in AccCodes, NEW presented \in AccCodes,
             Change(s, acc, presented), OtpInv'
      PROVE  StorageInv'
  <2>1. Evolves(1)
    BY <1>6, ChangeEvolves
  <2> QED
    BY <1>6, <2>1, Releasing DEF Change
<1>7. ASSUME NEW s \in Slots, NEW mode \in Modes, NEW acc \in AccCodes, NEW seed \in Seeds,
             NEW presented \in AccCodes, Write(s, mode, acc, seed, presented), OtpInv'
      PROVE  StorageInv'
  <2>1. Evolves(1)
    BY <1>7, WriteEvolves
  <2> QED
    BY <1>7, <2>1, Releasing DEF Write
<1>8. ASSUME NEW s \in Slots, Type(s), OtpInv' PROVE StorageInv'
  <2>1. Evolves(1) /\ \A t \in Slots : slot'[t] # Empty => slot'[t].id <= made
    BY <1>8, TypeEvolves
  <2>2. CASE Files' # Files
    BY <1>8, <2>1, <2>2, Releasing DEF Type
  <2>3. CASE Files' = Files
    <3>1. NoRelease
      BY <1>8, <2>3 DEF Type
    <3>2. ASSUME NEW t \in Slots, NEW u \in Slots, slot'[t] # Empty, Counting(slot'[t], loose'),
                 slot[u] # Empty, slot[u].id = slot'[t].id
          PROVE  N(slot'[t]) <= N(slot[u])
      <4>1. Plain(slot'[t]) = Plain(slot[t])
        BY <2>3 DEF Files
      <4>2. /\ slot[t] # Empty /\ slot[t].id = slot'[t].id /\ slot[t].mode = slot'[t].mode
            /\ N(slot[t]) = N(slot'[t]) /\ slot[t].count = slot'[t].count /\ slot[t] \in Configs
        BY <1>8, <3>2, <4>1, PlainSlot DEF StorageInv, OtpInv, TypeOK
      <4>3. Counting(slot[t], loose)
        BY <2>1, <3>2, <4>2 DEF Counting, Evolves
      <4>4. u = t
        BY <3>2, <4>2, <4>3 DEF StorageInv, PresentInv, Alone
      <4>5. N(slot[t]) \in Nat
        BY <4>2, <4>3, CounterType DEF StorageInv, PresentInv, KeepsUp, Counting
      <4> QED
        BY <4>2, <4>4, <4>5
    <3>3. Evolves(0)
      BY <1>8, <2>1, <3>2, Still
    <3> QED
      BY <1>8, <2>1, <3>1, <3>3, Unreleased
  <2> QED
    BY <2>2, <2>3
<1>9. CASE Erase /\ OtpInv'
  BY <1>9, EraseStep
<1>10. CASE Flush /\ OtpInv'
  BY <1>10, FlushStep
<1>11. CASE (PowerOff \/ UNCHANGED storageVars) /\ OtpInv'
  BY <1>11, RestingStep DEF PowerOff, PowerCycle, NoRelease, storageVars, vars, typing
<1> QED
  BY <1>0, <1>1, <1>2, <1>3, <1>4, <1>5, <1>6, <1>7, <1>8, <1>9, <1>10, <1>11 DEF StorageNext

\* In every reachable state, whatever the cuts took, each counter covers the last
\* code made from it, those of a steady slot are ahead of them, and no content of
\* the flash is further behind than its releases (otp_button_pressed, init_otp).
THEOREM CounterInvariant == StorageSpec => []StorageInv
<1>1. StorageInit => StorageInv
  <2> SUFFICES ASSUME StorageInit PROVE StorageInv
    OBVIOUS
  <2>0. 0 \in 0 .. SessMod - 1 /\ 0 \in 0 .. MaxConfigs
    BY CounterAssumption
  <2>1. TypeOK
    BY <2>0 DEF StorageInit, Init, TypeOK, Commands
  <2>2. SlotsOK(slot, session, scanned) /\ CodeGrew
    BY DEF StorageInit, Init, SlotsOK, Covered, CodeGrew
  <2>3. slot = [s \in Slots |-> Empty] /\ flashed = [s \in Slots |-> Empty] /\ pending = <<>>
    BY DEF StorageInit, Init, Files, Plain
  <2>4. Len(pending) = 0 /\ Released = flashed /\ \A k \in 0 .. 0 : Written(k) = flashed
    BY <2>3 DEF Released, Written
  <2>5. StorageTypes
    BY <2>3 DEF StorageTypes, Flashes, StorageInit
  <2>6. PresentInv
    BY <2>3, <2>4 DEF PresentInv, KeepsUp, Alone, Level, Held, Counting
  <2>7. ContentsInv
    BY <2>3, <2>4 DEF ContentsInv, KeepsUp, Leads, Counting
  <2> QED
    BY <2>1, <2>2, <2>5, <2>6, <2>7 DEF StorageInv, OtpInv
<1>2. StorageInv /\ [StorageNext]_storageVars => StorageInv'
  BY StorageStep
<1> QED
  BY <1>1, <1>2, PTL DEF StorageSpec

\* No configuration makes the same code twice or an earlier one, unless its
\* counters were disturbed or have ended (otp_button_pressed).
THEOREM CodesAlwaysGrow == StorageSpec => CodesGrow
<1>1. StorageInv' =>
        (out' # None /\ out'.prev # None /\ out'.steady /\ ~Saturated(out'.mode, out'.prev)
           => Before(out'.prev, out'.code))
  BY DEF StorageInv, OtpInv, CodeGrew, Saturated, Before
<1> QED
  BY <1>1, CounterInvariant, PTL DEF CodesGrow

\* Cuts bring a moving factor back by no more than the releases they lost, and a
\* usage counter no further behind the last one typed (otp_button_pressed).
THEOREM RepeatsAreBounded == StorageSpec => []RepeatsAreLostWrites
<1>1. StorageInv => RepeatsAreLostWrites
  BY DEF StorageInv, PresentInv, KeepsUp, Counting, RepeatsAreLostWrites, Full, N, Slack
<1> QED
  BY <1>1, CounterInvariant, PTL

\* A configuration is lost to a reset, to a command that brings its access code
\* or to a cut that loses releases, and to no swap, press, update or cut after
\* its write (cmd_otp).
THEOREM CodeGuardsTheSlot == StorageSpec => LostOnlyWithCode
<1>1. StorageInv /\ [StorageNext]_storageVars =>
        \A s \in Full : (\A t \in Slots : slot'[t] = Empty \/ slot'[t].id # slot[s].id) =>
            \/ lost' # lost
            \/ cmd'.name = "RESET"
            \/ cmd'.name \in {"CONFIGURE", "DELETE"} /\ cmd'.acc = slot[s].acc
  <2> SUFFICES ASSUME StorageInv, [StorageNext]_storageVars, NEW s \in Full,
                      cmd'.name # "RESET", lost' = lost,
                      \A t \in Slots : slot'[t] = Empty \/ slot'[t].id # slot[s].id
               PROVE  cmd'.name \in {"CONFIGURE", "DELETE"} /\ cmd'.acc = slot[s].acc
    OBVIOUS
  <2>1. s \in Slots /\ slot[s] # Empty /\ 3 - s \in Slots
    BY DEF Full, Slots
  <2>2. ~PowerCut
    BY <2>1, CutStep DEF Held
  <2>3. ~SameId(slot[s], slot'[s]) /\ ~SameId(slot[s], slot'[3 - s])
    BY <2>1 DEF SameId
  <2>4. [Next]_vars
    BY <2>2, StorageSteps
  <2>5. PICK q \in Slots, acc \in AccCodes, name \in {"CONFIGURE", "DELETE"} :
            Brings(q, name, acc) /\ \A t \in Slots \ {q} : SameId(slot[t], slot'[t])
    BY <2>1, <2>3, <2>4, OtpStep DEF StorageInv
  <2>6. q = s
    BY <2>1, <2>3, <2>5
  <2> QED
    BY <2>1, <2>5, <2>6 DEF Brings, MayWrite
<1> QED
  BY <1>1, CounterInvariant, PTL DEF StorageSpec, LostOnlyWithCode
=============================================================================
