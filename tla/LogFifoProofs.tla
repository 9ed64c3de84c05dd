--------------------------- MODULE LogFifoProofs ----------------------------
(***************************************************************************)
(* The ring of the log, for every capacity and every sequence of calls:    *)
(* its types, and that every call but a second creation is one of the      *)
(* queue of MessageQueue.                                                  *)
(***************************************************************************)
EXTENDS LogFifo, SequenceTheorems, TLAPS

Slot == Msgs \cup {Garbage}

\* What lies between begin and end was written.
Written == inst = "live" => \A i \in 1 .. log_getsize : ptMsg[At(i)] \in Msgs

IInv == TypeOK /\ Written

LEMMA RingType ==
    ASSUME TypeOK
    PROVE  /\ nbMsg \in Nat /\ nbMsg >= 1
           /\ begin \in 0 .. nbMsg - 1 /\ end \in 0 .. nbMsg - 1
           /\ log_getsize \in 0 .. nbMsg - 1
           /\ log_getfree \in 0 .. nbMsg - 1
           /\ \A i \in 1 .. log_getsize : At(i) \in 0 .. nbMsg - 1 /\ At(i) # end
           /\ begin = end <=> log_getsize = 0
BY DEF TypeOK, log_getsize, log_getfree, At

LEMMA EqualSeqs ==
    ASSUME NEW S, NEW s \in Seq(S), NEW t \in Seq(S), Len(s) = Len(t),
           \A i \in 1 .. Len(s) : s[i] = t[i]
    PROVE  s = t
<1>1. /\ s \in [1 .. Len(s) -> S] /\ t \in [1 .. Len(s) -> S]
  BY LenProperties
<1> QED
  BY <1>1

\* What the log holds, as a sequence.
HeldIs(h, n) ==
    /\ h \in Seq(Msgs) /\ Len(h) = n
    /\ \A i \in 1 .. n : h[i] = ptMsg[At(i)]

LEMMA HeldType == IInv /\ inst = "live" => HeldIs(Held, log_getsize)
<1> SUFFICES ASSUME IInv, inst = "live" PROVE HeldIs(Held, log_getsize)
  OBVIOUS
<1> DEFINE n == log_getsize
           h == [i \in 1 .. n |-> ptMsg[At(i)]]
<1>1. n \in Nat
  BY RingType DEF IInv
<1>2. Held = h
  BY DEF Held
<1>3. h \in [1 .. n -> Msgs]
  BY DEF IInv, Written
<1> HIDE DEF h, n
<1>4. h \in Seq(Msgs) /\ Len(h) = n
  <2>1. h \in UNION { [1 .. k -> Msgs] : k \in Nat }
    BY <1>1, <1>3
  <2>2. h \in Seq(Msgs)
    BY <2>1, SeqDef, Zenon
  <2> QED
    BY <1>1, <1>3, <2>2, LenProperties
<1>5. \A i \in 1 .. n : h[i] = ptMsg[At(i)]
  BY DEF h
<1> QED
  BY <1>2, <1>4, <1>5 DEF n, HeldIs

-----------------------------------------------------------------------------
LEMMA InitIInv == Init => IInv
<1> SUFFICES ASSUME Init PROVE IInv
  OBVIOUS
<1>1. ptMsg \in [0 .. nbMsg - 1 -> Msgs \cup {Garbage}]
  <2>1. 0 .. nbMsg - 1 = {0}
    BY DEF Init
  <2> QED
    BY <2>1 DEF Init
<1> QED
  BY <1>1 DEF Init, IInv, TypeOK, Written

LEMMA CreateIInv ==
    ASSUME IInv, NEW n \in Sizes, log_global_create(n)
    PROVE  IInv'
<1>1. n \in Nat /\ nbMsg' = n + 1 /\ begin' = 0 /\ end' = 0 /\ ret' = 0
      /\ ptMsg' = [i \in 0 .. n |-> Garbage] /\ szMsg' = szMsg
      /\ inst' = "live"
  BY LogAssumption DEF log_global_create
<1>2. 0 .. nbMsg' - 1 = 0 .. n
  BY <1>1
<1>3. ptMsg' \in [0 .. nbMsg' - 1 -> Msgs \cup {Garbage}]
  BY <1>1, <1>2
<1>4. TypeOK'
  BY <1>1, <1>3 DEF IInv, TypeOK
<1>5. (log_getsize)' = 0
  BY <1>1 DEF log_getsize
<1> QED
  BY <1>4, <1>5 DEF IInv, Written

\* Where the slots are after a push.
LEMMA PushMoves ==
    ASSUME TypeOK, NEW m, log_getfree # 0,
           ptMsg' = [ptMsg EXCEPT ![end] = m], end' = Advance(end),
           UNCHANGED <<nbMsg, begin>>
    PROVE  /\ end' \in 0 .. nbMsg - 1
           /\ (log_getsize)' = log_getsize + 1
           /\ \A i \in 1 .. log_getsize :
                 At(i)' = At(i) /\ ptMsg'[At(i)] = ptMsg[At(i)]
           /\ \A i : i = log_getsize + 1 => At(i)' = end
           /\ ptMsg'[end] = m
<1>1. /\ ptMsg \in [0 .. nbMsg - 1 -> Slot]
      /\ end \in 0 .. nbMsg - 1
      /\ \A i \in 1 .. log_getsize : At(i) \in 0 .. nbMsg - 1 /\ At(i) # end
  BY RingType DEF TypeOK, Slot
<1>2. /\ \A i \in 1 .. log_getsize : ptMsg'[At(i)] = ptMsg[At(i)]
      /\ ptMsg'[end] = m
  BY <1>1
<1>3. \A i : At(i)' = At(i)
  BY DEF At
<1>4. /\ end' \in 0 .. nbMsg - 1
      /\ (log_getsize)' = log_getsize + 1
      /\ At(log_getsize + 1) = end
  BY DEF TypeOK, log_getsize, log_getfree, Advance, At
<1> QED
  BY <1>2, <1>3, <1>4

LEMMA PushIInv ==
    ASSUME IInv, NEW m \in Msgs, log_global_push(m)
    PROVE  IInv'
<1>1. CASE UNCHANGED handle
  BY <1>1 DEF IInv, TypeOK, Written, handle, log_getsize, At, log_global_push
<1>2. CASE /\ inst = "live" /\ log_getfree # 0
           /\ ptMsg' = [ptMsg EXCEPT ![end] = m]
           /\ end' = Advance(end)
           /\ ret' = 0
           /\ UNCHANGED <<inst, nbMsg, begin, szMsg>>
  <2>1. TypeOK
    BY DEF IInv
  <2>2. /\ end' \in 0 .. nbMsg - 1
        /\ (log_getsize)' = log_getsize + 1
        /\ \A i \in 1 .. log_getsize :
              At(i)' = At(i) /\ ptMsg'[At(i)] = ptMsg[At(i)]
        /\ \A i : i = log_getsize + 1 => At(i)' = end
        /\ ptMsg'[end] = m
    BY <1>2, <2>1, PushMoves
  <2>3. ptMsg' \in [0 .. nbMsg - 1 -> Slot]
    BY <1>2, <2>1 DEF TypeOK, Slot
  <2>4. TypeOK'
    BY <1>2, <2>1, <2>2, <2>3 DEF TypeOK, Slot
  <2>5. ASSUME NEW i \in 1 .. (log_getsize)' PROVE ptMsg'[At(i)'] \in Msgs
    <3>1. log_getsize \in Nat
      BY <2>1, RingType
    <3>2. i \in 1 .. log_getsize \/ i = log_getsize + 1
      BY <2>2, <3>1
    <3>3. CASE i \in 1 .. log_getsize
      BY <1>2, <2>2, <3>3 DEF IInv, Written
    <3>4. CASE i = log_getsize + 1
      BY <2>2, <3>4
    <3> QED
      BY <3>2, <3>3, <3>4
  <2>6. Written'
    BY <2>5 DEF Written
  <2> QED
    BY <2>4, <2>6 DEF IInv
<1> QED
  BY <1>1, <1>2 DEF log_global_push

\* Where the slots are after a pop.
LEMMA PopMoves ==
    ASSUME TypeOK, log_getsize # 0, begin' = Advance(begin),
           UNCHANGED <<nbMsg, ptMsg, end>>
    PROVE  /\ begin' \in 0 .. nbMsg - 1
           /\ (log_getsize)' = log_getsize - 1
           /\ At(1) = begin
           /\ \A i \in 1 .. log_getsize - 1 : At(i)' = At(i + 1)
BY DEF TypeOK, log_getsize, Advance, At

LEMMA PopIInv ==
    ASSUME IInv, log_global_pop
    PROVE  IInv'
<1>1. CASE UNCHANGED handle
  BY <1>1 DEF IInv, TypeOK, Written, handle, log_getsize, At, log_global_pop
<1>2. CASE /\ inst = "live" /\ log_getsize # 0
           /\ szMsg' = ptMsg[begin]
           /\ begin' = Advance(begin)
           /\ ret' = 1
           /\ UNCHANGED <<inst, nbMsg, ptMsg, end>>
  <2>1. TypeOK
    BY DEF IInv
  <2>2. /\ begin' \in 0 .. nbMsg - 1
        /\ (log_getsize)' = log_getsize - 1
        /\ At(1) = begin
        /\ \A i \in 1 .. log_getsize - 1 : At(i)' = At(i + 1)
    BY <1>2, <2>1, PopMoves
  <2>3. log_getsize \in Nat /\ log_getsize >= 1
    BY <1>2, <2>1, RingType
  <2>4. szMsg' \in Msgs
    <3>1. 1 \in 1 .. log_getsize
      BY <2>3
    <3> QED
      BY <1>2, <2>2, <3>1 DEF IInv, Written
  <2>5. TypeOK'
    BY <1>2, <2>1, <2>2, <2>4 DEF TypeOK
  <2>6. ASSUME NEW i \in 1 .. (log_getsize)' PROVE ptMsg'[At(i)'] \in Msgs
    <3>1. i \in 1 .. log_getsize - 1 /\ i + 1 \in 1 .. log_getsize
      BY <2>2, <2>3
    <3>2. ptMsg[At(i + 1)] \in Msgs
      BY <1>2, <3>1 DEF IInv, Written
    <3> QED
      BY <1>2, <2>2, <3>1, <3>2
  <2>7. Written'
    BY <2>6 DEF Written
  <2> QED
    BY <2>5, <2>7 DEF IInv
<1> QED
  BY <1>1, <1>2 DEF log_global_pop

LEMMA ClearIInv ==
    ASSUME IInv, log_global_clear
    PROVE  IInv' /\ (log_getsize)' = 0
<1>1. TypeOK'
  BY DEF IInv, TypeOK, log_global_clear
<1>2. (log_getsize)' = 0
  BY DEF IInv, TypeOK, log_global_clear, log_getsize
<1> QED
  BY <1>1, <1>2 DEF IInv, Written

\* A step that leaves the ring alone.
LEMMA SameRing ==
    ASSUME UNCHANGED <<nbMsg, ptMsg, begin, end>>
    PROVE  /\ (log_getsize)' = log_getsize /\ (log_getfree)' = log_getfree
           /\ \A i : At(i)' = At(i)
BY DEF log_getsize, log_getfree, At

LEMMA OtherIInv ==
    ASSUME IInv, UNCHANGED <<nbMsg, ptMsg, begin, end, szMsg>>,
           inst' = inst \/ inst' \in {"dangling", "killed"}, ret' \in Int
    PROVE  IInv'
BY SameRing DEF IInv, TypeOK, Written

LEMMA NextIInv == IInv /\ [Next]_vars => IInv'
<1> SUFFICES ASSUME IInv, [Next]_vars PROVE IInv'
  OBVIOUS
<1>1. /\ log_getsize \in Int /\ log_getfree \in Int /\ ret \in Int
  BY RingType DEF IInv, TypeOK
<1>2. ASSUME NEW n \in Sizes, log_global_create(n) PROVE IInv'
  BY <1>2, CreateIInv
<1>3. ASSUME NEW m \in Msgs, log_global_push(m) PROVE IInv'
  BY <1>3, PushIInv
<1>4. CASE OutOfMemory
  BY <1>1, <1>4, OtherIInv DEF OutOfMemory
<1>5. CASE log_global_destroy \/ CalledOnNull
  BY <1>1, <1>5, OtherIInv DEF log_global_destroy, CalledOnNull
<1>6. CASE log_global_pop
  BY <1>6, PopIInv
<1>7. CASE log_global_clear
  BY <1>7, ClearIInv
<1>8. CASE log_global_getsize
  BY <1>1, <1>8, OtherIInv DEF log_global_getsize, handle
<1>9. CASE log_global_getfree
  BY <1>1, <1>9, OtherIInv DEF log_global_getfree, handle
<1>10. CASE UNCHANGED vars
  BY <1>1, <1>10, OtherIInv DEF vars
<1> QED
  BY <1>2, <1>3, <1>4, <1>5, <1>6, <1>7, <1>8, <1>9, <1>10 DEF Next

(* Neither pointer of the ring ever leaves it, and what a caller pops was  *)
(* pushed (property TypeOK).                                               *)
THEOREM LogTypeCorrect == Spec => []TypeOK
<1>1. IInv => TypeOK
  BY DEF IInv
<1> QED
  BY <1>1, InitIInv, NextIInv, PTL DEF Spec

(***************************************************************************)
(* The refinement.                                                         *)
(***************************************************************************)
LEMMA SameHeld ==
    ASSUME UNCHANGED handle
    PROVE  UNCHANGED Held
<1>1. \A i : At(i)' = At(i)
  BY SameRing DEF handle
<1>2. (log_getsize)' = log_getsize /\ ptMsg' = ptMsg /\ inst' = inst
  BY SameRing DEF handle
<1> QED
  BY <1>1, <1>2 DEF Held

HeldSize ==
    /\ Held \in Seq(Msgs)
    /\ inst # "live" => Held = << >>
    /\ inst = "live" => Len(Held) = log_getsize
    /\ inst = "live" /\ log_getsize = 0 => Held = << >>

LEMMA HeldNothing == IInv => HeldSize
<1> SUFFICES ASSUME IInv PROVE HeldSize
  OBVIOUS
<1>1. CASE inst # "live"
  <2>1. Held = << >>
    BY <1>1 DEF Held
  <2> QED
    BY <1>1, <2>1, EmptySeq DEF HeldSize
<1>2. CASE inst = "live"
  <2> DEFINE h == Held
  <2>1. h \in Seq(Msgs) /\ Len(h) = log_getsize
    BY <1>2, HeldType DEF HeldIs
  <2> HIDE DEF h
  <2>2. Len(h) = 0 => h = << >>
    BY <2>1
  <2> QED
    BY <1>2, <2>1, <2>2 DEF HeldSize, h
<1> QED
  BY <1>1, <1>2

LEMMA PushStep ==
    ASSUME IInv, IInv', NEW m \in Msgs, log_global_push(m)
    PROVE  Queue!Push(m)
<1>0. TypeOK /\ nbMsg \in Nat /\ log_getsize \in 0 .. nbMsg - 1
      /\ log_getfree = nbMsg - log_getsize - 1
  BY RingType DEF IInv, log_getfree
<1>1. CASE inst = "null" /\ ret' = 0 /\ UNCHANGED <<handle, szMsg>>
  BY <1>1, SameHeld DEF Queue!Push, handle
<1>2. CASE /\ inst = "live" /\ log_getfree = 0
           /\ ret' = -2 /\ UNCHANGED <<handle, szMsg>>
  <2>1. Len(Held) = nbMsg - 1 /\ nbMsg - 1 \in Nat
    BY <1>0, <1>2, HeldNothing DEF HeldSize
  <2>2. ~(Len(Held) < nbMsg - 1) /\ Len(Held) >= nbMsg - 1
    BY <2>1
  <2> QED
    BY <1>2, <2>2, SameHeld DEF Queue!Push, handle
<1>3. CASE /\ inst = "live" /\ log_getfree # 0
           /\ ptMsg' = [ptMsg EXCEPT ![end] = m]
           /\ end' = Advance(end)
           /\ ret' = 0
           /\ UNCHANGED <<inst, nbMsg, begin, szMsg>>
  <2>1. /\ (log_getsize)' = log_getsize + 1
        /\ \A i \in 1 .. log_getsize :
              At(i)' = At(i) /\ ptMsg'[At(i)] = ptMsg[At(i)]
        /\ \A i : i = log_getsize + 1 => At(i)' = end
        /\ ptMsg'[end] = m
    BY <1>0, <1>3, PushMoves
  <2> DEFINE h == Held
             g == Held'
             n == log_getsize
  <2>2. h \in Seq(Msgs) /\ Len(h) = n /\ \A i \in 1 .. n : h[i] = ptMsg[At(i)]
    BY <1>3, HeldType DEF HeldIs
  <2>3. /\ g \in Seq(Msgs) /\ Len(g) = n + 1
        /\ \A i \in 1 .. n + 1 : g[i] = ptMsg'[At(i)']
    <3>1. (inst = "live")'
      BY <1>3
    <3>2. HeldIs(Held, log_getsize)'
      BY <3>1, HeldType, PTL
    <3> QED
      BY <2>1, <3>2 DEF HeldIs
  <2>4. n \in Nat
    BY <1>0
  <2>5. ASSUME NEW i \in 1 .. n PROVE g[i] = h[i]
    <3>1. i \in 1 .. n + 1
      BY <2>4
    <3> QED
      BY <2>1, <2>2, <2>3, <3>1
  <2>6. g[n + 1] = m
    <3>1. n + 1 \in 1 .. n + 1
      BY <2>4
    <3> QED
      BY <2>1, <2>3, <3>1
  <2> HIDE DEF h, g, n
  <2> DEFINE a == Append(h, m)
  <2>7. /\ a \in Seq(Msgs) /\ Len(a) = n + 1
        /\ \A i \in 1 .. n : a[i] = h[i]
        /\ a[n + 1] = m
    BY <2>2, AppendProperties
  <2>8. ASSUME NEW i \in 1 .. Len(g) PROVE g[i] = a[i]
    <3>1. i \in 1 .. n \/ i = n + 1
      BY <2>3, <2>4
    <3> QED
      BY <2>5, <2>6, <2>7, <3>1
  <2> HIDE DEF a
  <2>9. g = a
    BY <2>3, <2>7, <2>8, EqualSeqs
  <2>10. Held' = Append(Held, m)
    BY <2>9 DEF g, h, a
  <2>11. Len(Held) < nbMsg - 1 /\ ~(Len(Held) >= nbMsg - 1)
    BY <1>0, <1>3, <2>2 DEF h, n
  <2> QED
    BY <1>3, <2>10, <2>11 DEF Queue!Push
<1> QED
  BY <1>1, <1>2, <1>3 DEF log_global_push

LEMMA PopStep ==
    ASSUME IInv, IInv', log_global_pop
    PROVE  Queue!Pop
<1>0. TypeOK /\ log_getsize \in Nat
  BY RingType DEF IInv
<1>1. CASE inst = "null" /\ szMsg' = Empty /\ ret' = 0 /\ UNCHANGED handle
  BY <1>1, SameHeld, HeldNothing DEF HeldSize, Queue!Pop, handle
<1>2. CASE /\ inst = "live" /\ log_getsize = 0
           /\ ret' = 0 /\ UNCHANGED <<handle, szMsg>>
  BY <1>2, SameHeld, HeldNothing DEF HeldSize, Queue!Pop, handle
<1>3. CASE /\ inst = "live" /\ log_getsize # 0
           /\ szMsg' = ptMsg[begin]
           /\ begin' = Advance(begin)
           /\ ret' = 1
           /\ UNCHANGED <<inst, nbMsg, ptMsg, end>>
  <2>1. /\ (log_getsize)' = log_getsize - 1
        /\ At(1) = begin
        /\ \A i \in 1 .. log_getsize - 1 : At(i)' = At(i + 1)
    BY <1>0, <1>3, PopMoves
  <2> DEFINE h == Held
             g == Held'
             n == log_getsize
             t == Tail(h)
  <2>2. h \in Seq(Msgs) /\ Len(h) = n /\ \A i \in 1 .. n : h[i] = ptMsg[At(i)]
    BY <1>3, HeldType DEF HeldIs
  <2>3. /\ g \in Seq(Msgs) /\ Len(g) = n - 1
        /\ \A i \in 1 .. n - 1 : g[i] = ptMsg'[At(i)']
    <3>1. (inst = "live")'
      BY <1>3
    <3>2. HeldIs(Held, log_getsize)'
      BY <3>1, HeldType, PTL
    <3> QED
      BY <2>1, <3>2 DEF HeldIs
  <2>4. n \in Nat /\ n >= 1
    BY <1>0, <1>3
  <2>5. ASSUME NEW i \in 1 .. n - 1 PROVE g[i] = h[i + 1]
    <3>1. i + 1 \in 1 .. n
      BY <2>4
    <3> QED
      BY <1>3, <2>1, <2>2, <2>3, <3>1
  <2>6. h[1] = szMsg'
    <3>1. 1 \in 1 .. n
      BY <2>4
    <3> QED
      BY <1>3, <2>1, <2>2, <3>1
  <2> HIDE DEF h, g, n
  <2>7. h # << >>
    BY <2>2, <2>4
  <2>8. /\ t \in Seq(Msgs) /\ Len(t) = n - 1
        /\ \A i \in 1 .. n - 1 : t[i] = h[i + 1]
    BY <2>2, <2>7, HeadTailProperties
  <2>9. Head(h) = szMsg'
    BY <2>2, <2>4, <2>6
  <2> HIDE DEF t
  <2>10. g = t
    BY <2>3, <2>5, <2>8, EqualSeqs
  <2>11. Held # << >> /\ Held' = Tail(Held) /\ szMsg' = Head(Held)
    BY <2>7, <2>9, <2>10 DEF g, h, t
  <2> QED
    BY <1>3, <2>11 DEF Queue!Pop
<1> QED
  BY <1>1, <1>2, <1>3 DEF log_global_pop

LEMMA QueueInit == Init => Queue!Init
BY DEF Init, Queue!Init, Held

LEMMA QueueStep ==
    ASSUME IInv, IInv', [Next]_vars
    PROVE  [Queue!Next \/ CreatedAgain \/ ProgramStops]_Queue!vars
<1>1. ASSUME NEW n \in Sizes, log_global_create(n)
      PROVE  Queue!Next \/ CreatedAgain
  <2>0. CASE inst = "live"
    BY <1>1, <2>0 DEF CreatedAgain
  <2>1. n \in Nat /\ nbMsg' = n + 1 /\ (log_getsize)' = 0
    BY <1>1, LogAssumption DEF log_global_create, log_getsize
  <2>2. Held' = << >>
    <3>1. HeldSize'
      BY HeldNothing, PTL
    <3> QED
      BY <1>1, <2>1, <3>1 DEF log_global_create, HeldSize
  <2>3. (inst' = "live") = TRUE /\ ret' = 0 /\ szMsg' = szMsg
    BY <1>1, Zenon DEF log_global_create
  <2>4. nbMsg' - 1 = n
    BY <2>1
  <2>5. CASE inst # "live"
    <3>1. (inst = "live") = FALSE
      BY <2>5
    <3>2. Queue!Create(n)
      BY <2>2, <2>3, <2>4, <3>1, Zenon DEF Queue!Create
    <3> QED
      BY <3>2 DEF Queue!Next
  <2> QED
    BY <2>0, <2>5
<1>2. ASSUME NEW m \in Msgs, log_global_push(m) PROVE Queue!Next
  BY <1>2, PushStep DEF Queue!Next
<1>3. CASE OutOfMemory \/ CalledOnNull
  BY <1>3 DEF OutOfMemory, CalledOnNull, ProgramStops
<1>9. CASE log_global_destroy
  <2>1. /\ inst = "live" /\ inst' = "dangling" /\ ret' = 0
        /\ UNCHANGED <<nbMsg, szMsg>>
    BY <1>9 DEF log_global_destroy
  <2>2. Held' = << >>
    BY <2>1 DEF Held
  <2>3. Queue!Destroy
    BY <2>1, <2>2 DEF Queue!Destroy
  <2> QED
    BY <2>3 DEF Queue!Next
<1>4. CASE log_global_pop
  BY <1>4, PopStep DEF Queue!Next
<1>5. CASE log_global_clear
  <2>1. Held' = << >>
    <3>1. (log_getsize)' = 0 /\ inst' = "live"
      BY <1>5, ClearIInv DEF log_global_clear
    <3>2. HeldSize'
      BY HeldNothing, PTL
    <3> QED
      BY <3>1, <3>2 DEF HeldSize
  <2>2. Queue!Clear
    BY <1>5, <2>1 DEF log_global_clear, Queue!Clear
  <2> QED
    BY <2>2 DEF Queue!Next
<1>6. CASE log_global_getsize
  BY <1>6, SameHeld, HeldNothing
     DEF HeldSize, log_global_getsize, handle, Queue!Count, Queue!Next
<1>7. CASE log_global_getfree
  <2>1. log_getfree = nbMsg - 1 - Len(Held)
    BY <1>7, RingType, HeldNothing
       DEF HeldSize, IInv, log_global_getfree, log_getfree
  <2> QED
    BY <1>7, <2>1, SameHeld
       DEF log_global_getfree, handle, Queue!Room, Queue!Next
<1>8. CASE UNCHANGED vars
  BY <1>8, SameHeld DEF vars, handle, Queue!vars
<1> QED
  BY <1>1, <1>2, <1>3, <1>4, <1>5, <1>6, <1>7, <1>8, <1>9 DEF Next

(* In every sequence of calls to a log of any capacity, each call that     *)
(* neither replaces the log nor stops the program is one of the queue of   *)
(* its header: a full log refuses, and what it accepted is popped once and *)
(* in order until it is replaced (property QueueUnlessReplaced).           *)
THEOREM LogIsQueue == Spec => QueueUnlessReplaced
<1>1. IInv /\ IInv' /\ [Next]_vars
      => [Queue!Next \/ CreatedAgain \/ ProgramStops]_Queue!vars
  BY QueueStep
<1> QED
  BY <1>1, InitIInv, NextIInv, QueueInit, PTL
     DEF Spec, QueueUnlessReplaced
=============================================================================
