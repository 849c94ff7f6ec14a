--------------------------- MODULE EventBusProofs ---------------------------
(***************************************************************************)
(* EventBus for every set of requests and engines, every clock, batch size *)
(* and number of faults: no event is passed over, and one is repeated only *)
(* because of a fault.                                                     *)
(***************************************************************************)
EXTENDS EventBus, FiniteSetTheorems, WellFoundedInduction, TLAPS

(* A batch is what was polled above the engine's position; the handler of its   *)
(* first event is done, or it is not.                                           *)
Positions ==
  \A e \in Engine :
    /\ last[e] = Unread => batch[e] = {}
    /\ \A j \in batch[e] : j \in log /\ j > last[e]
    /\ handled[e] => \E j \in batch[e] : First(e, j) /\ deliveries[j] > 0

(* What an engine has read past was handled, or came too late.                  *)
ReadCovered ==
  \A e \in Engine : \A i \in log : i <= last[e] => deliveries[i] > 0 \/ i \in late

(* Between an engine's position and the end of its batch nothing is missing.    *)
NoGap ==
  \A e \in Engine : \A j \in batch[e] : \A i \in log :
    i < j => i \in batch[e] \/ i <= last[e] \/ i \in late

(* The engines that will not handle i again unless something fails.             *)
Passed(i) == {e \in Engine : last[e] >= i \/ (handled[e] /\ First(e, i))}

Counted == \A i \in EventId : deliveries[i] <= Cardinality(Passed(i)) + faults

IInv == TypeOK /\ Positions /\ ReadCovered /\ NoGap /\ OffsetCoversHandled /\ Counted

-----------------------------------------------------------------------------
(* Finite sets of numbers. *)

LEMMA Least ==
  ASSUME NEW T \in SUBSET Nat, T # {}
  PROVE  \E x \in T : \A y \in T : x <= y
<1>1. \E x \in T : \A y \in T : ~(<<y, x>> \in OpToRel(<, Nat))
  BY NatLessThanWellFounded, WFMin
<1>2. \A x, y \in Nat : x < y => <<x, y>> \in OpToRel(<, Nat)
  BY DEF OpToRel
<1>3. PICK x \in T : \A y \in T : ~(<<y, x>> \in OpToRel(<, Nat))  BY <1>1
<1>4. \A y \in T : ~(y < x)  BY <1>2, <1>3
<1>5. \A y \in T : x <= y  BY <1>4
<1>. QED  BY <1>5

LEMMA Greatest ==
  ASSUME NEW T \in SUBSET Nat, T # {}, NEW b \in Nat, \A x \in T : x <= b
  PROVE  \E x \in T : \A y \in T : y <= x
<1>. DEFINE U == {b - x : x \in T}
<1>1. \A x \in T : x \in Nat /\ b - x \in Nat  OBVIOUS
<1>2. U \in SUBSET Nat /\ U # {}  BY <1>1
<1>3. PICK u \in U : \A v \in U : u <= v  BY <1>2, Least
<1>4. PICK x \in T : u = b - x  OBVIOUS
<1>5. \A y \in T : b - x <= b - y  BY <1>3, <1>4
<1>. QED  BY <1>5

(* A page, the elements with fewer than k others below, holds at most k.        *)
LEMMA PageSize ==
  ASSUME NEW S \in SUBSET Nat, NEW b \in Nat, \A x \in S : x <= b, NEW k \in Nat \ {0}
  PROVE  Cardinality({i \in S : Cardinality({j \in S : j < i}) < k}) <= k
<1>. DEFINE P == {i \in S : Cardinality({j \in S : j < i}) < k}
<1>1. IsFiniteSet(S)  BY FS_BoundedSetOfNaturals
<1>2. CASE P = {}
  <2>1. Cardinality(P) = 0  BY <1>2, FS_EmptySet
  <2>. QED  BY <2>1
<1>3. CASE P # {}
  <2>1. PICK x \in P : \A y \in P : y <= x  BY <1>3, Greatest
  <2>. DEFINE L == {j \in S : j < x}
  <2>2. IsFiniteSet(L) /\ Cardinality(L) \in Nat  BY <1>1, FS_Subset, FS_CardinalityType
  <2>3. Cardinality(L) < k  BY <2>1
  <2>4. ASSUME NEW y \in P PROVE y \in L \cup {x}  BY <2>1
  <2>5. IsFiniteSet(L \cup {x}) /\ Cardinality(L \cup {x}) <= Cardinality(L) + 1
    BY <2>2, FS_AddElement
  <2>6. Cardinality(P) <= Cardinality(L \cup {x})  BY <2>4, <2>5, FS_Subset
  <2>7. IsFiniteSet(P) /\ Cardinality(P) \in Nat  BY <1>1, FS_Subset, FS_CardinalityType
  <2>8. Cardinality(L \cup {x}) \in Nat  BY <2>5, FS_CardinalityType
  <2>. QED  BY <2>2, <2>3, <2>5, <2>6, <2>7, <2>8
<1>. QED  BY <1>2, <1>3

(* A set that loses at most one element. *)
LEMMA LosesOne ==
  ASSUME NEW S, NEW T, NEW x, IsFiniteSet(S), IsFiniteSet(T), S \ {x} \subseteq T
  PROVE  Cardinality(S) <= Cardinality(T) + 1
<1>1. /\ IsFiniteSet(S \ {x})
      /\ Cardinality(S \ {x}) = IF x \in S THEN Cardinality(S) - 1 ELSE Cardinality(S)
  BY FS_RemoveElement
<1>2. Cardinality(S \ {x}) <= Cardinality(T)  BY FS_Subset
<1>3. Cardinality(S) \in Nat /\ Cardinality(T) \in Nat  BY FS_CardinalityType
<1>. QED  BY <1>1, <1>2, <1>3

-----------------------------------------------------------------------------
(* Ids. *)

LEMMA StampType ==
  ASSUME NEW at \in 0..MaxClock, NEW op \in 1..MaxOp
  PROVE  /\ Stamp(at, op) \in Nat \ {0}
         /\ Stamp(at, op) <= Stamp(MaxClock, MaxOp)
<1>. DEFINE m == MaxOp + 1
<1>1. at \in Nat /\ m \in Nat /\ MaxClock - at \in Nat /\ op \in Nat \ {0} /\ op <= MaxOp
  BY BusAssumption
<1>2. at * m \in Nat /\ (MaxClock - at) * m \in Nat
  <2>. HIDE DEF m
  <2>. QED  BY <1>1
<1>3. MaxClock * m = at * m + (MaxClock - at) * m
  <2>. HIDE DEF m
  <2>. QED  BY <1>1, BusAssumption
<1>. QED  BY <1>1, <1>2, <1>3, BusAssumption DEF Stamp

LEMMA IdBounds ==
  /\ Stamp(MaxClock, MaxOp) \in Nat
  /\ \A i \in EventId : i \in Nat \ {0} /\ i <= Stamp(MaxClock, MaxOp)
<1>1. MaxClock \in 0..MaxClock /\ MaxOp \in 1..MaxOp  BY BusAssumption
<1>. QED  BY <1>1, StampType DEF EventId

LEMMA FiniteIds == \A S \in SUBSET EventId : IsFiniteSet(S)
BY IdBounds, FS_BoundedSetOfNaturals

LEMMA PassedFinite ==
  \A i : IsFiniteSet(Passed(i)) /\ Cardinality(Passed(i)) \in Nat
         /\ Cardinality(Passed(i)) <= Cardinality(Engine)
BY BusAssumption, FS_Subset, FS_CardinalityType DEF Passed

LEMMA InitIInv == Init => IInv
<1>. SUFFICES ASSUME Init PROVE IInv  OBVIOUS
<1>1. TypeOK
  BY IdBounds, BusAssumption, FS_EmptySet DEF Init, TypeOK, NoId, Unread
<1>2. Counted
  BY PassedFinite, IdBounds DEF Init, Counted
<1>. QED
  BY <1>1, <1>2 DEF Init, IInv, Positions, ReadCovered, NoGap, OffsetCoversHandled

-----------------------------------------------------------------------------
(* The server's steps. *)

LEMMA TickStep == ASSUME IInv, Tick PROVE IInv'
<1>1. TypeOK'  BY BusAssumption DEF IInv, TypeOK, Tick, engineVars
<1>. QED
  BY <1>1 DEF Tick, engineVars, IInv, Positions, ReadCovered, NoGap, OffsetCoversHandled, Counted,
              Passed, First

(* An inserted id that any engine or the row is already past is late. *)
LEMMA InsertStep ==
  ASSUME IInv, NEW id \in EventId, Insert(id), UNCHANGED engineVars
  PROVE  /\ log' \in SUBSET EventId /\ late' \in SUBSET EventId
         /\ Positions' /\ ReadCovered' /\ NoGap' /\ OffsetCoversHandled' /\ Counted'
<1>1. /\ log' = log \cup {id} /\ late \subseteq late'
      /\ Behind(id) => id \in late'
      /\ log' \in SUBSET EventId /\ late' \in SUBSET EventId
  BY DEF Insert, IInv, TypeOK
<1>2. UNCHANGED <<offset, last, batch, handled, deliveries, faults>>
  BY DEF engineVars
<1>3. Positions' /\ Counted'
  BY <1>1, <1>2 DEF IInv, Positions, Counted, Passed, First
<1>4. ReadCovered' /\ OffsetCoversHandled'
  BY <1>1, <1>2 DEF IInv, ReadCovered, OffsetCoversHandled, Behind
<1>5. NoGap'
  BY <1>1, <1>2 DEF IInv, NoGap, Behind
<1>. QED  BY <1>1, <1>3, <1>4, <1>5

LEMMA StartStep == ASSUME IInv, NEW r \in Request, StartBulkUpdate(r) PROVE IInv'
<1>1. TypeOK'  BY DEF IInv, TypeOK, StartBulkUpdate, engineVars
<1>. QED
  BY <1>1 DEF StartBulkUpdate, engineVars, IInv, Positions, ReadCovered, NoGap,
              OffsetCoversHandled, Counted, Passed, First

LEMMA CommitStep == ASSUME IInv, NEW r \in Request, CommitBulkUpdate(r) PROVE IInv'
<1>1. request[r] \in EventId /\ Insert(request[r]) /\ UNCHANGED <<clock, request, engineVars>>
  BY DEF IInv, TypeOK, CommitBulkUpdate
<1>2. TypeOK'  BY <1>1, InsertStep DEF IInv, TypeOK, engineVars
<1>. QED  BY <1>1, <1>2, InsertStep DEF IInv

LEMMA ProduceStep == ASSUME IInv, NEW r \in Request, Produce(r) PROVE IInv'
<1>1. PICK id \in EventId : Insert(id) /\ request' = [request EXCEPT ![r] = id]
  BY DEF Produce
<1>2. UNCHANGED <<clock, engineVars>>  BY DEF Produce
<1>3. TypeOK'  BY <1>1, <1>2, InsertStep DEF IInv, TypeOK, engineVars
<1>. QED  BY <1>1, <1>2, <1>3, InsertStep DEF IInv

-----------------------------------------------------------------------------
(* The engines' steps. *)

(* What an engine's step leaves to the invariant: its own position and batch, and   *)
(* the count of every event.                                                        *)
LEMMA PositionType ==
  ASSUME IInv
  PROVE  /\ log \subseteq Nat /\ \A e \in Engine : last[e] \in Int /\ batch[e] \in SUBSET EventId
         /\ \A e \in Engine : From(e) \in EventId \cup {NoId} /\ From(e) \in Nat
         /\ offset \in Nat
BY IdBounds DEF IInv, TypeOK, From, NoId, Unread

LEMMA PageFacts ==
  ASSUME IInv, NEW e \in Engine
  PROVE  /\ Page(e) \in SUBSET EventId /\ Cardinality(Page(e)) <= BatchSize
         /\ \A j \in Page(e) : j \in log /\ j > From(e)
         /\ \A j \in Page(e), i \in log : i < j /\ i > From(e) => i \in Page(e)
<1>1. New(e) \in SUBSET EventId /\ New(e) \in SUBSET Nat  BY IdBounds DEF New, IInv, TypeOK
<1>2. Cardinality(Page(e)) <= BatchSize
  BY <1>1, IdBounds, PageSize, BusAssumption DEF Page
<1>3. ASSUME NEW j \in Page(e), NEW i \in log, i < j, i > From(e) PROVE i \in Page(e)
  <2>. DEFINE Below(k) == {l \in New(e) : l < k}
  <2>1. i \in New(e) /\ j \in New(e)  BY <1>3 DEF New, Page
  <2>2. Below(i) \subseteq Below(j)  BY <1>1, <1>3, <2>1
  <2>3. IsFiniteSet(Below(j)) /\ IsFiniteSet(Below(i))  BY <1>1, FiniteIds
  <2>4. Cardinality(Below(i)) <= Cardinality(Below(j))  BY <2>2, <2>3, FS_Subset
  <2>5. Cardinality(Below(i)) \in Nat /\ Cardinality(Below(j)) \in Nat
    BY <2>3, FS_CardinalityType
  <2>6. Cardinality(Below(j)) < BatchSize  BY DEF Page
  <2>7. Cardinality(Below(i)) < BatchSize  BY <2>4, <2>5, <2>6, BusAssumption
  <2>. QED  BY <2>1, <2>7 DEF Page
<1>. QED  BY <1>1, <1>2, <1>3 DEF Page, New

(* The count is kept when no engine leaves a passed set, or a fault is counted for the *)
(* one that does, or the event handled gains an engine.                              *)
LEMMA CountKept ==
  ASSUME IInv, TypeOK',
         deliveries' = deliveries, faults' = faults,
         \A i \in EventId : Passed(i) \subseteq Passed(i)'
  PROVE  Counted'
<1>. SUFFICES ASSUME NEW i \in EventId
              PROVE  deliveries[i] <= Cardinality(Passed(i)') + faults
  BY DEF Counted
<1>1. Cardinality(Passed(i)) <= Cardinality(Passed(i)')
  <2>1. IsFiniteSet(Passed(i)')  BY BusAssumption, FS_Subset DEF Passed
  <2>. QED  BY <2>1, FS_Subset
<1>2. Cardinality(Passed(i)) \in Nat /\ Cardinality(Passed(i)') \in Nat
  <2>1. IsFiniteSet(Passed(i)') /\ IsFiniteSet(Passed(i))
    BY BusAssumption, FS_Subset DEF Passed
  <2>. QED  BY <2>1, FS_CardinalityType
<1>3. deliveries[i] \in Nat /\ faults \in Nat  BY DEF IInv, TypeOK
<1>. QED  BY <1>1, <1>2, <1>3 DEF IInv, Counted

LEMMA CountFault ==
  ASSUME IInv, TypeOK', NEW e \in Engine,
         deliveries' = deliveries, faults' = faults + 1,
         \A i \in EventId : Passed(i) \ {e} \subseteq Passed(i)'
  PROVE  Counted'
<1>. SUFFICES ASSUME NEW i \in EventId
              PROVE  deliveries[i] <= Cardinality(Passed(i)') + (faults + 1)
  BY DEF Counted
<1>1. IsFiniteSet(Passed(i)') /\ IsFiniteSet(Passed(i))
  BY BusAssumption, FS_Subset DEF Passed
<1>2. Cardinality(Passed(i)) <= Cardinality(Passed(i)') + 1  BY <1>1, LosesOne
<1>3. Cardinality(Passed(i)) \in Nat /\ Cardinality(Passed(i)') \in Nat
  BY <1>1, FS_CardinalityType
<1>4. deliveries[i] \in Nat /\ faults \in Nat  BY DEF IInv, TypeOK
<1>. QED  BY <1>2, <1>3, <1>4 DEF IInv, Counted

LEMMA PollStep == ASSUME IInv, NEW e \in Engine, Poll(e) PROVE IInv'
<1>1. /\ batch[e] = {} /\ last' = [last EXCEPT ![e] = From(e)]
      /\ batch' = [batch EXCEPT ![e] = Page(e)]
      /\ UNCHANGED <<clock, request, log, late, offset, handled, deliveries, faults>>
  BY DEF Poll, serverVars
<1>2. last'[e] = From(e) /\ batch'[e] = Page(e)
      /\ \A f \in Engine \ {e} : last'[f] = last[f] /\ batch'[f] = batch[f]
  BY <1>1 DEF IInv, TypeOK
<1>3. TypeOK'
  <2>1. last' \in [Engine -> EventId \cup {NoId, Unread}]
    BY <1>1, PositionType DEF IInv, TypeOK
  <2>2. batch' \in [Engine -> SUBSET EventId] /\ \A f \in Engine : Cardinality(batch'[f]) <= BatchSize
    BY <1>1, <1>2, PageFacts DEF IInv, TypeOK
  <2>. QED  BY <1>1, <2>1, <2>2 DEF IInv, TypeOK
<1>4. handled[e] = FALSE  BY <1>1 DEF IInv, Positions, TypeOK
<1>5. last[e] <= From(e)  BY IdBounds, PositionType DEF From, Unread, IInv, TypeOK, NoId
<1>6. Positions'
  <2>1. From(e) # Unread  BY PositionType DEF Unread
  <2>. QED  BY <1>1, <1>2, <1>4, <2>1, PageFacts DEF IInv, Positions, First
<1>7. ReadCovered' /\ OffsetCoversHandled'
  BY <1>1, <1>2 DEF IInv, ReadCovered, OffsetCoversHandled, From
<1>8. NoGap'
  <2>1. ASSUME NEW j \in Page(e), NEW i \in log, i < j PROVE i \in Page(e) \/ i <= From(e)
    BY <2>1, PageFacts, PositionType
  <2>. QED  BY <1>1, <1>2, <2>1 DEF IInv, NoGap
<1>9. Counted'
  <2>1. ASSUME NEW i \in EventId, NEW f \in Passed(i) PROVE f \in Passed(i)'
    <3>1. CASE f = e
      <4>1. last[e] >= i  BY <1>4, <2>1, <3>1 DEF Passed
      <4>2. last'[e] >= i  BY <1>2, <1>5, <4>1, PositionType, IdBounds
      <4>. QED  BY <3>1, <4>2 DEF Passed
    <3>2. CASE f # e  BY <1>1, <1>2, <2>1, <3>2 DEF Passed, First
    <3>. QED  BY <3>1, <3>2
  <2>. QED  BY <1>1, <1>3, <2>1, CountKept
<1>. QED  BY <1>3, <1>6, <1>7, <1>8, <1>9 DEF IInv

LEMMA HandleStep == ASSUME IInv, NEW e \in Engine, Handle(e) PROVE IInv'
<1>1. PICK i \in batch[e] : First(e, i) /\ deliveries' = [deliveries EXCEPT ![i] = @ + 1]
  BY DEF Handle
<1>2. /\ ~handled[e] /\ handled' = [handled EXCEPT ![e] = TRUE]
      /\ UNCHANGED <<clock, request, log, late, offset, last, batch, faults>>
  BY DEF Handle, serverVars
<1>3. i \in EventId /\ i > last[e]  BY <1>1 DEF IInv, TypeOK, Positions
<1>4. /\ deliveries' \in [EventId -> Nat] /\ deliveries'[i] = deliveries[i] + 1
      /\ \A k \in EventId : k # i => deliveries'[k] = deliveries[k]
      /\ \A k \in EventId : deliveries[k] > 0 => deliveries'[k] > 0
  BY <1>1, <1>3 DEF IInv, TypeOK
<1>5. TypeOK'  BY <1>2, <1>4 DEF IInv, TypeOK
<1>6. Positions'
  <2>1. deliveries'[i] > 0  BY <1>3, <1>4 DEF IInv, TypeOK
  <2>. QED  BY <1>1, <1>2, <1>4, <2>1 DEF IInv, Positions, First, TypeOK
<1>7. ReadCovered' /\ NoGap' /\ OffsetCoversHandled'
  BY <1>2, <1>4 DEF IInv, TypeOK, ReadCovered, NoGap, OffsetCoversHandled
<1>8. Counted'
  <2>. SUFFICES ASSUME NEW k \in EventId
                PROVE  deliveries'[k] <= Cardinality(Passed(k)') + faults
    BY <1>2 DEF Counted
  <2>1. Passed(k) \subseteq Passed(k)'  BY <1>2 DEF Passed, First, IInv, TypeOK
  <2>2. IsFiniteSet(Passed(k)') /\ IsFiniteSet(Passed(k))
    BY BusAssumption, FS_Subset DEF Passed
  <2>3. /\ Cardinality(Passed(k)) \in Nat /\ Cardinality(Passed(k)') \in Nat
        /\ Cardinality(Passed(k)) <= Cardinality(Passed(k)')
    BY <2>1, <2>2, FS_CardinalityType, FS_Subset
  <2>4. deliveries[k] <= Cardinality(Passed(k)) + faults /\ deliveries[k] \in Nat /\ faults \in Nat
    BY DEF IInv, Counted, TypeOK
  <2>5. CASE k # i  BY <1>4, <2>3, <2>4, <2>5
  <2>6. CASE k = i
    <3>1. e \notin Passed(i)  BY <1>2, <1>3, PositionType, IdBounds DEF Passed
    <3>2. e \in Passed(i)'  BY <1>1, <1>2 DEF Passed, First, IInv, TypeOK
    <3>3. Passed(i) \cup {e} \subseteq Passed(i)'  BY <2>1, <2>6, <3>2
    <3>4. /\ IsFiniteSet(Passed(i) \cup {e})
          /\ Cardinality(Passed(i) \cup {e}) = Cardinality(Passed(i)) + 1
      BY <2>2, <2>6, <3>1, FS_AddElement
    <3>5. Cardinality(Passed(i) \cup {e}) <= Cardinality(Passed(i)')
      BY <2>2, <2>6, <3>3, FS_Subset
    <3>. QED  BY <1>4, <2>3, <2>4, <2>6, <3>4, <3>5
  <2>. QED  BY <2>5, <2>6
<1>. QED  BY <1>5, <1>6, <1>7, <1>8 DEF IInv

LEMMA CommitOffsetStep == ASSUME IInv, NEW e \in Engine, CommitOffset(e) PROVE IInv'
<1>1. PICK i \in batch[e] : /\ First(e, i) /\ offset' = i
                            /\ last' = [last EXCEPT ![e] = i]
                            /\ batch' = [batch EXCEPT ![e] = @ \ {i}]
  BY DEF CommitOffset
<1>2. /\ handled[e] /\ handled' = [handled EXCEPT ![e] = FALSE]
      /\ UNCHANGED <<clock, request, log, late, deliveries, faults>>
  BY DEF CommitOffset, serverVars
<1>3. /\ last'[e] = i /\ batch'[e] = batch[e] \ {i} /\ ~handled'[e]
      /\ \A f \in Engine \ {e} : last'[f] = last[f] /\ batch'[f] = batch[f] /\ handled'[f] = handled[f]
  BY <1>1, <1>2 DEF IInv, TypeOK
<1>4. i \in EventId /\ i \in log /\ i > last[e] /\ last[e] \in Int /\ i \in Nat /\ i # Unread
  BY <1>1, IdBounds, PositionType DEF IInv, TypeOK, Positions, Unread
<1>5. deliveries[i] > 0
  <2>1. PICK j \in batch[e] : First(e, j) /\ deliveries[j] > 0  BY <1>2 DEF IInv, Positions
  <2>2. j = i  BY <1>1, <2>1, PositionType, IdBounds DEF First
  <2>. QED  BY <2>1, <2>2
<1>6. \A k \in log : k <= i => deliveries[k] > 0 \/ k \in late
  <2>. SUFFICES ASSUME NEW k \in log, k <= i, k # i PROVE deliveries[k] > 0 \/ k \in late
    BY <1>5
  <2>1. k < i  BY <1>4, PositionType
  <2>2. k \notin batch[e]  BY <1>1, <1>4, <2>1, PositionType DEF First
  <2>. QED  BY <1>1, <2>1, <2>2 DEF IInv, NoGap, ReadCovered
<1>7. TypeOK'
  <2>1. batch' \in [Engine -> SUBSET EventId]  BY <1>1 DEF IInv, TypeOK
  <2>2. Cardinality(batch'[e]) <= BatchSize
    <3>1. IsFiniteSet(batch[e]) /\ IsFiniteSet(batch[e] \ {i})  BY FiniteIds, PositionType
    <3>2. Cardinality(batch[e] \ {i}) <= Cardinality(batch[e])  BY <3>1, FS_Subset
    <3>3. Cardinality(batch[e] \ {i}) \in Nat /\ Cardinality(batch[e]) \in Nat
      BY <3>1, FS_CardinalityType
    <3>. QED  BY <1>3, <3>2, <3>3, BusAssumption DEF IInv, TypeOK
  <2>. QED  BY <1>1, <1>2, <1>3, <1>4, <2>1, <2>2 DEF IInv, TypeOK
<1>8. Positions'
  <2>1. ASSUME NEW j \in batch[e], j # i PROVE j > i
    <3>1. j \in Nat /\ i <= j  BY <1>1, PositionType, IdBounds DEF First
    <3>. QED  BY <1>4, <2>1, <3>1
  <2>. QED  BY <1>2, <1>3, <1>4, <2>1 DEF IInv, Positions, First
<1>9. ReadCovered' /\ OffsetCoversHandled'
  BY <1>1, <1>2, <1>3, <1>6 DEF IInv, ReadCovered, OffsetCoversHandled
<1>10. NoGap'
  <2>1. ASSUME NEW j \in batch[e] \ {i}, NEW k \in log, k < j
        PROVE  k \in batch[e] \ {i} \/ k <= i \/ k \in late
    BY <1>4, <2>1, PositionType DEF IInv, NoGap
  <2>. QED  BY <1>2, <1>3, <2>1 DEF IInv, NoGap
<1>11. Counted'
  <2>1. ASSUME NEW k \in EventId, NEW f \in Passed(k) PROVE f \in Passed(k)'
    <3>1. CASE f # e  BY <1>3, <2>1, <3>1 DEF Passed, First
    <3>2. CASE f = e
      <4>1. last[e] >= k \/ First(e, k)  BY <2>1, <3>2 DEF Passed
      <4>2. First(e, k) => k = i  BY <1>1, PositionType, IdBounds DEF First
      <4>3. i >= k  BY <1>4, <4>1, <4>2, IdBounds
      <4>. QED  BY <1>3, <3>2, <4>3 DEF Passed
    <3>. QED  BY <3>1, <3>2
  <2>. QED  BY <1>2, <1>7, <2>1, CountKept
<1>. QED  BY <1>7, <1>8, <1>9, <1>10, <1>11 DEF IInv

(* A batch that is dropped and a position that is forgotten take nothing from the  *)
(* others.                                                                         *)
LEMMA DropBatchStep ==
  ASSUME IInv, NEW e \in Engine, faults < MaxFaults, faults' = faults + 1,
         last' = last \/ last' = [last EXCEPT ![e] = Unread],
         batch' = [batch EXCEPT ![e] = {}], handled' = [handled EXCEPT ![e] = FALSE],
         UNCHANGED <<serverVars, offset, deliveries>>
  PROVE  IInv'
<1>1. /\ batch'[e] = {} /\ ~handled'[e] /\ (last'[e] = last[e] \/ last'[e] = Unread)
      /\ \A f \in Engine \ {e} : last'[f] = last[f] /\ batch'[f] = batch[f] /\ handled'[f] = handled[f]
      /\ UNCHANGED <<clock, request, log, late>>
  BY DEF IInv, TypeOK, serverVars
<1>2. TypeOK'
  <2>1. batch' \in [Engine -> SUBSET EventId] /\ handled' \in [Engine -> BOOLEAN]
        /\ last' \in [Engine -> EventId \cup {NoId, Unread}]
    BY DEF IInv, TypeOK
  <2>2. \A f \in Engine : Cardinality(batch'[f]) <= BatchSize
    BY <1>1, FS_EmptySet, BusAssumption DEF IInv, TypeOK
  <2>3. faults' \in 0..MaxFaults  BY BusAssumption DEF IInv, TypeOK
  <2>. QED  BY <1>1, <2>1, <2>2, <2>3 DEF IInv, TypeOK
<1>3. Positions' /\ NoGap' /\ OffsetCoversHandled'
  BY <1>1 DEF IInv, Positions, NoGap, OffsetCoversHandled, First
<1>4. ReadCovered'
  BY <1>1, PositionType, IdBounds DEF IInv, TypeOK, ReadCovered, Unread
<1>5. Counted'
  <2>1. \A i \in EventId : Passed(i) \ {e} \subseteq Passed(i)'
    BY <1>1 DEF Passed, First
  <2>. QED  BY <1>2, <2>1, CountFault
<1>. QED  BY <1>2, <1>3, <1>4, <1>5 DEF IInv

LEMMA EveryStep == IInv /\ [Next]_vars => IInv'
<1>. SUFFICES ASSUME IInv, [Next]_vars PROVE IInv'  OBVIOUS
<1>1. CASE Tick  BY <1>1, TickStep
<1>2. ASSUME NEW r \in Request, StartBulkUpdate(r) \/ CommitBulkUpdate(r) \/ Produce(r) PROVE IInv'
  BY <1>2, StartStep, CommitStep, ProduceStep
<1>3. ASSUME NEW e \in Engine, EngineNext(e) PROVE IInv'
  <2>1. CASE HandlerFails(e)  BY <2>1, DropBatchStep DEF HandlerFails
  <2>2. CASE Restart(e)  BY <2>2, DropBatchStep DEF Restart
  <2>. QED  BY <1>3, <2>1, <2>2, PollStep, HandleStep, CommitOffsetStep DEF EngineNext
<1>4. CASE UNCHANGED vars
  BY <1>4 DEF vars, IInv, TypeOK, Positions, ReadCovered, NoGap, OffsetCoversHandled, Counted,
              Passed, First
<1>. QED  BY <1>1, <1>2, <1>3, <1>4 DEF Next, ServerNext

-----------------------------------------------------------------------------
(* Positions, batches, the shared offset and the count of deliveries agree at all    *)
(* times, whatever engines, failures, restarts and late insertions do.               *)
THEOREM InductiveInvariant == Spec => []IInv
BY InitIInv, EveryStep, PTL DEF Spec

(* Every variable has its type; a poll never returns more than a batch.              *)
THEOREM TypeCorrect == Spec => []TypeOK
BY InductiveInvariant, PTL DEF IInv

(* No event below the shared offset is unhandled, unless it was inserted late.       *)
THEOREM CoversHandled == Spec => []OffsetCoversHandled
BY InductiveInvariant, PTL DEF IInv

(* An event is handled at most once per engine and once more per fault.              *)
THEOREM NeedsFault == Spec => []RedeliveryNeedsFault
<1>1. ASSUME IInv, NEW i \in log PROVE deliveries[i] <= Cardinality(Engine) + faults
  <2>1. i \in EventId /\ deliveries[i] \in Nat /\ faults \in Nat  BY <1>1 DEF IInv, TypeOK
  <2>2. deliveries[i] <= Cardinality(Passed(i)) + faults  BY <1>1, <2>1 DEF IInv, Counted
  <2>3. Cardinality(Engine) \in Nat  BY BusAssumption, FS_CardinalityType
  <2>. QED  BY <2>1, <2>2, <2>3, PassedFinite
<1>2. IInv => RedeliveryNeedsFault  BY <1>1 DEF RedeliveryNeedsFault
<1>. QED  BY <1>2, InductiveInvariant, PTL
=============================================================================
