-------------------------- MODULE DeadLetterProofs --------------------------
(***************************************************************************)
(* Proofs about DeadLetters for any number of calls and entries and any    *)
(* length of the queue.                                                    *)
(*                                                                         *)
(* A retry works with the index that it read at the start.  The invariant  *)
(* is that the index still leads to the entry of the retry as long as      *)
(* nobody has changed the list in between, and that the entry has been     *)
(* reprocessed by the time it is overwritten; the tombstone that is swept  *)
(* may be another one than that of the retry, but is no entry.             *)
(***************************************************************************)
EXTENDS DeadLetters, Integers, SequenceTheorems, WellFoundedInduction, TLAPS

Items == {Tombstone} \cup {Entry(e) : e \in Entries}

ClientRecord == [pc : Labels, index : 0..MaxLen, entry : Items]

Retrying == {"ingest", "mark", "sweep"}

\* What a retry knows: of its entry, and of the place it read it from.
RetryInv ==
    \A c \in Clients :
        /\ client[c].pc \in Retrying =>
             \E e \in enqueued : client[c].entry = Entry(e)
        /\ client[c].pc = "mark" => client[c].entry.id \in reprocessed
        /\ ~overlapped /\ client[c].pc \in {"ingest", "mark"} =>
             client[c].index < Len(list) /\ list[client[c].index + 1] = client[c].entry

IInv ==
    /\ TypeOK
    /\ InList \subseteq enqueued
    /\ RetryInv
    /\ UndisturbedLosesNothing

-----------------------------------------------------------------------------
(* Entries in lists.                                                        *)

LEMMA ItemKinds ==
    /\ Tombstone \in Items
    /\ \A e \in Entries : Entry(e) \in Items /\ Entry(e) # Tombstone /\ Entry(e).id = e
    /\ \A v \in Items : v = Tombstone \/ \E e \in Entries : v = Entry(e)
BY DEF Items, Tombstone, Entry

Less == {ss \in Nat \X Nat : ss[1] < ss[2]}

\* A set of numbers has a least one.
LEMMA LeastNumber ==
    ASSUME NEW T \in SUBSET Nat, T # {}
    PROVE  Min(T) \in T /\ \A y \in T : Min(T) <= y
<1>1. IsWellFoundedOn(OpToRel(<, Nat), Nat)
  BY NatLessThanWellFounded
<1>2. IsWellFoundedOn(Less, Nat)
  BY <1>1, Zenon DEF OpToRel, Less
<1>3. PICK x \in T : \A y \in T : ~ (<<y, x>> \in Less)
  BY <1>2, WFMin
<1>4. ASSUME NEW y \in T
      PROVE  x <= y
  <2>1. x \in Nat /\ y \in Nat
    OBVIOUS
  <2>2. <<y, x>> \in Less <=> y < x
    BY <2>1 DEF Less
  <2> QED
    BY <1>3, <2>1, <2>2
<1> QED
  BY <1>4 DEF Min

Has(s, v) == \E i \in 1..Len(s) : s[i] = v

LEMMA InListHas == \A e : e \in InList <=> e \in Entries /\ Has(list, Entry(e))
BY DEF InList, Contains, Has

\* A new entry at the head.
LEMMA PushHas ==
    ASSUME NEW s \in Seq(Items), NEW v \in Items
    PROVE  /\ <<v>> \o s \in Seq(Items)
           /\ \A w : Has(<<v>> \o s, w) <=> w = v \/ Has(s, w)
<1>1. <<v>> \in Seq(Items) /\ Len(<<v>>) = 1 /\ <<v>>[1] = v
  OBVIOUS
<1>2. PICK t : t = <<v>> \o s
  OBVIOUS
<1>3. /\ t \in Seq(Items) /\ Len(t) = 1 + Len(s) /\ Len(s) \in Nat
      /\ \A i \in 1..(1 + Len(s)) : t[i] = IF i <= 1 THEN <<v>>[i] ELSE s[i - 1]
  BY <1>1, <1>2, ConcatProperties, LenProperties
<1>4. t[1] = v
  BY <1>1, <1>3
<1>5. \A i \in 1..Len(s) : t[i + 1] = s[i]
  BY <1>3
<1>6. ASSUME NEW w, Has(t, w)
      PROVE  w = v \/ Has(s, w)
  <2>1. PICK i \in 1..(1 + Len(s)) : t[i] = w
    BY <1>3, <1>6 DEF Has
  <2>2. CASE i = 1
    BY <1>4, <2>1, <2>2
  <2>3. CASE i # 1
    <3>1. i - 1 \in 1..Len(s) /\ t[i] = s[i - 1]
      BY <1>3, <2>3
    <3> QED
      BY <2>1, <3>1 DEF Has
  <2> QED
    BY <2>2, <2>3
<1>7. ASSUME NEW w, w = v \/ Has(s, w)
      PROVE  Has(t, w)
  <2>1. CASE w = v
    BY <1>3, <1>4, <2>1 DEF Has
  <2>2. CASE Has(s, w)
    <3>1. PICK i \in 1..Len(s) : s[i] = w
      BY <2>2 DEF Has
    <3>2. i + 1 \in 1..Len(t) /\ t[i + 1] = w
      BY <1>3, <1>5, <3>1
    <3> QED
      BY <3>2 DEF Has
  <2> QED
    BY <1>7, <2>1, <2>2
<1> QED
  BY <1>2, <1>3, <1>6, <1>7

\* The head of a list that is cut has nothing that the list has not.
LEMMA CutHas ==
    ASSUME NEW s \in Seq(Items), NEW n \in Nat, n <= Len(s)
    PROVE  /\ SubSeq(s, 1, n) \in Seq(Items)
           /\ \A w : Has(SubSeq(s, 1, n), w) => Has(s, w)
<1>1. Len(s) \in Nat
  BY LenProperties
<1>2. \A i \in 1..n : s[i] \in Items
  BY <1>1, ElementOfSeq
<1>3. PICK t : t = SubSeq(s, 1, n)
  OBVIOUS
<1>4. /\ t \in Seq(Items)
      /\ Len(t) = IF 1 <= n THEN n - 1 + 1 ELSE 0
      /\ \A i \in 1..(n - 1 + 1) : t[i] = s[1 + i - 1]
  BY <1>2, <1>3, SubSeqProperties
<1>5. Len(t) = n /\ \A i \in 1..n : t[i] = s[i]
  BY <1>4
<1> QED
  BY <1>1, <1>3, <1>4, <1>5 DEF Has

\* A tombstone is written over one item: the others stay.
LEMMA MarkHas ==
    ASSUME NEW s \in Seq(Items), NEW k \in 1..Len(s)
    PROVE  /\ [s EXCEPT ![k] = Tombstone] \in Seq(Items)
           /\ \A w : Has([s EXCEPT ![k] = Tombstone], w) => w = Tombstone \/ Has(s, w)
           /\ \A w : Has(s, w) => w = s[k] \/ Has([s EXCEPT ![k] = Tombstone], w)
<1>1. PICK t : t = [s EXCEPT ![k] = Tombstone]
  OBVIOUS
<1>2. /\ t \in Seq(Items) /\ Len(t) = Len(s)
      /\ \A j \in 1..Len(s) : t[j] = IF j = k THEN Tombstone ELSE s[j]
  BY <1>1, ItemKinds, ExceptSeq
<1> QED
  BY <1>1, <1>2 DEF Has

\* The first tombstone goes, and nothing else.
LEMMA SweepHas ==
    ASSUME NEW s \in Seq(Items)
    PROVE  /\ RemoveFirst(s, Tombstone) \in Seq(Items)
           /\ \A w : w # Tombstone => (Has(RemoveFirst(s, Tombstone), w) <=> Has(s, w))
<1>1. CASE ~ \E i \in 1..Len(s) : s[i] = Tombstone
  BY <1>1 DEF RemoveFirst
<1>2. CASE \E i \in 1..Len(s) : s[i] = Tombstone
  <2> DEFINE I == {i \in 1..Len(s) : s[i] = Tombstone}
  <2> DEFINE k == Min(I)
  <2> DEFINE n == Len(s)
  <2>1. n \in Nat
    BY LenProperties
  <2>2. I \in SUBSET Nat /\ I # {}
    BY <1>2, <2>1
  <2>3. k \in I
    BY <2>2, LeastNumber
  <2>4. k \in 1..n /\ s[k] = Tombstone
    BY <2>3
  <2>5. RemoveFirst(s, Tombstone) = SubSeq(s, 1, k - 1) \o SubSeq(s, k + 1, n)
    BY <1>2, <2>2 DEF RemoveFirst, SelectInSeq, RemoveAt
  <2> HIDE DEF k, I, n
  <2>6. PICK l : l = SubSeq(s, 1, k - 1)
    OBVIOUS
  <2>7. PICK m : m = SubSeq(s, k + 1, n)
    OBVIOUS
  <2>8. \A i \in 1..n : s[i] \in Items
    BY ElementOfSeq DEF n
  <2>9. l \in Seq(Items) /\ Len(l) = k - 1 /\ \A i \in 1..(k - 1) : l[i] = s[i]
    <3>1. \A i \in 1..(k - 1) : s[i] \in Items
      BY <2>1, <2>4, <2>8
    <3>2. /\ l \in Seq(Items) /\ Len(l) = IF 1 <= k - 1 THEN k - 1 - 1 + 1 ELSE 0
          /\ \A i \in 1..(k - 1 - 1 + 1) : l[i] = s[1 + i - 1]
      BY <2>1, <2>4, <2>6, <3>1, SubSeqProperties
    <3> QED
      BY <2>1, <2>4, <3>2
  <2>10. m \in Seq(Items) /\ Len(m) = n - k /\ \A i \in 1..(n - k) : m[i] = s[k + i]
    <3>1. \A i \in (k + 1)..n : s[i] \in Items
      BY <2>1, <2>4, <2>8
    <3>2. /\ m \in Seq(Items) /\ Len(m) = IF k + 1 <= n THEN n - (k + 1) + 1 ELSE 0
          /\ \A i \in 1..(n - (k + 1) + 1) : m[i] = s[k + 1 + i - 1]
      BY <2>1, <2>4, <2>7, <3>1, SubSeqProperties
    <3> QED
      BY <2>1, <2>4, <3>2
  <2>11. PICK t : t = l \o m
    OBVIOUS
  <2>12. /\ t \in Seq(Items) /\ Len(t) = n - 1
         /\ \A i \in 1..(n - 1) : t[i] = IF i <= k - 1 THEN s[i] ELSE s[i + 1]
    <3>1. /\ t \in Seq(Items) /\ Len(t) = Len(l) + Len(m)
          /\ \A i \in 1..(Len(l) + Len(m)) : t[i] = IF i <= Len(l) THEN l[i] ELSE m[i - Len(l)]
      BY <2>9, <2>10, <2>11, ConcatProperties
    <3>2. Len(t) = n - 1 /\ Len(l) + Len(m) = n - 1
      BY <2>1, <2>4, <2>9, <2>10, <3>1
    <3>3. ASSUME NEW i \in 1..(n - 1)
          PROVE  t[i] = IF i <= k - 1 THEN s[i] ELSE s[i + 1]
      <4>1. CASE i <= k - 1
        BY <2>1, <2>4, <2>9, <3>1, <3>2, <4>1
      <4>2. CASE ~(i <= k - 1)
        <5>1. /\ i - (k - 1) \in 1..(n - k) /\ k + (i - (k - 1)) = i + 1
          BY <2>1, <2>4, <4>2
        <5>2. t[i] = m[i - (k - 1)]
          BY <2>9, <3>1, <3>2, <4>2
        <5> QED
          BY <2>10, <4>2, <5>1, <5>2
      <4> QED
        BY <4>1, <4>2
    <3> QED
      BY <3>1, <3>2, <3>3
  <2>13. ASSUME NEW w, Has(t, w)
         PROVE  Has(s, w)
    <3>1. PICK i \in 1..(n - 1) : t[i] = w
      BY <2>12, <2>13 DEF Has
    <3>2. i \in 1..n /\ i + 1 \in 1..n /\ (s[i] = w \/ s[i + 1] = w)
      BY <2>1, <2>12, <3>1
    <3> QED
      BY <3>2 DEF Has, n
  <2>14. ASSUME NEW w, w # Tombstone, Has(s, w)
         PROVE  Has(t, w)
    <3>1. PICK i \in 1..n : s[i] = w
      BY <2>14 DEF Has, n
    <3>2. i # k
      BY <2>4, <2>14, <3>1
    <3>3. CASE i < k
      <4>1. i \in 1..(n - 1) /\ t[i] = w
        BY <2>1, <2>4, <2>12, <3>1, <3>3
      <4> QED
        BY <2>12, <4>1 DEF Has
    <3>4. CASE i > k
      <4>1. i - 1 \in 1..(n - 1) /\ ~(i - 1 <= k - 1) /\ (i - 1) + 1 = i
        BY <2>1, <2>4, <3>4
      <4>2. t[i - 1] = w
        BY <2>12, <3>1, <4>1
      <4> QED
        BY <2>12, <4>1, <4>2 DEF Has
    <3> QED
      BY <2>4, <3>2, <3>3, <3>4
  <2> QED
    BY <2>5, <2>6, <2>7, <2>11, <2>12, <2>13, <2>14
<1> QED
  BY <1>1, <1>2

-----------------------------------------------------------------------------
(* The parts of the state.                                                  *)

LEMMA Types ==
    ASSUME IInv
    PROVE  /\ list \in Seq(Items) /\ client \in [Clients -> ClientRecord]
           /\ enqueued \subseteq Entries /\ reprocessed \subseteq enqueued
           /\ dropped \subseteq enqueued /\ faults \in 0..MaxFaults /\ overlapped \in BOOLEAN
           /\ InList \subseteq enqueued /\ RetryInv /\ UndisturbedLosesNothing
           /\ MaxLen \in Nat \ {0} /\ MaxFaults \in Nat
BY BoundsAssumption DEF IInv, TypeOK, Items, ClientRecord

\* The list after a step, and what the step has dropped.
ListStep ==
    /\ list' \in Seq(Items)
    /\ enqueued' \subseteq Entries /\ enqueued \subseteq enqueued'
    /\ dropped' \subseteq enqueued' /\ dropped \subseteq dropped'
    /\ reprocessed' \subseteq enqueued' /\ reprocessed \subseteq reprocessed'
    /\ \A e \in Entries : Has(list', Entry(e)) => e \in enqueued'
    /\ ~overlapped => \A e \in enqueued' :
         (e \in enqueued /\ ~Has(list, Entry(e))) \/ Has(list', Entry(e)) \/ e \in reprocessed' \cup dropped'

\* Call c becomes u.  If it changes the list, nobody else is retrying, or
\* is known to have been disturbed.
CallStep(c, u) ==
    /\ u \in ClientRecord
    /\ client' = [client EXCEPT ![c] = u]
    /\ u.pc \in Retrying => \E e \in enqueued' : u.entry = Entry(e)
    /\ u.pc = "mark" => u.entry.id \in reprocessed'
    /\ ~overlapped' /\ u.pc \in {"ingest", "mark"} =>
         u.index < Len(list') /\ list'[u.index + 1] = u.entry
    /\ overlapped' \in BOOLEAN /\ (overlapped => overlapped')
    /\ list' = list \/ Disturbs(c)

LEMMA StepKeeps ==
    ASSUME IInv, NEW c \in Clients, NEW u, CallStep(c, u), ListStep, faults' \in 0..MaxFaults
    PROVE  IInv'
<1>1. client' \in [Clients -> ClientRecord] /\ client'[c] = u
      /\ \A d \in Clients \ {c} : client'[d] = client[d]
  BY Types DEF CallStep
<1>2. TypeOK'
  BY <1>1, Types DEF TypeOK, ListStep, CallStep, Items, ClientRecord
<1>3. \A e : e \in InList' <=> e \in Entries /\ Has(list', Entry(e))
  BY DEF InList, Contains, Has
<1>4. InList' \subseteq enqueued'
  BY <1>3 DEF ListStep
<1>5. RetryInv'
  <2>1. ASSUME NEW d \in Clients, d # c
        PROVE  /\ client'[d].pc \in Retrying => \E e \in enqueued' : client'[d].entry = Entry(e)
               /\ client'[d].pc = "mark" => client'[d].entry.id \in reprocessed'
               /\ ~overlapped' /\ client'[d].pc \in {"ingest", "mark"} =>
                    client'[d].index < Len(list') /\ list'[client'[d].index + 1] = client'[d].entry
    <3>1. client'[d] = client[d]
      BY <1>1, <2>1
    <3>2. /\ client[d].pc \in Retrying => \E e \in enqueued' : client[d].entry = Entry(e)
          /\ client[d].pc = "mark" => client[d].entry.id \in reprocessed'
      BY Types DEF RetryInv, ListStep
    <3>3. ASSUME ~overlapped', client[d].pc \in {"ingest", "mark"}
          PROVE  client[d].index < Len(list') /\ list'[client[d].index + 1] = client[d].entry
      <4>1. ~overlapped
        BY <3>3 DEF CallStep
      <4>2. ~Disturbs(c)
        BY <2>1, <3>3 DEF Disturbs
      <4>3. list' = list
        BY <4>2 DEF CallStep
      <4> QED
        BY <3>3, <4>1, <4>3, Types DEF RetryInv
    <3> QED
      BY <3>1, <3>2, <3>3
  <2>2. /\ client'[c].pc \in Retrying => \E e \in enqueued' : client'[c].entry = Entry(e)
        /\ client'[c].pc = "mark" => client'[c].entry.id \in reprocessed'
        /\ ~overlapped' /\ client'[c].pc \in {"ingest", "mark"} =>
             client'[c].index < Len(list') /\ list'[client'[c].index + 1] = client'[c].entry
    BY <1>1 DEF CallStep
  <2> QED
    BY <2>1, <2>2 DEF RetryInv
<1>6. UndisturbedLosesNothing'
  <2>1. SUFFICES ASSUME ~overlapped', NEW e \in enqueued'
                 PROVE  e \in InList' \cup reprocessed' \cup dropped'
    BY DEF UndisturbedLosesNothing, Lost
  <2>2. ~overlapped
    BY <2>1 DEF CallStep
  <2>3. e \in enqueued /\ ~Has(list, Entry(e)) => e \in reprocessed' \cup dropped'
    BY <2>2, InListHas, Types DEF UndisturbedLosesNothing, Lost, ListStep
  <2> QED
    BY <1>3, <2>1, <2>2, <2>3 DEF ListStep
<1> QED
  BY <1>2, <1>4, <1>5, <1>6 DEF IInv

\* A step that leaves the list and the entries alone.
LEMMA SameList ==
    ASSUME IInv, UNCHANGED <<list, enqueued, dropped>>,
           reprocessed \subseteq reprocessed', reprocessed' \subseteq enqueued
    PROVE  ListStep
<1>1. \A e \in Entries : Has(list, Entry(e)) => e \in enqueued
  BY InListHas, Types
<1> QED
  BY <1>1, Types DEF ListStep

LEMMA DisturbsType ==
    ASSUME IInv, NEW c \in Clients, Disturbs(c)
    PROVE  overlapped' \in BOOLEAN /\ (overlapped => overlapped')
BY Types DEF Disturbs

\* A call goes on to a place where it needs nothing of the list.
LEMMA GotoStep ==
    ASSUME IInv, NEW c \in Clients, NEW label \in Labels, Goto(c, label),
           label \notin {"ingest", "mark"},
           label = "sweep" => client[c].pc \in Retrying,
           enqueued \subseteq enqueued',
           Disturbs(c) \/ UNCHANGED <<list, overlapped>>
    PROVE  \E u : CallStep(c, u)
<1> DEFINE v == [client[c] EXCEPT !.pc = label]
<1>1. client[c] \in ClientRecord
  BY Types
<1>2. v \in ClientRecord /\ v.pc = label /\ v.entry = client[c].entry
  BY <1>1 DEF ClientRecord
<1>3. client' = [client EXCEPT ![c] = v]
  BY Types DEF Goto
<1>4. label \in Retrying => \E e \in enqueued' : client[c].entry = Entry(e)
  BY Types DEF RetryInv, Retrying
<1>5. overlapped' \in BOOLEAN /\ (overlapped => overlapped')
  BY DisturbsType, Types
<1>6. list' = list \/ Disturbs(c)
  OBVIOUS
<1> HIDE DEF v
<1>7. CallStep(c, v)
  BY <1>2, <1>3, <1>4, <1>5, <1>6 DEF CallStep
<1> QED
  BY <1>7

-----------------------------------------------------------------------------
(* The actions.                                                             *)

LEMMA InitInv == Init => IInv
<1> SUFFICES ASSUME Init PROVE IInv
  OBVIOUS
<1>1. Idle \in ClientRecord /\ Idle.pc = "idle"
  BY ItemKinds, BoundsAssumption DEF Idle, ClientRecord, Labels
<1>2. list \in Seq(Items) /\ Len(list) = 0
  BY EmptySeq DEF Init
<1>3. TypeOK
  <2>1. client \in [Clients -> ClientRecord]
    BY <1>1 DEF Init
  <2>2. enqueued = {} /\ reprocessed = {} /\ dropped = {} /\ faults = 0 /\ overlapped = FALSE
    BY DEF Init
  <2>3. enqueued \subseteq Entries /\ reprocessed \subseteq enqueued /\ dropped \subseteq enqueued
    BY <2>2
  <2>4. faults \in 0 .. MaxFaults
    BY <2>2, BoundsAssumption
  <2>5. overlapped \in BOOLEAN
    BY <2>2
  <2> QED
    BY <1>2, <2>1, <2>3, <2>4, <2>5 DEF TypeOK, Items, ClientRecord
<1>4. InList \subseteq enqueued
  BY <1>2, InListHas DEF Has
<1>5. RetryInv
  BY <1>1 DEF Init, RetryInv, Retrying
<1>6. UndisturbedLosesNothing
  BY DEF Init, UndisturbedLosesNothing, Lost
<1> QED
  BY <1>3, <1>4, <1>5, <1>6 DEF IInv

LEMMA PushInv ==
    ASSUME IInv, NEW c \in Clients, Push(c)
    PROVE  IInv'
<1>1. PICK e \in Entries \ enqueued : list' = <<Entry(e)>> \o list /\ enqueued' = enqueued \cup {e}
  BY DEF Push
<1>2. /\ Goto(c, "trim") /\ Disturbs(c)
      /\ reprocessed' = reprocessed /\ dropped' = dropped /\ faults' = faults
  BY DEF Push
<1>3. list' \in Seq(Items) /\ \A w : Has(list', w) <=> w = Entry(e) \/ Has(list, w)
  BY <1>1, ItemKinds, PushHas, Types
<1>4. ASSUME NEW f \in Entries, Has(list', Entry(f))
      PROVE  f \in enqueued'
  BY <1>1, <1>3, <1>4, ItemKinds, InListHas, Types
<1>5. ListStep
  BY <1>1, <1>2, <1>3, <1>4, Types DEF ListStep
<1>6. PICK u : CallStep(c, u)
  BY <1>1, <1>2, GotoStep DEF Labels
<1> QED
  BY <1>2, <1>5, <1>6, StepKeeps, Types

LEMMA TrimInv ==
    ASSUME IInv, NEW c \in Clients, Trim(c)
    PROVE  IInv'
<1>1. /\ list' = IF Len(list) > MaxLen THEN SubSeq(list, 1, MaxLen) ELSE list
      /\ dropped' = dropped \cup {e \in InList : ~Contains(list', Entry(e))}
      /\ Goto(c, "done") /\ Disturbs(c)
      /\ reprocessed' = reprocessed /\ enqueued' = enqueued /\ faults' = faults
  BY DEF Trim
<1>2. list' \in Seq(Items) /\ \A w : Has(list', w) => Has(list, w)
  <2>1. CASE Len(list) > MaxLen
    <3>1. MaxLen \in Nat /\ MaxLen <= Len(list)
      BY <2>1, Types, LenProperties
    <3> QED
      BY <1>1, <2>1, <3>1, CutHas, Types
  <2>2. CASE ~(Len(list) > MaxLen)
    BY <1>1, <2>2, Types
  <2> QED
    BY <2>1, <2>2
<1>3. \A e \in InList : Has(list', Entry(e)) \/ e \in dropped'
  BY <1>1 DEF Contains, Has
<1>4. ASSUME NEW e \in Entries, Has(list', Entry(e))
      PROVE  e \in enqueued'
  BY <1>1, <1>2, <1>4, InListHas, Types
<1>5. ASSUME NEW e \in enqueued'
      PROVE  (e \in enqueued /\ ~Has(list, Entry(e))) \/ Has(list', Entry(e)) \/ e \in dropped'
  BY <1>1, <1>3, InListHas, Types
<1>6. ListStep
  BY <1>1, <1>2, <1>4, <1>5, Types DEF ListStep
<1>7. PICK u : CallStep(c, u)
  BY <1>1, GotoStep DEF Labels
<1> QED
  BY <1>1, <1>6, <1>7, StepKeeps, Types

LEMMA FaultType ==
    ASSUME IInv, Fault
    PROVE  faults' \in 0..MaxFaults
BY Types DEF Fault

LEMMA TrimFailsInv ==
    ASSUME IInv, NEW c \in Clients, TrimFails(c)
    PROVE  IInv'
<1>1. /\ Goto(c, "done") /\ faults' \in 0..MaxFaults
      /\ UNCHANGED <<list, enqueued, reprocessed, dropped, overlapped>>
  BY FaultType DEF TrimFails
<1>2. PICK u : CallStep(c, u)
  BY <1>1, GotoStep DEF Labels
<1> QED
  BY <1>1, <1>2, SameList, StepKeeps, Types

LEMMA FetchInv ==
    ASSUME IInv, NEW c \in Clients, Fetch(c)
    PROVE  IInv'
<1>1. PICK i \in 0..MaxLen :
        client' = [client EXCEPT ![c] =
            IF i < Len(list) /\ list[i + 1] # Tombstone
            THEN [pc |-> "ingest", index |-> i, entry |-> list[i + 1]]
            ELSE [Idle EXCEPT !.pc = "done"]]
  BY DEF Fetch
<1>2. UNCHANGED <<list, enqueued, reprocessed, dropped, faults, overlapped>>
  BY DEF Fetch
<1>3. i \in Nat /\ Len(list) \in Nat
  BY Types, LenProperties
<1>4. CASE i < Len(list) /\ list[i + 1] # Tombstone
  <2> DEFINE v == [pc |-> "ingest", index |-> i, entry |-> list[i + 1]]
  <2>1. i + 1 \in 1..Len(list)
    BY <1>3, <1>4
  <2>2. list[i + 1] \in Items
    BY <2>1, ElementOfSeq, Types
  <2>3. PICK e \in Entries : list[i + 1] = Entry(e)
    BY <1>4, <2>2, ItemKinds
  <2>4. e \in enqueued
    BY <2>1, <2>3, InListHas, Types DEF Has
  <2>5. v \in ClientRecord /\ v.pc = "ingest" /\ v.index = i /\ v.entry = list[i + 1]
    BY <2>2 DEF ClientRecord, Labels
  <2>6. client' = [client EXCEPT ![c] = v]
    BY <1>1, <1>4
  <2> HIDE DEF v
  <2>7. CallStep(c, v)
    BY <1>2, <1>4, <2>3, <2>4, <2>5, <2>6, Types DEF CallStep
  <2> QED
    BY <1>2, <2>7, SameList, StepKeeps, Types
<1>5. CASE ~(i < Len(list) /\ list[i + 1] # Tombstone)
  <2> DEFINE v == [Idle EXCEPT !.pc = "done"]
  <2>1. v \in ClientRecord /\ v.pc = "done"
    BY ItemKinds, Types DEF ClientRecord, Labels, Idle
  <2>2. client' = [client EXCEPT ![c] = v]
    BY <1>1, <1>5
  <2> HIDE DEF v
  <2>3. CallStep(c, v)
    BY <1>2, <2>1, <2>2, Types DEF CallStep, Retrying
  <2> QED
    BY <1>2, <2>3, SameList, StepKeeps, Types
<1> QED
  BY <1>4, <1>5

LEMMA IngestInv ==
    ASSUME IInv, NEW c \in Clients, Ingest(c)
    PROVE  IInv'
<1>1. /\ client[c].pc = "ingest"
      /\ UNCHANGED <<list, enqueued, dropped, faults, overlapped>>
  BY DEF Ingest, At
<1>2. PICK e \in enqueued : client[c].entry = Entry(e)
  BY <1>1, Types DEF RetryInv, Retrying
<1>3. CASE Goto(c, "mark") /\ reprocessed' = reprocessed \cup {client[c].entry.id}
  <2> DEFINE v == [client[c] EXCEPT !.pc = "mark"]
  <2>1. client[c].entry.id = e /\ client[c] \in ClientRecord
    BY <1>2, ItemKinds, Types
  <2>2. /\ v \in ClientRecord /\ v.pc = "mark" /\ v.entry = client[c].entry
        /\ v.index = client[c].index
    BY <2>1 DEF ClientRecord, Labels
  <2>3. client' = [client EXCEPT ![c] = v]
    BY <1>3, Types DEF Goto
  <2>4. ~overlapped => client[c].index < Len(list) /\ list[client[c].index + 1] = client[c].entry
    BY <1>1, Types DEF RetryInv
  <2> HIDE DEF v
  <2>5. CallStep(c, v)
    BY <1>1, <1>2, <1>3, <2>1, <2>2, <2>3, <2>4, Types DEF CallStep
  <2>6. reprocessed \subseteq reprocessed' /\ reprocessed' \subseteq enqueued
    BY <1>2, <1>3, <2>1, Types
  <2> QED
    BY <1>1, <2>5, <2>6, SameList, StepKeeps, Types
<1>4. CASE Goto(c, "done") /\ reprocessed' = reprocessed
  <2>1. PICK u : CallStep(c, u)
    BY <1>1, <1>4, GotoStep DEF Labels
  <2> QED
    BY <1>1, <1>4, <2>1, SameList, StepKeeps, Types
<1> QED
  BY <1>3, <1>4 DEF Ingest

\* The tombstone goes over the entry of the retry, if nobody disturbed it.
LEMMA MarkInv ==
    ASSUME IInv, NEW c \in Clients, Mark(c)
    PROVE  IInv'
<1>1. PICK i : i = client[c].index
  OBVIOUS
<1>2. /\ client[c].pc = "mark" /\ Goto(c, "sweep") /\ Disturbs(c)
      /\ list' = IF i < Len(list) THEN [list EXCEPT ![i + 1] = Tombstone] ELSE list
      /\ UNCHANGED <<enqueued, reprocessed, dropped, faults>>
  BY <1>1 DEF Mark, At
<1>3. i \in Nat /\ Len(list) \in Nat
  BY <1>1, Types, LenProperties DEF ClientRecord
<1>4. /\ list' \in Seq(Items)
      /\ \A w : Has(list', w) => w = Tombstone \/ Has(list, w)
      /\ \A w : Has(list, w) => Has(list', w) \/ (i < Len(list) /\ w = list[i + 1])
  <2>1. CASE i < Len(list)
    <3>1. i + 1 \in 1..Len(list)
      BY <1>3, <2>1
    <3> QED
      BY <1>2, <2>1, <3>1, MarkHas, Types
  <2>2. CASE ~(i < Len(list))
    BY <1>2, <2>2, Types
  <2> QED
    BY <2>1, <2>2
<1>5. ASSUME NEW e \in Entries, Has(list', Entry(e))
      PROVE  e \in enqueued'
  BY <1>2, <1>4, <1>5, ItemKinds, InListHas, Types
<1>6. ASSUME ~overlapped, NEW e \in enqueued'
      PROVE  (e \in enqueued /\ ~Has(list, Entry(e))) \/ Has(list', Entry(e)) \/ e \in reprocessed'
  <2>1. e \in Entries /\ e \in enqueued
    BY <1>2, Types
  <2>2. CASE i < Len(list) /\ Entry(e) = list[i + 1]
    <3>1. client[c].entry = Entry(e) /\ client[c].entry.id \in reprocessed
      BY <1>1, <1>2, <1>6, <2>2, Types DEF RetryInv
    <3> QED
      BY <1>2, <2>1, <3>1, ItemKinds
  <2>3. CASE ~(i < Len(list) /\ Entry(e) = list[i + 1])
    BY <1>4, <2>1, <2>3
  <2> QED
    BY <2>2, <2>3
<1>7. ListStep
  BY <1>2, <1>4, <1>5, <1>6, Types DEF ListStep
<1>8. PICK u : CallStep(c, u)
  BY <1>2, GotoStep DEF Labels, Retrying
<1> QED
  BY <1>2, <1>7, <1>8, StepKeeps, Types

LEMMA SweepInv ==
    ASSUME IInv, NEW c \in Clients, Sweep(c)
    PROVE  IInv'
<1>1. /\ list' = RemoveFirst(list, Tombstone) /\ Goto(c, "done") /\ Disturbs(c)
      /\ UNCHANGED <<enqueued, reprocessed, dropped, faults>>
  BY DEF Sweep
<1>2. /\ list' \in Seq(Items)
      /\ \A e \in Entries : Has(list', Entry(e)) <=> Has(list, Entry(e))
  BY <1>1, SweepHas, ItemKinds, Types
<1>3. ASSUME NEW e \in Entries, Has(list', Entry(e))
      PROVE  e \in enqueued'
  BY <1>1, <1>2, <1>3, InListHas, Types
<1>4. ListStep
  BY <1>1, <1>2, <1>3, Types DEF ListStep
<1>5. PICK u : CallStep(c, u)
  BY <1>1, GotoStep DEF Labels
<1> QED
  BY <1>1, <1>4, <1>5, StepKeeps, Types

LEMMA RemoveFailsInv ==
    ASSUME IInv, NEW c \in Clients, RemoveFails(c)
    PROVE  IInv'
<1>1. /\ client[c].pc \in {"mark", "sweep"} /\ faults' \in 0..MaxFaults
      /\ Goto(c, "sweep") \/ Goto(c, "done")
      /\ UNCHANGED <<list, enqueued, reprocessed, dropped, overlapped>>
  BY FaultType DEF RemoveFails
<1>2. \E u : CallStep(c, u)
  <2>1. CASE Goto(c, "sweep")
    BY <1>1, <2>1, GotoStep DEF Labels, Retrying
  <2>2. CASE Goto(c, "done")
    BY <1>1, <2>2, GotoStep DEF Labels
  <2> QED
    BY <1>1, <2>1, <2>2
<1> QED
  BY <1>1, <1>2, SameList, StepKeeps, Types

LEMMA PurgeInv ==
    ASSUME IInv, NEW c \in Clients, Purge(c)
    PROVE  IInv'
<1>1. /\ list' = <<>> /\ dropped' = dropped \cup InList /\ Goto(c, "done") /\ Disturbs(c)
      /\ UNCHANGED <<enqueued, reprocessed, faults>>
  BY DEF Purge
<1>2. list' \in Seq(Items) /\ \A w : ~Has(list', w)
  BY <1>1, EmptySeq DEF Has
<1>3. ASSUME NEW e \in enqueued'
      PROVE  (e \in enqueued /\ ~Has(list, Entry(e))) \/ e \in dropped'
  BY <1>1, InListHas, Types
<1>4. ListStep
  BY <1>1, <1>2, <1>3, Types DEF ListStep
<1>5. PICK u : CallStep(c, u)
  BY <1>1, GotoStep DEF Labels
<1> QED
  BY <1>1, <1>4, <1>5, StepKeeps, Types

LEMMA StepInv == IInv /\ [Next]_vars => IInv'
<1> SUFFICES ASSUME IInv, [Next]_vars PROVE IInv'
  OBVIOUS
<1>1. CASE Next
  BY <1>1, PushInv, TrimInv, TrimFailsInv, FetchInv, IngestInv, MarkInv, SweepInv,
     RemoveFailsInv, PurgeInv DEF Next
<1>2. CASE UNCHANGED vars
  BY <1>2 DEF vars, IInv, TypeOK, InList, RetryInv, UndisturbedLosesNothing, Lost
<1> QED
  BY <1>1, <1>2

LEMMA Invariant == Spec => []IInv
BY InitInv, StepInv, PTL DEF Spec

-----------------------------------------------------------------------------

\* The list and the calls keep their types: the queue holds entries and
\* tombstones only, and nothing that was not enqueued.
THEOREM DeadLetterTypes == Spec => []TypeOK
<1>1. IInv => TypeOK
  BY DEF IInv
<1> QED
  BY <1>1, Invariant, PTL

\* As long as the list stands still under every retry, an entry leaves it
\* only reprocessed, trimmed or purged, whatever LSet and LRem leave behind.
THEOREM RetriesLoseNothing == Spec => []UndisturbedLosesNothing
<1>1. IInv => UndisturbedLosesNothing
  BY DEF IInv
<1> QED
  BY <1>1, Invariant, PTL

=============================================================================
