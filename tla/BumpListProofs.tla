---------------------------- MODULE BumpListProofs ----------------------------
(***************************************************************************)
(* Proofs about the BumpList script, for every number of persons, places   *)
(* and scripts and under every fault.                                      *)
(*                                                                         *)
(* Nothing is relied on between one call and the next but what the script  *)
(* holds itself: a list it has read is a list somebody wrote, so it has    *)
(* its length and nobody twice (FullList), whatever became of the file     *)
(* since.  Only what a step does to the list that is in the file needs     *)
(* that no other script has written it in the meantime (AloneInv).         *)
(***************************************************************************)
EXTENDS BumpList, SequenceTheorems, WellFoundedInduction, TLAPS

\* Entries that belong together: nobody twice, all with a bump to spare.
Distinct(L) ==
  /\ L \in Seq(Record)
  /\ \A i, j \in 1..Len(L) : L[i].userId = L[j].userId => i = j
  /\ \A i \in 1..Len(L) : L[i].numBumps < L[i].numSubscribes

FullList(L) == Distinct(L) /\ Len(L) = Len(Seed)

Covered(p) == p \in Record /\ p.numBumps <= p.numSubscribes

DistinctTop(top) == \A i, j \in DOMAIN top : top[i].userId = top[j].userId /\ top[i].userId # NONE => i = j

FileOK(f) ==
  /\ f \in File
  /\ FullList(f.list)
  /\ \A u \in Person : f.stat[u] # NONE => Covered(f.stat[u]) /\ f.stat[u].userId = u
  /\ DistinctTop(f.topBumps) /\ DistinctTop(f.topPosts)

\* A subscriber has made room for the one who comes.
RoomMade(r) ==
  r.subject = "subscribe" /\ Distinct(r.subscribers) /\ Len(r.subscribers) = Len(Seed) - 1 /\ ~Listed(r.subscribers, r.from)

RunInv(r) ==
  /\ r.pc # "idle" /\ r.pc \notin {"page+1"} => r.from \in Person /\ r.subject \in {"subscribe", "message"}
  /\ r.pc \in {"bumps", "bumps+1"} =>
       /\ r.subject = "subscribe" /\ ~Listed(r.subscribers, r.from)
       /\ r.subscribers = <<>> \/ FullList(r.subscribers)
  /\ r.pc \in {"unsub", "entry", "resubs", "resubs+1", "entry+1"} => RoomMade(r)
  /\ r.pc \in {"top", "top+1"} /\ r.subject = "subscribe" => RoomMade(r)
  /\ r.pc \in {"poster", "subjects", "messages", "messages+1", "stats"} => r.subject = "message" /\ FullList(r.subscribers)
  /\ r.pc \in {"top", "top+1"} /\ r.subject = "message" => FullList(r.subscribers)
  /\ r.pc \in {"unsub", "top", "top+1"} => Covered(r.person)
  /\ r.pc \in {"resubs", "resubs+1", "entry+1"} =>
       r.person \in Record /\ r.person.userId = r.from /\ r.person.numBumps < r.person.numSubscribes
  /\ r.pc = "top+1" => r.top \in Ranking /\ DistinctTop(r.top)
  /\ r.pc = "stats" => r.count \in 1..Len(r.subscribers)
  /\ r.pc = "list+1" => FullList(r.subscribers)

BumpInv == TypeOK /\ FileOK(file) /\ \A s \in Script : RunInv(run[s])
-----------------------------------------------------------------------------
(***************************************************************************)
(* Lists and top lists.                                                    *)
(***************************************************************************)
LEMMA SeedLength == Len(Seed) \in Nat /\ Len(Seed) >= 1
  BY SeedAssumption

LEMMA RecordTyped ==
  ASSUME NEW p \in Record
  PROVE  /\ p.userId \in Person /\ p.numPosts \in Nat /\ p.numSubscribes \in Nat /\ p.numBumps \in Nat
         /\ p # NONE /\ p.userId # NONE
         /\ Subscribed(p) \in Record /\ Subscribed(p).userId = p.userId /\ Subscribed(p).numBumps = p.numBumps
         /\ Subscribed(p).numSubscribes = p.numSubscribes + 1
         /\ Bumped(p) \in Record /\ Bumped(p).userId = p.userId /\ Bumped(p).numBumps = p.numBumps + 1
         /\ Bumped(p).numSubscribes = p.numSubscribes
  BY NoneAssumption DEF Record, Subscribed, Bumped

LEMMA BumpCovers ==
  ASSUME NEW p \in Record, p.numBumps < p.numSubscribes
  PROVE  Covered(p) /\ Covered(Bumped(p))
  <1>1. /\ p.numSubscribes \in Nat /\ p.numBumps \in Nat /\ Bumped(p) \in Record
        /\ Bumped(p).numBumps = p.numBumps + 1 /\ Bumped(p).numSubscribes = p.numSubscribes
    BY RecordTyped
  <1> QED BY <1>1 DEF Covered

LEMMA UnknownTyped ==
  ASSUME NEW u \in Person
  PROVE  Covered(Unknown(u)) /\ Unknown(u).userId = u /\ Unknown(u).numSubscribes = 0 /\ Unknown(u).numBumps = 0
  BY DEF Unknown, Covered, Record

LEMMA ListedIn ==
  ASSUME NEW L \in Seq(Record), NEW u
  PROVE  Listed(L, u) <=> \E i \in 1..Len(L) : L[i].userId = u
  BY DEF Listed, Position

LEMMA HeadLeaves ==
  ASSUME NEW L, FullList(L)
  PROVE  /\ L # <<>> /\ Head(L) \in Record /\ Head(L).numBumps < Head(L).numSubscribes
         /\ Distinct(Tail(L)) /\ Len(Tail(L)) = Len(Seed) - 1
         /\ \A u : Listed(Tail(L), u) => Listed(L, u)
         /\ \A i \in 1..Len(Tail(L)) : Tail(L)[i] = L[i + 1]
  <1>1. L \in Seq(Record) /\ Len(L) \in Nat /\ Len(L) >= 1 /\ L # <<>>
    BY SeedLength DEF FullList, Distinct
  <1>2. Tail(L) \in Seq(Record) /\ Len(Tail(L)) = Len(L) - 1
    BY <1>1
  <1>3. \A i \in 1..Len(Tail(L)) : Tail(L)[i] = L[i + 1] /\ i + 1 \in 1..Len(L)
    BY <1>1, <1>2
  <1>4. Head(L) = L[1] /\ L[1] \in Record /\ 1 \in 1..Len(L)
    BY <1>1
  <1>5. Head(L).numBumps < Head(L).numSubscribes
    BY <1>4 DEF FullList, Distinct
  <1>6. Distinct(Tail(L))
    <2>1. \A i, j \in 1..Len(Tail(L)) : Tail(L)[i].userId = Tail(L)[j].userId => i = j
      <3> SUFFICES ASSUME NEW i \in 1..Len(Tail(L)), NEW j \in 1..Len(Tail(L)), Tail(L)[i].userId = Tail(L)[j].userId
                   PROVE  i = j
        OBVIOUS
      <3>1. i + 1 = j + 1
        BY <1>3 DEF FullList, Distinct
      <3> QED BY <1>1, <1>2, <3>1
    <2>2. \A i \in 1..Len(Tail(L)) : Tail(L)[i].numBumps < Tail(L)[i].numSubscribes
      BY <1>3 DEF FullList, Distinct
    <2> QED BY <1>2, <2>1, <2>2 DEF Distinct
  <1>7. ASSUME NEW u, Listed(Tail(L), u) PROVE Listed(L, u)
    <2>1. PICK i \in 1..Len(Tail(L)) : Tail(L)[i].userId = u
      BY <1>2, <1>7, ListedIn
    <2>2. i + 1 \in 1..Len(L) /\ L[i + 1].userId = u
      BY <1>3, <2>1
    <2> QED BY <1>1, <2>2, ListedIn
  <1> QED BY <1>1, <1>2, <1>3, <1>4, <1>5, <1>6, <1>7 DEF FullList

LEMMA LastComes ==
  ASSUME NEW L, Distinct(L), NEW p \in Record, p.numBumps < p.numSubscribes, ~Listed(L, p.userId)
  PROVE  /\ Distinct(Append(L, p)) /\ Len(Append(L, p)) = Len(L) + 1
         /\ \A i \in 1..Len(L) : Append(L, p)[i] = L[i]
         /\ Append(L, p)[Len(L) + 1] = p
  <1>1. L \in Seq(Record) /\ Len(L) \in Nat
    BY DEF Distinct
  <1>2. /\ Append(L, p) \in Seq(Record) /\ Len(Append(L, p)) = Len(L) + 1
        /\ \A i \in 1..Len(L) : Append(L, p)[i] = L[i]
        /\ Append(L, p)[Len(L) + 1] = p
    BY <1>1
  <1>3. \A i \in 1..Len(L) : L[i].userId # p.userId
    BY <1>1, ListedIn
  <1>4. \A i \in 1..Len(Append(L, p)) : i \in 1..Len(L) \/ i = Len(L) + 1
    BY <1>1, <1>2
  <1> QED BY <1>1, <1>2, <1>3, <1>4 DEF Distinct

\* A post changes a count in the list, and nothing else.
LEMMA PostCounted ==
  ASSUME NEW L, FullList(L), NEW u
  PROVE  /\ FullList(WithPost(L, u))
         /\ \A i \in 1..Len(L) : WithPost(L, u)[i].userId = L[i].userId
  <1> DEFINE M == WithPost(L, u)
  <1>1. L \in Seq(Record) /\ Len(L) \in Nat /\ DOMAIN L = 1..Len(L)
    BY DEF FullList, Distinct
  <1>2. \A i \in 1..Len(L) : L[i] \in Record /\ M[i] \in {L[i], [L[i] EXCEPT !.numPosts = @ + 1]}
    BY <1>1 DEF WithPost
  <1>3. \A i \in 1..Len(L) : /\ M[i] \in Record /\ M[i].userId = L[i].userId
                             /\ M[i].numBumps = L[i].numBumps /\ M[i].numSubscribes = L[i].numSubscribes
    BY <1>2 DEF Record
  <1>4. M \in Seq(Record) /\ Len(M) = Len(L)
    <2>1. M = [i \in 1..Len(L) |-> M[i]]
      BY <1>1 DEF WithPost
    <2> HIDE DEF M
    <2>2. M \in [1..Len(L) -> Record]
      BY <1>3, <2>1
    <2> QED BY <1>1, <2>2
  <1> HIDE DEF M
  <1>5. FullList(M)
    BY <1>3, <1>4 DEF FullList, Distinct
  <1> QED BY <1>3, <1>5 DEF M

LEMMA NatMin ==
  ASSUME NEW S \in SUBSET Nat, S # {}
  PROVE  \E x \in S : \A y \in S : x <= y
  <1> DEFINE R == {p \in Nat \X Nat : p[1] < p[2]}
  <1>1. OpToRel(<, Nat) = R
    BY DEF OpToRel
  <1>2. IsWellFoundedOn(R, Nat)
    BY <1>1, NatLessThanWellFounded
  <1> HIDE DEF R
  <1>3. PICK x \in S : \A y \in S : <<y, x>> \notin R
    BY <1>2, WFMin
  <1>4. \A y \in S : ~(y < x)
    <2> SUFFICES ASSUME NEW y \in S PROVE ~(y < x)
      OBVIOUS
    <2>1. <<y, x>> \in Nat \X Nat
      OBVIOUS
    <2> QED BY <1>3, <2>1 DEF R
  <1> QED BY <1>4

\* The entry that is replaced is one of those below the value.
LEMMA ClosestIsBelow ==
  ASSUME NEW top \in Ranking, NEW value \in Nat, Below(top, value) # {}
  PROVE  Closest(top, value) \in Below(top, value)
  <1> DEFINE B == Below(top, value)
             C == {i \in B : \A j \in B : top[j].value <= top[i].value}
  <1>1. DOMAIN top = 1..TopSize /\ TopSize \in Nat /\ \A i \in 1..TopSize : top[i].value \in Nat
    BY SizeAssumption DEF Ranking
  <1>2. B \subseteq 1..TopSize /\ \A i \in B : top[i].value \in Nat /\ top[i].value < value
    BY <1>1 DEF Below
  <1>3. C # {}
    <2> DEFINE G == {value - top[i].value : i \in B}
    <2>1. G \in SUBSET Nat /\ G # {}
      BY <1>2
    <2>2. PICK g \in G : \A h \in G : g <= h
      BY <2>1, NatMin
    <2>3. PICK i \in B : g = value - top[i].value
      BY <2>2
    <2>4. \A j \in B : top[j].value <= top[i].value
      <3> SUFFICES ASSUME NEW j \in B PROVE top[j].value <= top[i].value
        OBVIOUS
      <3>1. value - top[i].value <= value - top[j].value
        BY <2>2, <2>3
      <3> HIDE DEF B
      <3> QED BY <1>2, <3>1
    <2> QED BY <2>4
  <1>4. C \in SUBSET Nat
    BY <1>1, <1>2
  <1>5. Min(C) \in C
    <2> HIDE DEF C
    <2>1. \E x \in C : \A y \in C : x =< y
      BY <1>3, <1>4, NatMin
    <2> QED BY <2>1 DEF Min
  <1>6. Closest(top, value) = Min(C)
    BY DEF Closest
  <1> QED BY <1>5, <1>6

LEMMA RankedTop ==
  ASSUME NEW top \in Ranking, DistinctTop(top), NEW u \in Person, NEW value \in Nat
  PROVE  /\ Ranked(top, u, value) \in Ranking /\ DistinctTop(Ranked(top, u, value))
         /\ \A i \in 1..TopSize : Ranked(top, u, value)[i].value >= top[i].value
  <1>1. DOMAIN top = 1..TopSize /\ \A i \in 1..TopSize : top[i].value \in Nat
    BY DEF Ranking
  <1>2. CASE Listed(top, u) \/ Below(top, value) = {}
    BY <1>1, <1>2 DEF Ranked
  <1>3. CASE ~Listed(top, u) /\ Below(top, value) # {}
    <2> DEFINE k == Closest(top, value)
               e == [userId |-> u, value |-> value]
    <2>1. k \in 1..TopSize /\ top[k].value < value
      BY <1>1, <1>3, ClosestIsBelow DEF Below
    <2>2. \A i \in 1..TopSize : top[i].userId # u
      BY <1>1, <1>3 DEF Listed, Position
    <2>3. Ranked(top, u, value) = [top EXCEPT ![k] = e]
      BY <1>3 DEF Ranked
    <2>4. e \in [userId : Person \cup {NONE}, value : Nat] /\ e.userId = u /\ e.value = value
      OBVIOUS
    <2> HIDE DEF k, e
    <2>5. Ranked(top, u, value) \in Ranking
      BY <2>1, <2>3, <2>4 DEF Ranking
    <2>6. DistinctTop([top EXCEPT ![k] = e])
      BY <1>1, <2>1, <2>2, <2>4 DEF DistinctTop
    <2>7. \A i \in 1..TopSize : [top EXCEPT ![k] = e][i].value >= top[i].value
      BY <1>1, <2>1, <2>4
    <2> QED BY <2>3, <2>5, <2>6, <2>7
  <1> QED BY <1>2, <1>3
-----------------------------------------------------------------------------
(***************************************************************************)
(* Steps.  r is the record a script goes on with.                          *)
(***************************************************************************)
StepTo(s, r) == run' = [run EXCEPT ![s] = r]

LEMMA StepKeeps ==
  ASSUME BumpInv, NEW s \in Script, NEW r \in Run, StepTo(s, r), RunInv(r), FileOK(file'),
         NoFault \/ \E kind \in {"kill", "read", "write"} : Fault(kind), UNCHANGED mails
  PROVE  BumpInv'
  <1>1. TypeOK /\ (faults' = faults \/ (faults < MaxFaults /\ faults' = faults + 1))
        /\ trouble' \subseteq Faults \cup {"overlap"}
    BY DEF BumpInv, TypeOK, NoFault, Fault
  <1>2. faults' \in 0..MaxFaults
    BY <1>1, SizeAssumption DEF TypeOK
  <1>3. run' \in [Script -> Run] /\ \A t \in Script : run'[t] = r \/ run'[t] = run[t]
    BY <1>1 DEF TypeOK, StepTo
  <1>4. TypeOK'
    BY <1>1, <1>2, <1>3 DEF TypeOK, FileOK
  <1>5. \A t \in Script : RunInv(run'[t])
    BY <1>3 DEF BumpInv
  <1> QED BY <1>4, <1>5 DEF BumpInv

LEMMA Held ==
  ASSUME BumpInv, NEW s \in Script
  PROVE  /\ TypeOK /\ run \in [Script -> Run] /\ run[s] \in Run /\ RunInv(run[s])
         /\ FileOK(file) /\ file \in File
         /\ Idle \in Run /\ RunInv(Idle) /\ \A r \in Run : r.pc \in {"idle", "page+1"} => RunInv(r)
  <1>1. Idle \in Run /\ Idle.pc = "idle"
    BY DEF Idle, Run
  <1>2. \A r \in Run : r.pc \in {"idle", "page+1"} => RunInv(r)
    BY DEF RunInv
  <1> QED BY <1>1, <1>2 DEF BumpInv, TypeOK

\* A read: the files stay.
LEMMA ReadKeeps ==
  ASSUME BumpInv, NEW s \in Script, NEW r \in Run, StepTo(s, r), RunInv(r), UNCHANGED <<file, mails>>,
         NEW v, NEW failed, NEW x, Reads(v, failed, x)
  PROVE  BumpInv'
  BY StepKeeps, Held DEF Reads

\* A write, done or not.
LEMMA WriteKeeps ==
  ASSUME BumpInv, NEW s \in Script, NEW r \in Run, StepTo(s, r), RunInv(r), UNCHANGED mails,
         NEW f, FileOK(f), Writes(f)
  PROVE  BumpInv'
  BY StepKeeps, Held DEF Writes

LEMMA ReadListKeeps ==
  ASSUME BumpInv, NEW s \in Script, ReadList(s)
  PROVE  BumpInv'
  <1>0. /\ run \in [Script -> Run] /\ run[s] \in Run /\ RunInv(run[s]) /\ FullList(file.list)
        /\ file.list \in Seq(Record) /\ <<>> \in Seq(Record)
    BY Held DEF FileOK, File
  <1>1. PICK list \in {file.list, <<>>} :
          /\ Reads(file.list, <<>>, list)
          /\ run' = [run EXCEPT ![s].subscribers = list, ![s].pc = NextOf(s, list)]
    BY DEF ReadList
  <1> DEFINE r == [run[s] EXCEPT !.subscribers = list, !.pc = NextOf(s, list)]
  <1>2. /\ run[s].pc = "list" /\ run[s].from \in Person /\ run[s].subject \in {"subscribe", "message"}
    BY <1>0 DEF RunInv, ReadList, At
  <1>3. NextOf(s, list) \in {"page", "bumps", "poster"}
    BY DEF NextOf
  <1>4. /\ r \in Run /\ StepTo(s, r) /\ r.pc = NextOf(s, list) /\ r.subscribers = list
        /\ r.from = run[s].from /\ r.subject = run[s].subject
    BY <1>0, <1>1, <1>3 DEF Run, StepTo
  <1> HIDE DEF r
  <1>5. ~Listed(<<>>, run[s].from)
    BY DEF Listed, Position
  <1>6. r.pc = "bumps" => r.subject = "subscribe" /\ ~Listed(r.subscribers, r.from)
    BY <1>4 DEF NextOf
  <1>7. r.pc = "poster" => r.subject = "message" /\ FullList(r.subscribers)
    BY <1>0, <1>2, <1>4, <1>5 DEF NextOf
  <1>8. RunInv(r)
    BY <1>0, <1>2, <1>3, <1>4, <1>6, <1>7 DEF RunInv
  <1> QED BY <1>1, <1>4, <1>8, ReadKeeps DEF ReadList, At

LEMMA ReadBumpsKeeps ==
  ASSUME BumpInv, NEW s \in Script, ReadBumps(s)
  PROVE  BumpInv'
  <1>0. run \in [Script -> Run] /\ run[s] \in Run /\ RunInv(run[s]) /\ file.bumps \in Nat
    BY Held DEF File
  <1>1. PICK n \in {file.bumps, -1} :
          Reads(file.bumps, -1, n) /\ run' = [run EXCEPT ![s].count = n, ![s].pc = "bumps+1"]
    BY DEF ReadBumps
  <1> DEFINE r == [run[s] EXCEPT !.count = n, !.pc = "bumps+1"]
  <1>2. /\ r \in Run /\ StepTo(s, r) /\ r.pc = "bumps+1" /\ r.subscribers = run[s].subscribers
        /\ r.from = run[s].from /\ r.subject = run[s].subject
    BY <1>0, <1>1 DEF Run, StepTo
  <1> HIDE DEF r
  <1>3. RunInv(r)
    BY <1>0, <1>2 DEF RunInv, ReadBumps, At
  <1> QED BY <1>1, <1>2, <1>3, ReadKeeps DEF ReadBumps, At

LEMMA WriteBumpsKeeps ==
  ASSUME BumpInv, NEW s \in Script, WriteBumps(s)
  PROVE  BumpInv'
  <1>0. /\ run \in [Script -> Run] /\ run[s] \in Run /\ RunInv(run[s]) /\ FileOK(file) /\ file \in File
        /\ run[s].pc = "bumps+1" /\ run[s].count + 1 \in Nat
    BY Held DEF Run, WriteBumps, At
  <1> DEFINE f == [file EXCEPT !.bumps = run[s].count + 1]
             subs == run[s].subscribers
  <1>1. FileOK(f)
    BY <1>0 DEF FileOK, File
  <1>2. UNCHANGED mails /\ Writes(f) /\ Unsub(s)
    BY DEF WriteBumps, At
  <1>3. CASE subs = <<>>
    <2>1. StepTo(s, Idle)
      BY <1>2, <1>3 DEF Unsub, Ends, StepTo
    <2> QED BY <1>1, <1>2, <2>1, Held, WriteKeeps
  <1>4. CASE subs # <<>>
    <2> DEFINE r == [run[s] EXCEPT !.person = Bumped(Head(subs)), !.subscribers = Tail(subs), !.count = 0, !.pc = "unsub"]
    <2>1. FullList(subs) /\ run[s].subject = "subscribe" /\ ~Listed(subs, run[s].from) /\ run[s].from \in Person
      BY <1>0, <1>4 DEF RunInv
    <2>2. /\ Head(subs) \in Record /\ Head(subs).numBumps < Head(subs).numSubscribes
          /\ Distinct(Tail(subs)) /\ Len(Tail(subs)) = Len(Seed) - 1 /\ ~Listed(Tail(subs), run[s].from)
      BY <2>1, HeadLeaves
    <2>3. Bumped(Head(subs)) \in Record /\ Covered(Bumped(Head(subs)))
      BY <2>2, BumpCovers DEF Covered
    <2>4. Tail(subs) \in Seq(Record)
      BY <2>2 DEF Distinct
    <2>5. /\ r \in Run /\ StepTo(s, r) /\ r.pc = "unsub" /\ r.subscribers = Tail(subs) /\ r.person = Bumped(Head(subs))
          /\ r.from = run[s].from /\ r.subject = run[s].subject
      BY <1>0, <1>2, <1>4, <2>3, <2>4 DEF Run, StepTo, Unsub
    <2> HIDE DEF r, f
    <2>6. RunInv(r)
      BY <2>1, <2>2, <2>3, <2>5 DEF RunInv, RoomMade
    <2> QED BY <1>1, <1>2, <2>5, <2>6, WriteKeeps
  <1> QED BY <1>3, <1>4

\* A person's file gets a record of that person.
LEMMA StatWritten ==
  ASSUME FileOK(file), NEW p \in Record, Covered(p)
  PROVE  FileOK([file EXCEPT !.stat[p.userId] = p])
  <1> DEFINE f == [file EXCEPT !.stat[p.userId] = p]
  <1>1. p.userId \in Person /\ file \in File /\ file.stat \in [Person -> Record \cup {NONE}]
    BY RecordTyped DEF FileOK, File
  <1>2. /\ f.stat = [file.stat EXCEPT ![p.userId] = p] /\ f.list = file.list
        /\ f.topBumps = file.topBumps /\ f.topPosts = file.topPosts /\ f \in File
    BY <1>1 DEF File
  <1> HIDE DEF f
  <1>3. FileOK(f)
    BY <1>1, <1>2 DEF FileOK
  <1> QED BY <1>3 DEF f

LEMMA WriteUnsubKeeps ==
  ASSUME BumpInv, NEW s \in Script, WriteUnsub(s)
  PROVE  BumpInv'
  <1>0. /\ run \in [Script -> Run] /\ run[s] \in Run /\ RunInv(run[s]) /\ FileOK(file) /\ run[s].pc = "unsub"
    BY Held DEF WriteUnsub, At
  <1> DEFINE p == run[s].person
             f == [file EXCEPT !.stat[p.userId] = p]
             r == [run[s] EXCEPT !.pc = "top"]
  <1>1. p \in Record /\ Covered(p) /\ RoomMade(run[s]) /\ run[s].from \in Person
    BY <1>0 DEF RunInv, Covered
  <1>2. FileOK(f)
    BY <1>0, <1>1, StatWritten
  <1>3. UNCHANGED mails /\ Writes(f)
    BY DEF WriteUnsub, At
  <1>4. /\ r \in Run /\ StepTo(s, r) /\ r.pc = "top" /\ r.subscribers = run[s].subscribers /\ r.person = p
        /\ r.from = run[s].from /\ r.subject = run[s].subject
    BY <1>0 DEF Run, StepTo, WriteUnsub, Goto
  <1> HIDE DEF r, f
  <1>5. RunInv(r)
    BY <1>1, <1>4 DEF RunInv, RoomMade
  <1> QED BY <1>2, <1>3, <1>4, <1>5, WriteKeeps

LEMMA ReadTopKeeps ==
  ASSUME BumpInv, NEW s \in Script, ReadTop(s)
  PROVE  BumpInv'
  <1>0. /\ run \in [Script -> Run] /\ run[s] \in Run /\ RunInv(run[s]) /\ FileOK(file) /\ file \in File
        /\ run[s].pc = "top"
    BY Held DEF ReadTop, At
  <1> DEFINE p == run[s].person
             value == IF Posting(s) THEN p.numPosts ELSE p.numBumps
  <1>1. /\ p \in Record /\ p.userId \in Person /\ value \in Nat /\ Covered(p)
        /\ run[s].from \in Person /\ run[s].subject \in {"subscribe", "message"}
        /\ run[s].subject = "subscribe" => RoomMade(run[s])
        /\ run[s].subject = "message" => FullList(run[s].subscribers)
    BY <1>0, RecordTyped DEF RunInv, Covered
  <1>2. TopOf(s) \in Ranking /\ DistinctTop(TopOf(s))
    BY <1>0 DEF TopOf, FileOK, File
  <1>3. PICK top \in {TopOf(s), <<>>} :
          /\ Reads(TopOf(s), <<>>, top)
          /\ run' = IF RankOf(s, top) = top
                      THEN [run EXCEPT ![s].person = NONE, ![s].pc = AfterTop(s)]
                      ELSE [run EXCEPT ![s].top = RankOf(s, top), ![s].pc = "top+1"]
    BY DEF ReadTop
  <1>4. UNCHANGED <<file, mails>>
    BY DEF ReadTop, At
  <1>5. CASE RankOf(s, top) = top
    <2> DEFINE r == [run[s] EXCEPT !.person = NONE, !.pc = AfterTop(s)]
    <2>1. AfterTop(s) = IF run[s].subject = "subscribe" THEN "entry" ELSE "subjects"
      BY DEF AfterTop, Posting
    <2>2. /\ r \in Run /\ StepTo(s, r) /\ r.pc = AfterTop(s) /\ r.subscribers = run[s].subscribers
          /\ r.from = run[s].from /\ r.subject = run[s].subject
      BY <1>0, <1>3, <1>5, <2>1 DEF Run, StepTo
    <2> HIDE DEF r, p, value
    <2>3. RunInv(r)
      BY <1>1, <2>1, <2>2 DEF RunInv, RoomMade
    <2> QED BY <1>3, <1>4, <2>2, <2>3, ReadKeeps
  <1>6. CASE RankOf(s, top) # top
    <2> DEFINE r == [run[s] EXCEPT !.top = RankOf(s, top), !.pc = "top+1"]
    <2>1. RankOf(s, <<>>) = <<>>
      BY DEF RankOf, Ranked, Below
    <2>2. top = TopOf(s)
      BY <1>6, <2>1
    <2>3. RankOf(s, top) = Ranked(top, p.userId, value)
      BY DEF RankOf
    <2>4. RankOf(s, top) \in Ranking /\ DistinctTop(RankOf(s, top))
      BY <1>1, <1>2, <2>2, <2>3, RankedTop
    <2>5. /\ r \in Run /\ StepTo(s, r) /\ r.pc = "top+1" /\ r.subscribers = run[s].subscribers
          /\ r.from = run[s].from /\ r.subject = run[s].subject /\ r.person = p /\ r.top = RankOf(s, top)
      BY <1>0, <1>3, <1>6, <2>4 DEF Run, StepTo
    <2> HIDE DEF r, p, value
    <2>6. RunInv(r)
      BY <1>1, <2>4, <2>5 DEF RunInv, RoomMade
    <2> QED BY <1>3, <1>4, <2>5, <2>6, ReadKeeps
  <1> QED BY <1>5, <1>6

LEMMA WriteTopKeeps ==
  ASSUME BumpInv, NEW s \in Script, WriteTop(s)
  PROVE  BumpInv'
  <1>0. /\ run \in [Script -> Run] /\ run[s] \in Run /\ RunInv(run[s]) /\ FileOK(file) /\ file \in File
        /\ run[s].pc = "top+1"
    BY Held DEF WriteTop, At
  <1> DEFINE f == IF Posting(s) THEN [file EXCEPT !.topPosts = run[s].top]
                  ELSE [file EXCEPT !.topBumps = run[s].top]
             r == [run[s] EXCEPT !.person = NONE, !.top = <<>>, !.pc = AfterTop(s)]
  <1>1. /\ run[s].top \in Ranking /\ DistinctTop(run[s].top)
        /\ run[s].from \in Person /\ run[s].subject \in {"subscribe", "message"}
        /\ run[s].subject = "subscribe" => RoomMade(run[s])
        /\ run[s].subject = "message" => FullList(run[s].subscribers)
    BY <1>0 DEF RunInv
  <1>2. FileOK(f)
    BY <1>0, <1>1 DEF FileOK, File
  <1>3. UNCHANGED mails /\ Writes(f)
    BY DEF WriteTop, At
  <1>4. AfterTop(s) = IF run[s].subject = "subscribe" THEN "entry" ELSE "subjects"
    BY DEF AfterTop, Posting
  <1>5. /\ r \in Run /\ StepTo(s, r) /\ r.pc = AfterTop(s) /\ r.subscribers = run[s].subscribers
        /\ r.from = run[s].from /\ r.subject = run[s].subject
    BY <1>0, <1>4 DEF Run, StepTo, WriteTop
  <1> HIDE DEF r, f
  <1>6. RunInv(r)
    BY <1>1, <1>4, <1>5 DEF RunInv, RoomMade
  <1> QED BY <1>2, <1>3, <1>5, <1>6, WriteKeeps

\* What the constructor makes of a file, or of none.
LEMMA SubscriberMade ==
  ASSUME FileOK(file), NEW u \in Person, NEW stored \in {file.stat[u], NONE}
  PROVE  LET p == Object_Subscriber(u, stored) IN
         /\ Covered(p) /\ p \in Record /\ p.userId = u
         /\ Subscribed(p) \in Record /\ Subscribed(p).userId = u
         /\ Subscribed(p).numBumps < Subscribed(p).numSubscribes
  <1> DEFINE p == Object_Subscriber(u, stored)
  <1>1. Covered(p) /\ p \in Record /\ p.userId = u
    BY UnknownTyped DEF FileOK, Object_Subscriber, Covered
  <1> HIDE DEF p
  <1>2. /\ p.numBumps \in Nat /\ p.numSubscribes \in Nat /\ Subscribed(p) \in Record /\ Subscribed(p).userId = u
        /\ Subscribed(p).numBumps = p.numBumps /\ Subscribed(p).numSubscribes = p.numSubscribes + 1
    BY <1>1, RecordTyped
  <1>3. Subscribed(p).numBumps < Subscribed(p).numSubscribes
    BY <1>1, <1>2 DEF Covered
  <1> QED BY <1>1, <1>2, <1>3 DEF p

LEMMA ReadEntryKeeps ==
  ASSUME BumpInv, NEW s \in Script, ReadEntry(s)
  PROVE  BumpInv'
  <1> DEFINE u == run[s].from
  <1>0. /\ run \in [Script -> Run] /\ run[s] \in Run /\ RunInv(run[s]) /\ FileOK(file) /\ run[s].pc = "entry"
    BY Held DEF ReadEntry, At
  <1>1. u \in Person /\ run[s].subject = "subscribe" /\ RoomMade(run[s])
    BY <1>0 DEF RunInv, RoomMade
  <1>2. PICK stored \in {file.stat[u], NONE} :
          /\ Reads(file.stat[u], NONE, stored)
          /\ LET p == Object_Subscriber(u, stored) IN
             run' = [run EXCEPT ![s].person = Subscribed(p),
                                ![s].pc = IF p.numSubscribes # 0 THEN "resubs" ELSE "entry+1"]
    BY DEF ReadEntry
  <1> DEFINE p == Object_Subscriber(u, stored)
             next == IF p.numSubscribes # 0 THEN "resubs" ELSE "entry+1"
             r == [run[s] EXCEPT !.person = Subscribed(p), !.pc = next]
  <1>3. /\ Subscribed(p) \in Record /\ Subscribed(p).userId = u
        /\ Subscribed(p).numBumps < Subscribed(p).numSubscribes
    BY <1>0, <1>1, SubscriberMade
  <1>4. next \in {"resubs", "entry+1"}
    OBVIOUS
  <1>5. run' = [run EXCEPT ![s].person = Subscribed(p), ![s].pc = next]
    BY <1>2
  <1> HIDE DEF p, next
  <1>6. /\ r \in Run /\ StepTo(s, r) /\ r.pc = next /\ r.subscribers = run[s].subscribers
        /\ r.from = u /\ r.subject = run[s].subject /\ r.person = Subscribed(p)
    BY <1>0, <1>3, <1>4, <1>5 DEF Run, StepTo
  <1> HIDE DEF r
  <1>7. RunInv(r)
    BY <1>1, <1>3, <1>4, <1>6 DEF RunInv, RoomMade
  <1>8. UNCHANGED <<file, mails>>
    BY DEF ReadEntry, At
  <1> QED BY <1>2, <1>6, <1>7, <1>8, ReadKeeps

LEMMA ReadResubsKeeps ==
  ASSUME BumpInv, NEW s \in Script, ReadResubs(s)
  PROVE  BumpInv'
  <1>0. /\ run \in [Script -> Run] /\ run[s] \in Run /\ RunInv(run[s]) /\ file.resubs \in Nat
        /\ run[s].pc = "resubs"
    BY Held DEF File, ReadResubs, At
  <1>1. PICK n \in {file.resubs, -1} :
          Reads(file.resubs, -1, n) /\ run' = [run EXCEPT ![s].count = n, ![s].pc = "resubs+1"]
    BY DEF ReadResubs
  <1> DEFINE r == [run[s] EXCEPT !.count = n, !.pc = "resubs+1"]
  <1>2. /\ r \in Run /\ StepTo(s, r) /\ r.pc = "resubs+1" /\ r.subscribers = run[s].subscribers
        /\ r.from = run[s].from /\ r.subject = run[s].subject /\ r.person = run[s].person
    BY <1>0, <1>1 DEF Run, StepTo
  <1> HIDE DEF r
  <1>3. RunInv(r)
    BY <1>0, <1>2 DEF RunInv, RoomMade
  <1> QED BY <1>1, <1>2, <1>3, ReadKeeps DEF ReadResubs, At

LEMMA WriteResubsKeeps ==
  ASSUME BumpInv, NEW s \in Script, WriteResubs(s)
  PROVE  BumpInv'
  <1>0. /\ run \in [Script -> Run] /\ run[s] \in Run /\ RunInv(run[s]) /\ FileOK(file) /\ file \in File
        /\ run[s].pc = "resubs+1" /\ run[s].count + 1 \in Nat
    BY Held DEF Run, WriteResubs, At
  <1> DEFINE f == [file EXCEPT !.resubs = run[s].count + 1]
             r == [run[s] EXCEPT !.count = 0, !.pc = "entry+1"]
  <1>1. FileOK(f)
    BY <1>0 DEF FileOK, File
  <1>2. /\ r \in Run /\ StepTo(s, r) /\ r.pc = "entry+1" /\ r.subscribers = run[s].subscribers
        /\ r.from = run[s].from /\ r.subject = run[s].subject /\ r.person = run[s].person
    BY <1>0 DEF Run, StepTo, WriteResubs
  <1>3. UNCHANGED mails /\ Writes(f)
    BY DEF WriteResubs, At
  <1> HIDE DEF r, f
  <1>4. RunInv(r)
    BY <1>0, <1>2 DEF RunInv, RoomMade
  <1> QED BY <1>1, <1>2, <1>3, <1>4, WriteKeeps

LEMMA WriteEntryKeeps ==
  ASSUME BumpInv, NEW s \in Script, WriteEntry(s)
  PROVE  BumpInv'
  <1> DEFINE p == run[s].person
             subs == run[s].subscribers
             f == [file EXCEPT !.stat[p.userId] = p]
             r == [run[s] EXCEPT !.subscribers = Append(subs, p), !.person = NONE, !.pc = "list+1"]
  <1>0. /\ run \in [Script -> Run] /\ run[s] \in Run /\ RunInv(run[s]) /\ FileOK(file) /\ run[s].pc = "entry+1"
    BY Held DEF WriteEntry, At
  <1>1. /\ p \in Record /\ p.userId = run[s].from /\ p.numBumps < p.numSubscribes
        /\ run[s].from \in Person /\ run[s].subject = "subscribe"
        /\ Distinct(subs) /\ Len(subs) = Len(Seed) - 1 /\ ~Listed(subs, p.userId)
    BY <1>0 DEF RunInv, RoomMade
  <1>2. FullList(Append(subs, p)) /\ Append(subs, p) \in Seq(Record)
    <2>1. Distinct(Append(subs, p)) /\ Len(Append(subs, p)) = Len(subs) + 1
      BY <1>1, LastComes
    <2>2. Len(Append(subs, p)) = Len(Seed)
      BY <1>1, <2>1, SeedLength
    <2> QED BY <2>1, <2>2 DEF FullList, Distinct
  <1>3. FileOK(f)
    BY <1>0, <1>1, BumpCovers, StatWritten
  <1>4. /\ r \in Run /\ StepTo(s, r) /\ r.pc = "list+1" /\ r.subscribers = Append(subs, p)
        /\ r.from = run[s].from /\ r.subject = run[s].subject
    BY <1>0, <1>2 DEF Run, StepTo, WriteEntry, Pushed
  <1>5. UNCHANGED mails /\ Writes(f)
    BY DEF WriteEntry, At
  <1> HIDE DEF r, f
  <1>6. RunInv(r)
    BY <1>1, <1>2, <1>4 DEF RunInv
  <1> QED BY <1>3, <1>4, <1>5, <1>6, WriteKeeps

LEMMA ReadPosterKeeps ==
  ASSUME BumpInv, NEW s \in Script, ReadPoster(s)
  PROVE  BumpInv'
  <1> DEFINE u == run[s].from
  <1>0. /\ run \in [Script -> Run] /\ run[s] \in Run /\ RunInv(run[s]) /\ FileOK(file) /\ run[s].pc = "poster"
    BY Held DEF ReadPoster, At
  <1>1. u \in Person /\ run[s].subject = "message" /\ FullList(run[s].subscribers)
    BY <1>0 DEF RunInv
  <1>2. PICK stored \in {file.stat[u], NONE} :
          /\ Reads(file.stat[u], NONE, stored)
          /\ run' = [run EXCEPT ![s].person = Object_Subscriber(u, stored), ![s].pc = "top"]
    BY DEF ReadPoster
  <1> DEFINE p == Object_Subscriber(u, stored)
             r == [run[s] EXCEPT !.person = p, !.pc = "top"]
  <1>3. p \in Record /\ Covered(p)
    BY <1>0, <1>1, SubscriberMade
  <1> HIDE DEF p
  <1>4. run' = [run EXCEPT ![s].person = p, ![s].pc = "top"]
    BY <1>2 DEF p
  <1>5. /\ r \in Run /\ StepTo(s, r) /\ r.pc = "top" /\ r.subscribers = run[s].subscribers
        /\ r.from = u /\ r.subject = run[s].subject /\ r.person = p
    BY <1>0, <1>3, <1>4 DEF Run, StepTo
  <1> HIDE DEF r
  <1>6. RunInv(r)
    BY <1>1, <1>3, <1>5 DEF RunInv
  <1>7. UNCHANGED <<file, mails>>
    BY DEF ReadPoster, At
  <1> QED BY <1>2, <1>5, <1>6, <1>7, ReadKeeps

LEMMA SubjectsKeeps ==
  ASSUME BumpInv, NEW s \in Script, Subjects(s)
  PROVE  BumpInv'
  <1>0. /\ run \in [Script -> Run] /\ run[s] \in Run /\ RunInv(run[s]) /\ run[s].pc = "subjects"
        /\ Idle \in Run /\ RunInv(Idle)
    BY Held DEF Subjects, At
  <1>1. PICK read \in BOOLEAN : Reads(TRUE, FALSE, read) /\ (IF read THEN Goto(s, "messages") ELSE Ends(s))
    BY DEF Subjects
  <1> DEFINE r == [run[s] EXCEPT !.pc = "messages"]
  <1>2. /\ r \in Run /\ r.pc = "messages" /\ r.subscribers = run[s].subscribers
        /\ r.from = run[s].from /\ r.subject = run[s].subject
    BY <1>0 DEF Run
  <1>3. StepTo(s, r) \/ StepTo(s, Idle)
    BY <1>0, <1>1 DEF Goto, Ends, StepTo
  <1> HIDE DEF r
  <1>4. RunInv(r)
    BY <1>0, <1>2 DEF RunInv
  <1>5. UNCHANGED <<file, mails>>
    BY DEF Subjects, At
  <1> QED BY <1>0, <1>1, <1>2, <1>3, <1>4, <1>5, ReadKeeps

LEMMA ReadMessagesKeeps ==
  ASSUME BumpInv, NEW s \in Script, ReadMessages(s)
  PROVE  BumpInv'
  <1>0. /\ run \in [Script -> Run] /\ run[s] \in Run /\ RunInv(run[s]) /\ file.messages \in Nat
        /\ run[s].pc = "messages"
    BY Held DEF File, ReadMessages, At
  <1>1. PICK n \in {file.messages, -1} :
          Reads(file.messages, -1, n) /\ run' = [run EXCEPT ![s].count = n, ![s].pc = "messages+1"]
    BY DEF ReadMessages
  <1> DEFINE r == [run[s] EXCEPT !.count = n, !.pc = "messages+1"]
  <1>2. /\ r \in Run /\ StepTo(s, r) /\ r.pc = "messages+1" /\ r.subscribers = run[s].subscribers
        /\ r.from = run[s].from /\ r.subject = run[s].subject
    BY <1>0, <1>1 DEF Run, StepTo
  <1> HIDE DEF r
  <1>3. RunInv(r)
    BY <1>0, <1>2 DEF RunInv
  <1> QED BY <1>1, <1>2, <1>3, ReadKeeps DEF ReadMessages, At

LEMMA WriteMessagesKeeps ==
  ASSUME BumpInv, NEW s \in Script, WriteMessages(s)
  PROVE  BumpInv'
  <1>0. /\ run \in [Script -> Run] /\ run[s] \in Run /\ RunInv(run[s]) /\ FileOK(file) /\ file \in File
        /\ run[s].pc = "messages+1" /\ run[s].count + 1 \in Nat
    BY Held DEF Run, WriteMessages, At
  <1> DEFINE f == [file EXCEPT !.messages = run[s].count + 1]
             subs == WithPost(run[s].subscribers, run[s].from)
             r == [run[s] EXCEPT !.subscribers = subs, !.count = 1, !.pc = "stats"]
  <1>1. FileOK(f)
    BY <1>0 DEF FileOK, File
  <1>2. FullList(subs) /\ subs \in Seq(Record) /\ 1 \in 1..Len(subs)
    <2>1. FullList(subs)
      BY <1>0, PostCounted DEF RunInv
    <2> QED BY <2>1, SeedLength DEF FullList, Distinct
  <1> HIDE DEF subs
  <1>3. run' = [run EXCEPT ![s].subscribers = subs, ![s].count = 1, ![s].pc = "stats"]
    BY <1>0 DEF WriteMessages, subs
  <1>4. /\ r \in Run /\ StepTo(s, r) /\ r.pc = "stats" /\ r.subscribers = subs /\ r.count = 1
        /\ r.from = run[s].from /\ r.subject = run[s].subject
    BY <1>0, <1>2, <1>3 DEF Run, StepTo
  <1>5. UNCHANGED mails /\ Writes(f)
    BY DEF WriteMessages, At
  <1> HIDE DEF r, f
  <1>6. RunInv(r)
    BY <1>0, <1>2, <1>4 DEF RunInv
  <1> QED BY <1>1, <1>4, <1>5, <1>6, WriteKeeps

LEMMA WriteStatsKeeps ==
  ASSUME BumpInv, NEW s \in Script, WriteStats(s)
  PROVE  BumpInv'
  <1> DEFINE i == run[s].count
             subs == run[s].subscribers
             p == subs[i]
             f == [file EXCEPT !.stat[p.userId] = p]
             next == IF i = Len(subs) THEN [run[s] EXCEPT !.count = 0, !.pc = "list+1"]
                     ELSE [run[s] EXCEPT !.count = i + 1]
  <1>0. /\ run \in [Script -> Run] /\ run[s] \in Run /\ RunInv(run[s]) /\ FileOK(file) /\ run[s].pc = "stats"
    BY Held DEF WriteStats, At
  <1>1. FullList(subs) /\ i \in 1..Len(subs) /\ run[s].from \in Person /\ run[s].subject = "message" /\ Len(subs) \in Nat
    BY <1>0, SeedLength DEF RunInv, FullList
  <1>2. p \in Record /\ p.numBumps < p.numSubscribes
    BY <1>1 DEF FullList, Distinct
  <1>3. FileOK(f)
    BY <1>0, <1>2, BumpCovers, StatWritten
  <1>4. next \in Run /\ StepTo(s, next) /\ RunInv(next)
    <2>1. CASE i = Len(subs)
      <3> DEFINE r == [run[s] EXCEPT !.count = 0, !.pc = "list+1"]
      <3>1. /\ r \in Run /\ StepTo(s, r) /\ r.pc = "list+1" /\ r.subscribers = subs
            /\ r.from = run[s].from /\ r.subject = run[s].subject
        BY <1>0, <2>1 DEF Run, StepTo, WriteStats
      <3> HIDE DEF r
      <3>2. RunInv(r)
        BY <1>1, <3>1 DEF RunInv
      <3> QED BY <2>1, <3>1, <3>2 DEF r
    <2>2. CASE i # Len(subs)
      <3> DEFINE r == [run[s] EXCEPT !.count = i + 1]
      <3>1. i + 1 \in 1..Len(subs) /\ i + 1 \in Nat
        BY <1>1, <2>2
      <3>2. /\ r \in Run /\ StepTo(s, r) /\ r.pc = "stats" /\ r.subscribers = subs /\ r.count = i + 1
            /\ r.from = run[s].from /\ r.subject = run[s].subject
        BY <1>0, <2>2, <3>1 DEF Run, StepTo, WriteStats
      <3> HIDE DEF r
      <3>3. RunInv(r)
        BY <1>1, <3>1, <3>2 DEF RunInv
      <3> QED BY <2>2, <3>2, <3>3 DEF r
    <2> QED BY <2>1, <2>2
  <1>5. UNCHANGED mails /\ Writes(f)
    BY DEF WriteStats, At
  <1> HIDE DEF f, next
  <1> QED BY <1>3, <1>4, <1>5, WriteKeeps

LEMMA WriteListKeeps ==
  ASSUME BumpInv, NEW s \in Script, WriteList(s)
  PROVE  BumpInv'
  <1>0. /\ run \in [Script -> Run] /\ run[s] \in Run /\ RunInv(run[s]) /\ FileOK(file) /\ file \in File
        /\ run[s].pc = "list+1"
    BY Held DEF WriteList, At
  <1> DEFINE f == [file EXCEPT !.list = run[s].subscribers]
             r == [run[s] EXCEPT !.pc = "page"]
  <1>1. FileOK(f)
    BY <1>0 DEF FileOK, File, RunInv, FullList, Distinct
  <1>2. r \in Run /\ StepTo(s, r) /\ r.pc = "page" /\ r.from = run[s].from /\ r.subject = run[s].subject
    BY <1>0 DEF Run, StepTo, WriteList, Goto
  <1>3. UNCHANGED mails /\ Writes(f)
    BY DEF WriteList, At
  <1> HIDE DEF r, f
  <1>4. RunInv(r)
    BY <1>0, <1>2 DEF RunInv
  <1> QED BY <1>1, <1>2, <1>3, <1>4, WriteKeeps

LEMMA ReadPageKeeps ==
  ASSUME BumpInv, NEW s \in Script, ReadPage(s)
  PROVE  BumpInv'
  <1>0. /\ run \in [Script -> Run] /\ run[s] \in Run /\ file.list \in Seq(Record)
        /\ Idle \in Run /\ RunInv(Idle) /\ \A r \in Run : r.pc \in {"idle", "page+1"} => RunInv(r)
    BY Held DEF File
  <1>1. PICK list \in {file.list, <<>>} :
          /\ Reads(file.list, <<>>, list)
          /\ IF list = <<>> THEN Ends(s)
             ELSE run' = [run EXCEPT ![s] = [Idle EXCEPT !.pc = "page+1", !.subscribers = list]]
    BY DEF ReadPage
  <1> DEFINE r == [Idle EXCEPT !.pc = "page+1", !.subscribers = list]
  <1>2. list \in Seq(Record)
    <2>1. <<>> \in Seq(Record)
      OBVIOUS
    <2> QED BY <1>0, <1>1, <2>1
  <1>3. r \in Run /\ r.pc = "page+1"
    BY <1>2 DEF Idle, Run
  <1>4. StepTo(s, r) \/ StepTo(s, Idle)
    BY <1>1 DEF StepTo, Ends
  <1> HIDE DEF r
  <1>5. UNCHANGED <<file, mails>>
    BY DEF ReadPage, At
  <1> QED BY <1>0, <1>1, <1>3, <1>4, <1>5, ReadKeeps

LEMMA WritePageKeeps ==
  ASSUME BumpInv, NEW s \in Script, WritePage(s)
  PROVE  BumpInv'
  <1>0. /\ run \in [Script -> Run] /\ run[s] \in Run /\ FileOK(file) /\ file \in File
        /\ Idle \in Run /\ RunInv(Idle) /\ run[s].subscribers \in Seq(Record)
    BY Held DEF Run
  <1> DEFINE users == [i \in DOMAIN run[s].subscribers |-> run[s].subscribers[i].userId]
             f == [file EXCEPT !.whoOn = users]
  <1>1. users \in Seq(Person)
    <2>1. \A i \in 1..Len(run[s].subscribers) : run[s].subscribers[i] \in Record
      BY <1>0
    <2>2. \A i \in 1..Len(run[s].subscribers) : run[s].subscribers[i].userId \in Person
      BY <2>1, RecordTyped
    <2> QED BY <1>0, <2>2
  <1>2. FileOK(f)
    BY <1>0, <1>1 DEF FileOK, File
  <1>3. UNCHANGED mails /\ Writes(f) /\ StepTo(s, Idle)
    BY DEF WritePage, At, Ends, StepTo
  <1> HIDE DEF f
  <1> QED BY <1>0, <1>2, <1>3, WriteKeeps

LEMMA KilledKeeps ==
  ASSUME BumpInv, NEW s \in Script, Killed(s)
  PROVE  BumpInv'
  <1>1. StepTo(s, Idle) /\ UNCHANGED <<file, mails>> /\ Fault("kill")
    BY DEF Killed, Ends, StepTo
  <1>2. Idle \in Run /\ RunInv(Idle) /\ FileOK(file)
    BY Held
  <1>3. FileOK(file')
    BY <1>1, <1>2
  <1> QED BY <1>1, <1>2, <1>3, StepKeeps

LEMMA StartKeeps ==
  ASSUME BumpInv, NEW s \in Script, NEW subject \in {"subscribe", "message"}, NEW u \in Person, Start(s, subject, u)
  PROVE  BumpInv'
  <1> DEFINE r == [Idle EXCEPT !.pc = "list", !.subject = subject, !.from = u]
  <1>1. /\ r \in Run /\ r.pc = "list" /\ r.from = u /\ r.subject = subject
    BY Held DEF Idle, Run
  <1>2. TypeOK /\ FileOK(file) /\ mails' \in 0..MaxMails /\ UNCHANGED <<file, faults>>
        /\ trouble' \subseteq Faults \cup {"overlap"} /\ run' = [run EXCEPT ![s] = r]
    BY SizeAssumption DEF BumpInv, TypeOK, Start
  <1> HIDE DEF r
  <1>3. RunInv(r)
    BY <1>1 DEF RunInv
  <1>4. run' \in [Script -> Run] /\ \A t \in Script : run'[t] = r \/ run'[t] = run[t]
    BY <1>1, <1>2 DEF TypeOK
  <1>5. TypeOK'
    BY <1>2, <1>4 DEF TypeOK
  <1>6. \A t \in Script : RunInv(run'[t])
    BY <1>3, <1>4 DEF BumpInv
  <1> QED BY <1>2, <1>5, <1>6 DEF BumpInv

LEMMA BumpNext == BumpInv /\ [Next]_vars => BumpInv'
  <1> SUFFICES ASSUME BumpInv, [Next]_vars PROVE BumpInv'
    OBVIOUS
  <1>1. CASE UNCHANGED vars
    BY <1>1 DEF vars, BumpInv, TypeOK
  <1>2. ASSUME NEW s \in Script, NEW subject \in {"subscribe", "message"}, NEW u \in Person, Start(s, subject, u)
        PROVE  BumpInv'
    BY <1>2, StartKeeps
  <1>3. ASSUME NEW s \in Script, subscribePerson(s) PROVE BumpInv'
    BY <1>3, ReadBumpsKeeps, WriteBumpsKeeps, WriteUnsubKeeps, ReadEntryKeeps, ReadResubsKeeps, WriteResubsKeeps,
       WriteEntryKeeps DEF subscribePerson
  <1>4. ASSUME NEW s \in Script, messageToSubscribers(s) PROVE BumpInv'
    BY <1>4, ReadPosterKeeps, SubjectsKeeps, ReadMessagesKeeps, WriteMessagesKeeps, WriteStatsKeeps
    DEF messageToSubscribers
  <1>5. ASSUME NEW s \in Script, checkAndAddTop(s) \/ generateStats(s) PROVE BumpInv'
    BY <1>5, ReadTopKeeps, WriteTopKeeps, ReadPageKeeps, WritePageKeeps DEF checkAndAddTop, generateStats
  <1>6. ASSUME NEW s \in Script, ReadList(s) \/ WriteList(s) \/ Killed(s) PROVE BumpInv'
    BY <1>6, ReadListKeeps, WriteListKeeps, KilledKeeps
  <1> QED BY <1>1, <1>2, <1>3, <1>4, <1>5, <1>6 DEF Next

LEMMA BumpInit == Init => BumpInv
  <1> SUFFICES ASSUME Init PROVE BumpInv
    OBVIOUS
  <1> DEFINE list == [i \in DOMAIN Seed |-> Subscribed(Unknown(Seed[i]))]
             top == [i \in 1..TopSize |-> [userId |-> NONE, value |-> 0]]
             stat == [u \in Person |-> IF u \in ToSet(Seed) THEN Subscribed(Unknown(u)) ELSE NONE]
  <1>1. file = [list |-> list, stat |-> stat, bumps |-> 0, resubs |-> 0, messages |-> 0,
                topBumps |-> top, topPosts |-> top, whoOn |-> Seed]
    BY DEF Init
  <1>2. \A u \in Person : /\ Subscribed(Unknown(u)) \in Record /\ Subscribed(Unknown(u)).userId = u
                          /\ Subscribed(Unknown(u)).numBumps = 0 /\ Subscribed(Unknown(u)).numSubscribes = 1
    BY DEF Subscribed, Unknown, Record
  <1>3. Seed \in Seq(Person) /\ DOMAIN Seed = 1..Len(Seed) /\ \A i \in 1..Len(Seed) : Seed[i] \in Person
    BY SeedAssumption
  <1>4. FullList(list)
    <2>1. \A i \in 1..Len(Seed) : /\ list[i] \in Record /\ list[i].userId = Seed[i]
                                  /\ list[i].numBumps < list[i].numSubscribes
      <3> TAKE i \in 1..Len(Seed)
      <3>1. Seed[i] \in Person /\ i \in DOMAIN Seed
        BY <1>3
      <3>2. list[i] = Subscribed(Unknown(Seed[i]))
        BY <3>1
      <3> QED BY <1>2, <3>1, <3>2
    <2>2. list \in Seq(Record) /\ Len(list) = Len(Seed)
      <3> HIDE DEF list
      <3>1. list = [i \in 1..Len(Seed) |-> list[i]]
        BY <1>3 DEF list
      <3> QED BY <2>1, <3>1, SeedLength
    <2> HIDE DEF list
    <2> QED BY <1>3, <2>1, <2>2, SeedAssumption DEF FullList, Distinct, IsInjective
  <1>5. stat \in [Person -> Record \cup {NONE}]
        /\ \A u \in Person : stat[u] # NONE => Covered(stat[u]) /\ stat[u].userId = u
    BY <1>2 DEF Covered
  <1>6. top \in Ranking /\ DistinctTop(top)
    BY DEF Ranking, DistinctTop
  <1>7. FileOK(file) /\ file \in File /\ \A u \in Person : file.stat[u] # NONE => file.stat[u].userId = u
    <2> HIDE DEF list, stat, top
    <2>1. list \in Seq(Record)
      BY <1>4 DEF FullList, Distinct
    <2> QED BY <1>1, <1>3, <1>4, <1>5, <1>6, <2>1 DEF FileOK, File
  <1>8. Idle \in Run /\ RunInv(Idle)
    BY DEF Idle, Run, RunInv
  <1>9. run \in [Script -> Run] /\ \A s \in Script : RunInv(run[s])
    BY <1>8 DEF Init
  <1>10. mails \in 0..MaxMails /\ faults \in 0..MaxFaults /\ trouble = {}
    BY SizeAssumption DEF Init
  <1> QED BY <1>7, <1>9, <1>10 DEF BumpInv, TypeOK

LEMMA BumpInvariant == Spec => []BumpInv
  BY BumpInit, BumpNext, PTL DEF Spec
-----------------------------------------------------------------------------
(***************************************************************************)
(* The virtual files of the list and the variables of a script keep their  *)
(* types in bumplist.js: above all, a list that is written is a list of    *)
(* records, though the script writes what it made of reads that failed.    *)
(***************************************************************************)
THEOREM BumpTyped == Spec => []TypeOK
  <1>1. BumpInv => TypeOK
    BY DEF BumpInv
  <1> QED BY <1>1, BumpInvariant, PTL

(***************************************************************************)
(* subscribePerson never puts a person on the list twice nor changes its   *)
(* length, and checkAndAddTopBumps and checkAndAddTopPosts never give a    *)
(* person two places, however many scripts overlap, fail and are killed.   *)
(***************************************************************************)
THEOREM NoPlaceTaken == Spec => []NobodyTwice
  <1>1. ASSUME BumpInv PROVE NobodyTwice
    <2>1. FullList(file.list) /\ DistinctTop(file.topBumps) /\ DistinctTop(file.topPosts)
      BY <1>1 DEF BumpInv, FileOK
    <2>2. DOMAIN file.list = 1..Len(file.list)
      BY <2>1 DEF FullList, Distinct
    <2>3. IsInjective(Users(file.list))
      BY <2>1, <2>2 DEF IsInjective, Users, FullList, Distinct
    <2> QED BY <2>1, <2>3 DEF NobodyTwice, FullList, DistinctTop
  <1> QED BY <1>1, BumpInvariant, PTL

(***************************************************************************)
(* bumplist.js keeps every record consistent by itself: as many            *)
(* subscriptions as bumps, and one more for whoever is on the list, under  *)
(* every interleaving of reads and writes that may fail.                   *)
(***************************************************************************)
THEOREM BumpsAreCovered == Spec => []SubscribesCoverBumps
  <1>1. ASSUME BumpInv PROVE SubscribesCoverBumps
    <2>1. FileOK(file) /\ DOMAIN file.list = 1..Len(file.list)
      BY <1>1 DEF BumpInv, FileOK, FullList, Distinct
    <2> QED BY <2>1 DEF SubscribesCoverBumps, FileOK, FullList, Distinct, Covered, Known
  <1> QED BY <1>1, BumpInvariant, PTL
-----------------------------------------------------------------------------
(***************************************************************************)
(* As long as scripts do not overlap, what a script holds of the list is   *)
(* what is in the file, or what that is to become.                         *)
(***************************************************************************)
MakesRoom(r) ==
  r.subject = "subscribe" /\ r.pc \in {"unsub", "top", "top+1", "entry", "resubs", "resubs+1", "entry+1"}
Posts(r) ==
  r.subject = "message" /\ r.pc \in {"poster", "top", "top+1", "subjects", "messages", "messages+1", "stats"}

\* Somebody new came last and the first one left.
Passed(before, after) == \E u \in Person \ ToSet(before) : after = Append(Tail(before), u)

Fresh(f, r) ==
  /\ r.pc \in {"bumps", "bumps+1"} => r.subscribers \in {<<>>, f.list}
  /\ MakesRoom(r) => Users(r.subscribers) = Tail(Users(f.list)) /\ ~Listed(f.list, r.from)
  /\ Posts(r) => Users(r.subscribers) = Users(f.list)
  /\ r.pc = "list+1" => Users(r.subscribers) = Users(f.list) \/ Passed(Users(f.list), Users(r.subscribers))
  /\ r.pc = "top+1" => \A i \in 1..TopSize :
       r.top[i].value >= (IF r.subject = "message" THEN f.topPosts ELSE f.topBumps)[i].value

Alone == \A s, t \in Script : run[s].pc # "idle" /\ run[t].pc # "idle" => s = t

AloneInv == "overlap" \notin trouble => Alone /\ \A s \in Script : Fresh(file, run[s])

\* What OldestIsBumped and TopOnlyRises say of a step.
ListPasses == Users(file'.list) # Users(file.list) => Passed(Users(file.list), Users(file'.list))
TopsRise == \A i \in 1..TopSize :
  file'.topBumps[i].value >= file.topBumps[i].value /\ file'.topPosts[i].value >= file.topPosts[i].value

SameLists == file'.list = file.list /\ file'.topBumps = file.topBumps /\ file'.topPosts = file.topPosts

LEMMA UsersTyped ==
  ASSUME NEW L \in Seq(Record)
  PROVE  /\ Users(L) \in Seq(Person) /\ Len(Users(L)) = Len(L)
         /\ \A i \in 1..Len(L) : Users(L)[i] = L[i].userId
         /\ \A u : Listed(L, u) <=> u \in ToSet(Users(L))
  <1>1. Len(L) \in Nat /\ DOMAIN L = 1..Len(L) /\ \A i \in 1..Len(L) : L[i] \in Record
    OBVIOUS
  <1>2. Users(L) = [i \in 1..Len(L) |-> L[i].userId] /\ \A i \in 1..Len(L) : L[i].userId \in Person
    BY <1>1, RecordTyped DEF Users
  <1>3. Users(L) \in Seq(Person) /\ Len(Users(L)) = Len(L)
    BY <1>1, <1>2
  <1>4. \A u : Listed(L, u) <=> u \in ToSet(Users(L))
    BY <1>1, <1>2, ListedIn DEF ToSet
  <1> QED BY <1>2, <1>3, <1>4

LEMMA UsersOfTail ==
  ASSUME NEW L \in Seq(Record), L # <<>>
  PROVE  Users(Tail(L)) = Tail(Users(L))
  <1>1. /\ Tail(L) \in Seq(Record) /\ Len(Tail(L)) = Len(L) - 1 /\ Len(L) \in Nat \ {0}
        /\ \A i \in 1..Len(Tail(L)) : Tail(L)[i] = L[i + 1] /\ i + 1 \in 1..Len(L)
    OBVIOUS
  <1> DEFINE U == Users(L)
  <1>2. U \in Seq(Person) /\ Len(U) = Len(L) /\ \A i \in 1..Len(L) : U[i] = L[i].userId
    BY UsersTyped
  <1> HIDE DEF U
  <1>3. Tail(U) \in Seq(Person) /\ Len(Tail(U)) = Len(U) - 1 /\ \A i \in 1..Len(Tail(U)) : Tail(U)[i] = U[i + 1]
    BY <1>1, <1>2
  <1> DEFINE V == Users(Tail(L))
  <1>4. V \in Seq(Person) /\ Len(V) = Len(Tail(L)) /\ \A i \in 1..Len(Tail(L)) : V[i] = Tail(L)[i].userId
    BY <1>1, UsersTyped
  <1> HIDE DEF V
  <1>5. \A i \in 1..Len(V) : V[i] = Tail(U)[i]
    BY <1>1, <1>2, <1>3, <1>4
  <1>6. V = Tail(U)
    BY <1>1, <1>2, <1>3, <1>4, <1>5, SeqEqual
  <1> QED BY <1>6 DEF U, V

LEMMA UsersOfAppend ==
  ASSUME NEW L \in Seq(Record), NEW p \in Record
  PROVE  Users(Append(L, p)) = Append(Users(L), p.userId)
  <1>1. /\ Append(L, p) \in Seq(Record) /\ Len(Append(L, p)) = Len(L) + 1 /\ Len(L) \in Nat
        /\ \A i \in 1..Len(L) : Append(L, p)[i] = L[i]
        /\ Append(L, p)[Len(L) + 1] = p
    OBVIOUS
  <1> DEFINE U == Users(L)
             V == Users(Append(L, p))
  <1>2. U \in Seq(Person) /\ Len(U) = Len(L) /\ \A i \in 1..Len(L) : U[i] = L[i].userId
    BY UsersTyped
  <1>3. V \in Seq(Person) /\ Len(V) = Len(L) + 1 /\ \A i \in 1..Len(L) + 1 : V[i] = Append(L, p)[i].userId
    BY <1>1, UsersTyped
  <1>4. p.userId \in Person
    BY RecordTyped
  <1> HIDE DEF U, V
  <1>5. /\ Append(U, p.userId) \in Seq(Person) /\ Len(Append(U, p.userId)) = Len(U) + 1
        /\ \A i \in 1..Len(U) : Append(U, p.userId)[i] = U[i]
        /\ Append(U, p.userId)[Len(U) + 1] = p.userId
    BY <1>2, <1>4
  <1>6. \A i \in 1..Len(V) : V[i] = Append(U, p.userId)[i]
    <2> SUFFICES ASSUME NEW i \in 1..Len(V) PROVE V[i] = Append(U, p.userId)[i]
      OBVIOUS
    <2>1. i \in 1..Len(L) \/ i = Len(L) + 1
      BY <1>1, <1>3
    <2> QED BY <2>1, <1>1, <1>2, <1>3, <1>5
  <1>7. V = Append(U, p.userId)
    BY <1>2, <1>3, <1>5, <1>6, SeqEqual
  <1> QED BY <1>7 DEF U, V

\* What a script goes on with after a step that leaves its list as it is.
GoesOn(s, pcs) ==
  /\ run'[s].subject = run[s].subject /\ run'[s].from = run[s].from
  /\ run'[s].subscribers = run[s].subscribers /\ run'[s].pc \in pcs

LEMMA ListsStay ==
  ASSUME FileOK(file), SameLists
  PROVE  ListPasses /\ TopsRise
  <1>1. \A i \in 1..TopSize : file.topBumps[i].value \in Nat /\ file.topPosts[i].value \in Nat
    BY DEF FileOK, File, Ranking
  <1> QED BY <1>1 DEF SameLists, ListPasses, TopsRise

LEMMA FreshStays ==
  ASSUME NEW s \in Script, FileOK(file), Fresh(file, run[s]), SameLists,
         \/ run[s].pc = "bumps" /\ GoesOn(s, {"bumps+1"})
         \/ MakesRoom(run[s]) /\ GoesOn(s, {"top", "entry", "resubs", "resubs+1", "entry+1"})
         \/ Posts(run[s]) /\ GoesOn(s, {"top", "subjects", "messages", "messages+1", "stats"})
         \/ run'[s].pc \in {"idle", "page", "page+1"}
  PROVE  Fresh(file', run'[s]) /\ ListPasses /\ TopsRise
  <1>1. Fresh(file', run'[s])
    BY DEF GoesOn, SameLists, Fresh, MakesRoom, Posts
  <1> QED BY <1>1, ListsStay

\* The steps that change neither the script's list nor the list and the top lists in the files.
LEMMA StayingSteps ==
  ASSUME BumpInv, NEW s \in Script, Fresh(file, run[s]),
         \/ ReadBumps(s) \/ WriteUnsub(s) \/ ReadEntry(s) \/ ReadResubs(s) \/ WriteResubs(s)
         \/ ReadPoster(s) \/ Subjects(s) \/ ReadMessages(s)
         \/ ReadPage(s) \/ WritePage(s) \/ Killed(s)
  PROVE  Fresh(file', run'[s]) /\ ListPasses /\ TopsRise
  <1>0. /\ run \in [Script -> Run] /\ run[s] \in Run /\ RunInv(run[s]) /\ FileOK(file) /\ file \in File
    BY Held
  <1>1. CASE ReadBumps(s)
    <2>1. SameLists /\ run[s].pc = "bumps" /\ GoesOn(s, {"bumps+1"})
      BY <1>0, <1>1 DEF ReadBumps, At, SameLists, GoesOn, Run
    <2> QED BY <1>0, <2>1, FreshStays
  <1>2. CASE WriteUnsub(s)
    <2>1. SameLists
      BY <1>0, <1>2 DEF WriteUnsub, Writes, SameLists, File
    <2>2. MakesRoom(run[s]) /\ GoesOn(s, {"top"})
      BY <1>0, <1>2 DEF WriteUnsub, Goto, At, GoesOn, Run, RunInv, RoomMade, MakesRoom
    <2> QED BY <1>0, <2>1, <2>2, FreshStays DEF GoesOn
  <1>3. CASE ReadEntry(s)
    <2>1. SameLists /\ MakesRoom(run[s])
      BY <1>0, <1>3 DEF ReadEntry, At, SameLists, RunInv, RoomMade, MakesRoom
    <2>2. PICK p : run' = [run EXCEPT ![s].person = Subscribed(p),
                                      ![s].pc = IF p.numSubscribes # 0 THEN "resubs" ELSE "entry+1"]
      BY <1>3 DEF ReadEntry
    <2>3. GoesOn(s, {"resubs", "entry+1"})
      BY <1>0, <2>2 DEF GoesOn, Run
    <2> QED BY <1>0, <2>1, <2>3, FreshStays DEF GoesOn
  <1>4. CASE ReadResubs(s)
    <2>1. SameLists /\ MakesRoom(run[s]) /\ GoesOn(s, {"resubs+1"})
      BY <1>0, <1>4 DEF ReadResubs, At, SameLists, GoesOn, Run, RunInv, RoomMade, MakesRoom
    <2> QED BY <1>0, <2>1, FreshStays DEF GoesOn
  <1>5. CASE WriteResubs(s)
    <2>1. SameLists
      BY <1>0, <1>5 DEF WriteResubs, Writes, SameLists, File
    <2>2. MakesRoom(run[s]) /\ GoesOn(s, {"entry+1"})
      BY <1>0, <1>5 DEF WriteResubs, At, GoesOn, Run, RunInv, RoomMade, MakesRoom
    <2> QED BY <1>0, <2>1, <2>2, FreshStays DEF GoesOn
  <1>6. CASE ReadPoster(s)
    <2>1. SameLists /\ Posts(run[s])
      BY <1>0, <1>6 DEF ReadPoster, At, SameLists, RunInv, Posts
    <2>2. PICK p : run' = [run EXCEPT ![s].person = p, ![s].pc = "top"]
      BY <1>6 DEF ReadPoster
    <2>3. GoesOn(s, {"top"})
      BY <1>0, <2>2 DEF GoesOn, Run
    <2> QED BY <1>0, <2>1, <2>3, FreshStays DEF GoesOn
  <1>7. CASE Subjects(s)
    <2>1. SameLists /\ Posts(run[s])
      BY <1>0, <1>7 DEF Subjects, At, SameLists, RunInv, Posts
    <2>2. Goto(s, "messages") \/ Ends(s)
      BY <1>7 DEF Subjects
    <2>3. GoesOn(s, {"messages"}) \/ run'[s].pc = "idle"
      BY <1>0, <2>2 DEF Goto, Ends, Idle, GoesOn, Run
    <2> QED BY <1>0, <2>1, <2>3, FreshStays DEF GoesOn
  <1>8. CASE ReadMessages(s)
    <2>1. SameLists /\ Posts(run[s]) /\ GoesOn(s, {"messages+1"})
      BY <1>0, <1>8 DEF ReadMessages, At, SameLists, GoesOn, Run, RunInv, Posts
    <2> QED BY <1>0, <2>1, FreshStays DEF GoesOn
  <1>9. CASE ReadPage(s)
    <2>1. SameLists
      BY <1>9 DEF ReadPage, SameLists
    <2>2. PICK list : IF list = <<>> THEN Ends(s)
                      ELSE run' = [run EXCEPT ![s] = [Idle EXCEPT !.pc = "page+1", !.subscribers = list]]
      BY <1>9 DEF ReadPage
    <2>3. CASE list = <<>>
      <3>1. run'[s].pc = "idle"
        BY <1>0, <2>2, <2>3 DEF Ends, Idle
      <3> QED BY <1>0, <2>1, <3>1, FreshStays
    <2>4. CASE list # <<>>
      <3>1. run'[s].pc = "page+1"
        BY <1>0, <2>2, <2>4 DEF Idle
      <3> QED BY <1>0, <2>1, <3>1, FreshStays
    <2> QED BY <2>3, <2>4
  <1>10. CASE WritePage(s)
    <2>1. SameLists
      BY <1>0, <1>10 DEF WritePage, Writes, SameLists, File
    <2>2. run'[s].pc = "idle"
      BY <1>0, <1>10 DEF WritePage, Ends, Idle
    <2> QED BY <1>0, <2>1, <2>2, FreshStays
  <1>11. CASE Killed(s)
    <2>1. SameLists /\ run'[s].pc = "idle"
      BY <1>0, <1>11 DEF Killed, SameLists, Ends, Idle
    <2> QED BY <1>0, <2>1, FreshStays
  <1> QED BY <1>1, <1>2, <1>3, <1>4, <1>5, <1>6, <1>7, <1>8, <1>9, <1>10, <1>11

LEMMA ReadListFresh ==
  ASSUME BumpInv, NEW s \in Script, ReadList(s)
  PROVE  Fresh(file', run'[s]) /\ ListPasses /\ TopsRise
  <1>0. run \in [Script -> Run] /\ run[s] \in Run /\ FileOK(file)
    BY Held
  <1>1. PICK list \in {file.list, <<>>} : run' = [run EXCEPT ![s].subscribers = list, ![s].pc = NextOf(s, list)]
    BY DEF ReadList
  <1>2. SameLists
    BY DEF ReadList, SameLists
  <1>3. run'[s].pc = NextOf(s, list) /\ run'[s].subscribers = list /\ run'[s].from = run[s].from
    BY <1>0, <1>1 DEF Run
  <1>4. NextOf(s, list) \in {"page", "bumps"} \/ (NextOf(s, list) = "poster" /\ Listed(list, run[s].from))
    BY DEF NextOf
  <1>5. ~Listed(<<>>, run[s].from)
    BY DEF Listed, Position
  <1>6. Fresh(file', run'[s])
    BY <1>1, <1>2, <1>3, <1>4, <1>5 DEF Fresh, SameLists, MakesRoom, Posts
  <1> QED BY <1>0, <1>2, <1>6, ListsStay

LEMMA WriteBumpsFresh ==
  ASSUME BumpInv, NEW s \in Script, Fresh(file, run[s]), WriteBumps(s)
  PROVE  Fresh(file', run'[s]) /\ ListPasses /\ TopsRise
  <1> DEFINE subs == run[s].subscribers
  <1>0. /\ run \in [Script -> Run] /\ run[s] \in Run /\ RunInv(run[s]) /\ FileOK(file) /\ file \in File
        /\ run[s].pc = "bumps+1" /\ Unsub(s)
    BY Held DEF WriteBumps, At
  <1>1. SameLists
    BY <1>0 DEF WriteBumps, Writes, SameLists, File
  <1>2. CASE subs = <<>>
    <2>1. run'[s].pc = "idle"
      BY <1>0, <1>2 DEF Unsub, Ends, Idle
    <2> QED BY <1>0, <1>1, <2>1, FreshStays
  <1>3. CASE subs # <<>>
    <2>1. subs = file.list /\ subs \in Seq(Record) /\ ~Listed(subs, run[s].from)
      BY <1>0, <1>3 DEF Fresh, RunInv, Run
    <2>2. /\ run'[s].pc = "unsub" /\ run'[s].subscribers = Tail(subs) /\ run'[s].from = run[s].from
          /\ run'[s].subject = run[s].subject
      BY <1>0, <1>3 DEF Unsub, Run
    <2>3. Users(Tail(subs)) = Tail(Users(file.list))
      BY <1>3, <2>1, UsersOfTail
    <2>4. Fresh(file', run'[s])
      BY <1>1, <2>1, <2>2, <2>3 DEF Fresh, SameLists, Posts
    <2> QED BY <1>0, <1>1, <2>4, ListsStay
  <1> QED BY <1>2, <1>3

LEMMA WriteEntryFresh ==
  ASSUME BumpInv, NEW s \in Script, Fresh(file, run[s]), WriteEntry(s)
  PROVE  Fresh(file', run'[s]) /\ ListPasses /\ TopsRise
  <1> DEFINE p == run[s].person
             subs == run[s].subscribers
  <1>0. /\ run \in [Script -> Run] /\ run[s] \in Run /\ RunInv(run[s]) /\ FileOK(file) /\ file \in File
        /\ run[s].pc = "entry+1"
    BY Held DEF WriteEntry, At
  <1>1. SameLists
    BY <1>0 DEF WriteEntry, Writes, SameLists, File
  <1>2. p \in Record /\ p.userId = run[s].from /\ run[s].from \in Person /\ MakesRoom(run[s]) /\ subs \in Seq(Record)
    BY <1>0 DEF RunInv, RoomMade, MakesRoom, Run
  <1>3. Users(subs) = Tail(Users(file.list)) /\ p.userId \notin ToSet(Users(file.list))
    BY <1>0, <1>2, UsersTyped DEF Fresh, File
  <1>4. run'[s].pc = "list+1" /\ run'[s].subscribers = Append(subs, p)
    BY <1>0 DEF WriteEntry, Pushed, Run
  <1>5. Users(Append(subs, p)) = Append(Users(subs), p.userId)
    BY <1>2, UsersOfAppend
  <1>6. Passed(Users(file.list), Users(run'[s].subscribers))
    BY <1>2, <1>3, <1>4, <1>5 DEF Passed
  <1>7. Fresh(file', run'[s])
    BY <1>1, <1>4, <1>6 DEF Fresh, SameLists, MakesRoom, Posts
  <1> QED BY <1>0, <1>1, <1>7, ListsStay

LEMMA WriteMessagesFresh ==
  ASSUME BumpInv, NEW s \in Script, Fresh(file, run[s]), WriteMessages(s)
  PROVE  Fresh(file', run'[s]) /\ ListPasses /\ TopsRise
  <1> DEFINE L == run[s].subscribers
  <1>0. /\ run \in [Script -> Run] /\ run[s] \in Run /\ RunInv(run[s]) /\ FileOK(file) /\ file \in File
        /\ run[s].pc = "messages+1"
    BY Held DEF WriteMessages, At
  <1>1. SameLists
    BY <1>0 DEF WriteMessages, Writes, SameLists, File
  <1>2. FullList(L) /\ Posts(run[s])
    BY <1>0 DEF RunInv, Posts
  <1> DEFINE M == WithPost(L, run[s].from)
  <1>3. FullList(M) /\ \A i \in 1..Len(L) : M[i].userId = L[i].userId
    BY <1>2, PostCounted
  <1>4. run'[s].pc = "stats" /\ run'[s].subscribers = M /\ run'[s].subject = run[s].subject
    BY <1>0 DEF WriteMessages, Run
  <1> HIDE DEF M
  <1>5. DOMAIN M = DOMAIN L /\ DOMAIN L = 1..Len(L)
    BY <1>2, <1>3 DEF FullList, Distinct
  <1>6. Users(M) = Users(L)
    BY <1>3, <1>5 DEF Users
  <1>7. Fresh(file', run'[s])
    BY <1>1, <1>2, <1>4, <1>6 DEF Fresh, SameLists, MakesRoom, Posts
  <1> QED BY <1>0, <1>1, <1>7, ListsStay

LEMMA WriteStatsFresh ==
  ASSUME BumpInv, NEW s \in Script, Fresh(file, run[s]), WriteStats(s)
  PROVE  Fresh(file', run'[s]) /\ ListPasses /\ TopsRise
  <1>0. /\ run \in [Script -> Run] /\ run[s] \in Run /\ RunInv(run[s]) /\ FileOK(file) /\ file \in File
        /\ run[s].pc = "stats"
    BY Held DEF WriteStats, At
  <1>1. SameLists
    BY <1>0 DEF WriteStats, Writes, SameLists, File
  <1>2. Posts(run[s])
    BY <1>0 DEF RunInv, Posts
  <1>3. GoesOn(s, {"list+1", "stats"})
    BY <1>0 DEF WriteStats, GoesOn, Run
  <1>4. Fresh(file', run'[s])
    BY <1>1, <1>2, <1>3 DEF Fresh, SameLists, MakesRoom, Posts, GoesOn
  <1> QED BY <1>0, <1>1, <1>4, ListsStay

LEMMA WriteListFresh ==
  ASSUME BumpInv, NEW s \in Script, Fresh(file, run[s]), WriteList(s)
  PROVE  Fresh(file', run'[s]) /\ ListPasses /\ TopsRise
  <1>0. /\ run \in [Script -> Run] /\ run[s] \in Run /\ FileOK(file) /\ file \in File /\ run[s].pc = "list+1"
    BY Held DEF WriteList, At
  <1>1. run'[s].pc = "page"
    BY <1>0 DEF WriteList, Goto, Run
  <1>2. Fresh(file', run'[s])
    BY <1>1 DEF Fresh, MakesRoom, Posts
  <1>3. /\ file'.list \in {file.list, run[s].subscribers}
        /\ file'.topBumps = file.topBumps /\ file'.topPosts = file.topPosts
    BY <1>0 DEF WriteList, Writes, File
  <1>4. ListPasses
    BY <1>0, <1>3 DEF ListPasses, Fresh
  <1>5. TopsRise
    <2>1. \A i \in 1..TopSize : file.topBumps[i].value \in Nat /\ file.topPosts[i].value \in Nat
      BY <1>0 DEF File, Ranking
    <2> QED BY <1>3, <2>1 DEF TopsRise
  <1> QED BY <1>2, <1>4, <1>5

LEMMA ReadTopFresh ==
  ASSUME BumpInv, NEW s \in Script, Fresh(file, run[s]), ReadTop(s)
  PROVE  Fresh(file', run'[s]) /\ ListPasses /\ TopsRise
  <1>0. /\ run \in [Script -> Run] /\ run[s] \in Run /\ RunInv(run[s]) /\ FileOK(file) /\ file \in File
        /\ run[s].pc = "top"
    BY Held DEF ReadTop, At
  <1> DEFINE p == run[s].person
             value == IF Posting(s) THEN p.numPosts ELSE p.numBumps
  <1>1. /\ p \in Record /\ p.userId \in Person /\ value \in Nat
        /\ run[s].subject \in {"subscribe", "message"} /\ (MakesRoom(run[s]) \/ Posts(run[s]))
    BY <1>0, RecordTyped DEF RunInv, Covered, MakesRoom, Posts
  <1>2. TopOf(s) \in Ranking /\ DistinctTop(TopOf(s))
    BY <1>0 DEF TopOf, FileOK, File
  <1>3. PICK top \in {TopOf(s), <<>>} :
          run' = IF RankOf(s, top) = top
                   THEN [run EXCEPT ![s].person = NONE, ![s].pc = AfterTop(s)]
                   ELSE [run EXCEPT ![s].top = RankOf(s, top), ![s].pc = "top+1"]
    BY DEF ReadTop
  <1>4. SameLists
    BY DEF ReadTop, SameLists
  <1>5. CASE RankOf(s, top) = top
    <2>1. AfterTop(s) = IF run[s].subject = "subscribe" THEN "entry" ELSE "subjects"
      BY DEF AfterTop, Posting
    <2>2. GoesOn(s, {AfterTop(s)})
      BY <1>0, <1>3, <1>5 DEF GoesOn, Run
    <2>3. \/ MakesRoom(run[s]) /\ GoesOn(s, {"top", "entry", "resubs", "resubs+1", "entry+1"})
          \/ Posts(run[s]) /\ GoesOn(s, {"top", "subjects", "messages", "messages+1", "stats"})
      BY <1>1, <2>1, <2>2 DEF GoesOn, MakesRoom, Posts
    <2> QED BY <1>0, <1>4, <2>3, FreshStays
  <1>6. CASE RankOf(s, top) # top
    <2>1. RankOf(s, <<>>) = <<>>
      BY DEF RankOf, Ranked, Below
    <2>2. top = TopOf(s)
      BY <1>6, <2>1
    <2>3. RankOf(s, top) = Ranked(top, p.userId, value)
      BY DEF RankOf
    <2>4. \A i \in 1..TopSize : RankOf(s, top)[i].value >= top[i].value
      BY <1>1, <1>2, <2>2, <2>3, RankedTop
    <2>5. GoesOn(s, {"top+1"}) /\ run'[s].top = RankOf(s, top)
      BY <1>0, <1>3, <1>6 DEF GoesOn, Run
    <2>6. top = IF run[s].subject = "message" THEN file.topPosts ELSE file.topBumps
      BY <1>1, <2>2 DEF TopOf, Posting
    <2>7. Fresh(file', run'[s])
      BY <1>0, <1>1, <1>4, <2>4, <2>5, <2>6 DEF Fresh, SameLists, MakesRoom, Posts, GoesOn
    <2> QED BY <1>0, <1>4, <2>7, ListsStay
  <1> QED BY <1>5, <1>6

LEMMA WriteTopFresh ==
  ASSUME BumpInv, NEW s \in Script, Fresh(file, run[s]), WriteTop(s)
  PROVE  Fresh(file', run'[s]) /\ ListPasses /\ TopsRise
  <1>0. /\ run \in [Script -> Run] /\ run[s] \in Run /\ RunInv(run[s]) /\ FileOK(file) /\ file \in File
        /\ run[s].pc = "top+1" /\ run[s].subject \in {"subscribe", "message"}
        /\ (MakesRoom(run[s]) \/ Posts(run[s]))
    BY Held DEF WriteTop, At, RunInv, MakesRoom, Posts
  <1>1. AfterTop(s) = IF run[s].subject = "subscribe" THEN "entry" ELSE "subjects"
    BY DEF AfterTop, Posting
  <1>2. GoesOn(s, {AfterTop(s)})
    BY <1>0 DEF WriteTop, GoesOn, Run
  <1>3. file'.list = file.list
    BY <1>0 DEF WriteTop, Writes, File
  <1>4. Fresh(file', run'[s])
    BY <1>0, <1>1, <1>2, <1>3 DEF Fresh, MakesRoom, Posts, GoesOn
  <1>5. \A i \in 1..TopSize : file.topBumps[i].value \in Nat /\ file.topPosts[i].value \in Nat
    BY <1>0 DEF File, Ranking
  <1>6. TopsRise
    <2>1. CASE run[s].subject = "message"
      <3>1. file'.topBumps = file.topBumps /\ file'.topPosts \in {file.topPosts, run[s].top}
        BY <1>0, <2>1 DEF WriteTop, Writes, Posting, File
      <3>2. \A i \in 1..TopSize : run[s].top[i].value >= file.topPosts[i].value
        BY <1>0, <2>1 DEF Fresh
      <3> QED BY <1>5, <3>1, <3>2 DEF TopsRise
    <2>2. CASE run[s].subject = "subscribe"
      <3>1. file'.topPosts = file.topPosts /\ file'.topBumps \in {file.topBumps, run[s].top}
        BY <1>0, <2>2 DEF WriteTop, Writes, Posting, File
      <3>2. \A i \in 1..TopSize : run[s].top[i].value >= file.topBumps[i].value
        BY <1>0, <2>2 DEF Fresh
      <3> QED BY <1>5, <3>1, <3>2 DEF TopsRise
    <2> QED BY <1>0, <2>1, <2>2
  <1> QED BY <1>3, <1>4, <1>6 DEF ListPasses

\* A step of one script changes no other.
LEMMA OneScript ==
  ASSUME BumpInv, NEW s \in Script,
         \/ ReadList(s) \/ subscribePerson(s) \/ messageToSubscribers(s) \/ checkAndAddTop(s)
         \/ WriteList(s) \/ generateStats(s) \/ Killed(s)
  PROVE  /\ run[s].pc # "idle" /\ trouble \subseteq trouble'
         /\ \A t \in Script \ {s} : run'[t] = run[t]
  <1>0. run \in [Script -> Run]
    BY Held
  <1>1. CASE ReadList(s) \/ checkAndAddTop(s) \/ WriteList(s) \/ generateStats(s) \/ Killed(s)
    BY <1>0, <1>1
    DEF ReadList, checkAndAddTop, ReadTop, WriteTop, WriteList, generateStats, ReadPage, WritePage, Killed,
        At, Goto, Ends, Reads, Writes, Fault, NoFault
  <1>2. CASE subscribePerson(s)
    BY <1>0, <1>2
    DEF subscribePerson, ReadBumps, WriteBumps, Unsub, WriteUnsub, ReadEntry, ReadResubs, WriteResubs, WriteEntry,
        At, Goto, Ends, Reads, Writes, Fault, NoFault
  <1>3. CASE messageToSubscribers(s)
    BY <1>0, <1>3
    DEF messageToSubscribers, ReadPoster, Subjects, ReadMessages, WriteMessages, WriteStats,
        At, Goto, Ends, Reads, Writes, Fault, NoFault
  <1> QED BY <1>1, <1>2, <1>3

LEMMA ScriptFresh ==
  ASSUME BumpInv, NEW s \in Script, Fresh(file, run[s]),
         \/ ReadList(s) \/ subscribePerson(s) \/ messageToSubscribers(s) \/ checkAndAddTop(s)
         \/ WriteList(s) \/ generateStats(s) \/ Killed(s)
  PROVE  Fresh(file', run'[s]) /\ ListPasses /\ TopsRise
  <1>1. CASE subscribePerson(s)
    BY <1>1, StayingSteps, WriteBumpsFresh, WriteEntryFresh DEF subscribePerson
  <1>2. CASE messageToSubscribers(s)
    BY <1>2, StayingSteps, WriteMessagesFresh, WriteStatsFresh DEF messageToSubscribers
  <1>3. CASE checkAndAddTop(s) \/ generateStats(s) \/ Killed(s)
    BY <1>3, StayingSteps, ReadTopFresh, WriteTopFresh DEF checkAndAddTop, generateStats
  <1>4. CASE ReadList(s) \/ WriteList(s)
    BY <1>4, ReadListFresh, WriteListFresh
  <1> QED BY <1>1, <1>2, <1>3, <1>4

LEMMA AloneNext ==
  ASSUME BumpInv, AloneInv, [Next]_vars
  PROVE  AloneInv' /\ ("overlap" \notin trouble' => ListPasses /\ TopsRise)
  <1>0. run \in [Script -> Run] /\ FileOK(file)
    BY DEF BumpInv, TypeOK
  <1>1. CASE UNCHANGED vars
    <2>1. AloneInv'
      BY <1>1 DEF vars, AloneInv, Alone
    <2>2. SameLists
      BY <1>1 DEF vars, SameLists
    <2> QED BY <1>0, <2>1, <2>2, ListsStay
  <1>2. ASSUME NEW s \in Script, NEW subject \in {"subscribe", "message"}, NEW u \in Person, Start(s, subject, u)
        PROVE  AloneInv' /\ ("overlap" \notin trouble' => ListPasses /\ TopsRise)
    <2>1. SameLists /\ file' = file
      BY <1>2 DEF Start, SameLists
    <2>2. ASSUME "overlap" \notin trouble'
          PROVE  Alone' /\ \A t \in Script : Fresh(file, run'[t])
      <3>1. \A t \in Script \ {s} : run'[t] = run[t] /\ run[t].pc = "idle"
        BY <1>0, <1>2, <2>2 DEF Start
      <3>2. run'[s].pc = "list"
        BY <1>0, <1>2 DEF Start, Idle
      <3>3. Alone'
        BY <3>1, <3>2 DEF Alone
      <3>4. \A t \in Script : Fresh(file, run'[t])
        BY <3>1, <3>2 DEF Fresh, MakesRoom, Posts
      <3> QED BY <3>3, <3>4
    <2> QED BY <1>0, <2>1, <2>2, ListsStay DEF AloneInv
  <1>3. ASSUME NEW s \in Script,
               \/ ReadList(s) \/ subscribePerson(s) \/ messageToSubscribers(s) \/ checkAndAddTop(s)
               \/ WriteList(s) \/ generateStats(s) \/ Killed(s)
        PROVE  AloneInv' /\ ("overlap" \notin trouble' => ListPasses /\ TopsRise)
    <2>1. /\ run[s].pc # "idle" /\ trouble \subseteq trouble'
          /\ \A t \in Script \ {s} : run'[t] = run[t]
      BY <1>3, OneScript
    <2>2. ASSUME "overlap" \notin trouble'
          PROVE  Alone' /\ (\A t \in Script : Fresh(file', run'[t])) /\ ListPasses /\ TopsRise
      <3>1. Alone /\ \A t \in Script : Fresh(file, run[t])
        BY <2>1, <2>2 DEF AloneInv
      <3>2. Fresh(file', run'[s]) /\ ListPasses /\ TopsRise
        BY <1>3, <3>1, ScriptFresh
      <3>3. \A t \in Script \ {s} : run'[t].pc = "idle"
        BY <2>1, <3>1 DEF Alone
      <3>4. Alone'
        BY <3>3 DEF Alone
      <3>5. \A t \in Script : Fresh(file', run'[t])
        BY <3>2, <3>3 DEF Fresh, MakesRoom, Posts
      <3> QED BY <3>2, <3>4, <3>5
    <2> QED BY <2>2 DEF AloneInv
  <1> QED BY <1>1, <1>2, <1>3 DEF Next

LEMMA AloneInvariant == Spec => []AloneInv
  <1>1. Init => AloneInv
    BY DEF Init, Idle, AloneInv, Alone, Fresh, MakesRoom, Posts
  <1>2. BumpInv /\ AloneInv /\ [Next]_vars => AloneInv'
    BY AloneNext
  <1> QED BY <1>1, <1>2, BumpInvariant, PTL DEF Spec

(***************************************************************************)
(* A subscriber takes the last place and bumps the first one, one at a     *)
(* time, whatever calls fail and wherever scripts are killed: what         *)
(* subscribePerson makes of the list it read is right for the list in the  *)
(* file, as long as no other script is between those two calls.            *)
(***************************************************************************)
THEOREM OldestLeaves == Spec => OldestIsBumped
  <1>1. BumpInv /\ AloneInv /\ [Next]_vars =>
          [LET before == Users(file.list)
               after == Users(file'.list) IN
           "overlap" \notin trouble' /\ after # before =>
             \E u \in Person \ ToSet(before) : after = Append(Tail(before), u)]_vars
    BY AloneNext DEF ListPasses, Passed
  <1> QED BY <1>1, BumpInvariant, AloneInvariant, PTL DEF Spec, OldestIsBumped

(***************************************************************************)
(* checkAndAddTopBumps and checkAndAddTopPosts replace an entry by a       *)
(* higher one of the list that is in the file when they write it, as long  *)
(* as no other script writes it after they read it.                        *)
(***************************************************************************)
THEOREM TopsOnlyRise == Spec => TopOnlyRises
  <1>1. BumpInv /\ AloneInv /\ [Next]_vars =>
          [\A i \in 1..TopSize : "overlap" \notin trouble' =>
             /\ file'.topBumps[i].value >= file.topBumps[i].value
             /\ file'.topPosts[i].value >= file.topPosts[i].value]_vars
    BY AloneNext DEF TopsRise
  <1> QED BY <1>1, BumpInvariant, AloneInvariant, PTL DEF Spec, TopOnlyRises
=============================================================================
