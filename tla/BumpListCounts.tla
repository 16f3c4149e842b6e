---------------------------- MODULE BumpListCounts ----------------------------
(***************************************************************************)
(* Proofs of what the files of the BumpList script have to do with each    *)
(* other, for every number of persons, places and scripts: the counts with *)
(* the records they count, the list with the records it copies.            *)
(*                                                                         *)
(* A count is a sum over all persons and a step of the script changes one  *)
(* record, so one term of the sum.  What is written to a record is one of  *)
(* the entries of the list, which is as old as the last run that got as    *)
(* far as the list; that it is not older than it may be is the invariant   *)
(* (Copies), and how far the run at work is ahead of the files (Counted,   *)
(* Perfect).                                                               *)
(***************************************************************************)
EXTENDS BumpListProofs, FiniteSetTheorems

(***************************************************************************)
(* Without failing calls.  What a script holds is what the files hold, as  *)
(* long as scripts do not overlap, except for what it is about to write.   *)
(***************************************************************************)
\* The entries of a list are no newer than the records in the persons' files.
Copies(f, L) == \A i \in 1..Len(L) :
  LET stored == f.stat[L[i].userId] IN
  stored # NONE /\ L[i].numSubscribes = stored.numSubscribes /\ L[i].numBumps <= stored.numBumps

Counted(f, r) ==
  /\ r.pc \in {"bumps", "bumps+1"} => r.subscribers = f.list
  /\ MakesRoom(r) => r.subscribers = Tail(f.list)
  /\ Posts(r) =>
       /\ Listed(f.list, r.from)
       /\ r.subscribers = IF r.pc = "stats" THEN WithPost(f.list, r.from) ELSE f.list
  /\ r.pc = "list+1" => Copies(f, r.subscribers)
  /\ r.pc = "bumps+1" => r.count = f.bumps
  /\ r.pc = "unsub" => r.person = Bumped(Head(f.list)) /\ f.bumps > Total(BumpsOf(f.stat))
  /\ r.pc \in {"resubs", "resubs+1", "entry+1"} => r.person = Subscribed(KnownOf(f.stat, r.from))
  /\ r.pc \in {"resubs", "resubs+1"} => r.person.numSubscribes > 1
  /\ r.pc = "resubs+1" => r.count = f.resubs
  /\ r.pc = "entry+1" /\ r.person.numSubscribes > 1 => f.resubs > Total(ResubsOf(f.stat))

FiniteCounts(stat) ==
  IsFiniteSet(Each(BumpsOf(stat))) /\ IsFiniteSet(Each(ResubsOf(stat))) /\ IsFiniteSet(Each(PostsOf(stat)))

FileCounted(f) ==
  /\ Copies(f, f.list)
  /\ FiniteCounts(f.stat)
  /\ f.bumps >= Total(BumpsOf(f.stat))
  /\ f.resubs >= Total(ResubsOf(f.stat))

CountInv == trouble \subseteq {"kill"} => FileCounted(file) /\ \A s \in Script : Counted(file, run[s])

(***************************************************************************)
(* Nor killed scripts.  Cur is the list as far as it is on file already.   *)
(***************************************************************************)
Cur(f, r) == IF (MakesRoom(r) /\ r.pc # "unsub") \/ r.pc = "list+1" THEN r.subscribers ELSE f.list

PostPending(r) == r.pc = "stats" /\ \E i \in r.count..Len(r.subscribers) : r.subscribers[i].userId = r.from

Perfect(f, r) ==
  /\ r.pc \notin {"page", "page+1"} => f.whoOn = Users(f.list)
  /\ r.pc = "page+1" => r.subscribers = f.list
  /\ r.pc = "messages+1" => r.count = f.messages
  /\ \A i \in 1..Len(Cur(f, r)) :
       f.stat[Cur(f, r)[i].userId] = IF r.pc = "stats" /\ i < r.count THEN r.subscribers[i] ELSE Cur(f, r)[i]
  /\ \A u \in Person : f.stat[u] # NONE =>
       f.stat[u].numSubscribes = f.stat[u].numBumps + (IF Listed(Cur(f, r), u) THEN 1 ELSE 0)
  /\ f.bumps = Total(BumpsOf(f.stat)) + (IF r.pc = "unsub" THEN 1 ELSE 0)
  /\ f.resubs = Total(ResubsOf(f.stat)) + (IF r.pc = "entry+1" /\ r.person.numSubscribes > 1 THEN 1 ELSE 0)
  /\ f.messages = Total(PostsOf(f.stat)) + (IF PostPending(r) THEN 1 ELSE 0)

PerfectInv == trouble = {} =>
  /\ (\A s \in Script : run[s].pc = "idle") => Perfect(file, Idle)
  /\ \A s \in Script : run[s].pc # "idle" => Perfect(file, run[s])
-----------------------------------------------------------------------------
(***************************************************************************)
(* Sums.                                                                   *)
(***************************************************************************)
LEMMA TotalTyped ==
  ASSUME NEW c, IsFiniteSet(Each(c))
  PROVE  Total(c) \in Nat
  BY FS_CardinalityType DEF Total

LEMMA EachMember ==
  ASSUME NEW c
  PROVE  /\ \A u, n : <<u, n>> \in Each(c) <=> u \in Person /\ n \in 1..c[u]
         /\ \A e \in Each(c) : \E u \in Person : \E n \in 1..c[u] : e = <<u, n>>
  BY DEF Each

\* One term of a sum changes.
LEMMA TotalMoves ==
  ASSUME NEW c \in [Person -> Int], NEW d \in [Person -> Int], NEW u \in Person,
         \A v \in Person \ {u} : d[v] = c[v], IsFiniteSet(Each(c))
  PROVE  /\ IsFiniteSet(Each(d)) /\ Total(c) \in Nat /\ Total(d) \in Nat
         /\ d[u] <= c[u] => Total(d) <= Total(c)
         /\ d[u] = c[u] => Total(d) = Total(c)
         /\ d[u] = c[u] + 1 => Total(d) = Total(c) + (IF c[u] >= 0 THEN 1 ELSE 0)
  <1>1. IsFiniteSet(Each(d))
    <2>1. IsFiniteSet({u} \X (1..d[u]))
      <3>1. IsFiniteSet({u})
        BY FS_Singleton
      <3>2. d[u] \in Int /\ 1 \in Int
        OBVIOUS
      <3>3. IsFiniteSet(1..d[u])
        BY <3>2, FS_Interval
      <3> QED BY <3>1, <3>3, FS_Product
    <2>2. IsFiniteSet(Each(c) \cup ({u} \X (1..d[u])))
      BY <2>1, FS_Union
    <2>3. Each(d) \subseteq Each(c) \cup ({u} \X (1..d[u]))
      <3> SUFFICES ASSUME NEW e \in Each(d) PROVE e \in Each(c) \cup ({u} \X (1..d[u]))
        OBVIOUS
      <3>1. PICK v \in Person : \E n \in 1..d[v] : e = <<v, n>>
        BY EachMember
      <3>2. CASE v = u
        BY <3>1, <3>2
      <3>3. CASE v # u
        BY <3>1, <3>3, EachMember
      <3> QED BY <3>2, <3>3
    <2> QED BY <2>2, <2>3, FS_Subset
  <1>2. Total(c) \in Nat /\ Total(d) \in Nat
    BY <1>1, TotalTyped
  <1>3. ASSUME d[u] <= c[u] \/ d[u] <= 0 PROVE Each(d) \subseteq Each(c)
    <2> SUFFICES ASSUME NEW e \in Each(d) PROVE e \in Each(c)
      OBVIOUS
    <2>1. PICK v \in Person : \E n \in 1..d[v] : e = <<v, n>>
      BY EachMember
    <2>2. PICK n \in 1..d[v] : e = <<v, n>>
      BY <2>1
    <2>3. n \in 1..c[v]
      <3>1. CASE v = u
        BY <1>3, <3>1
      <3>2. CASE v # u
        BY <3>2
      <3> QED BY <3>1, <3>2
    <2> QED BY <2>2, <2>3, EachMember
  <1>4. d[u] <= c[u] => Total(d) <= Total(c)
    BY <1>3, FS_Subset DEF Total
  <1>5. ASSUME d[u] = c[u] \/ (c[u] < 0 /\ d[u] = c[u] + 1) PROVE Total(d) = Total(c)
    <2>1. Each(d) \subseteq Each(c)
      BY <1>3, <1>5
    <2>2. Each(c) \subseteq Each(d)
      <3> SUFFICES ASSUME NEW e \in Each(c) PROVE e \in Each(d)
        OBVIOUS
      <3>1. PICK v \in Person : \E n \in 1..c[v] : e = <<v, n>>
        BY EachMember
      <3>2. PICK n \in 1..c[v] : e = <<v, n>>
        BY <3>1
      <3>3. n \in 1..d[v]
        <4>1. CASE v = u
          BY <1>5, <4>1
        <4>2. CASE v # u
          BY <4>2
        <4> QED BY <4>1, <4>2
      <3> QED BY <3>2, <3>3, EachMember
    <2>3. Each(c) = Each(d)
      BY <2>1, <2>2
    <2> QED BY <2>3 DEF Total
  <1>6. ASSUME d[u] = c[u] + 1, c[u] >= 0 PROVE Total(d) = Total(c) + 1
    <2>1. <<u, d[u]>> \notin Each(c)
      BY <1>6, EachMember
    <2>2. Each(d) \subseteq Each(c) \cup {<<u, d[u]>>}
      <3> SUFFICES ASSUME NEW e \in Each(d) PROVE e \in Each(c) \cup {<<u, d[u]>>}
        OBVIOUS
      <3>1. PICK v \in Person : \E n \in 1..d[v] : e = <<v, n>>
        BY EachMember
      <3>2. PICK n \in 1..d[v] : e = <<v, n>>
        BY <3>1
      <3>3. n \in 1..c[v] \/ (v = u /\ n = d[u])
        <4>1. CASE v = u
          BY <1>6, <4>1
        <4>2. CASE v # u
          BY <4>2
        <4> QED BY <4>1, <4>2
      <3> QED BY <3>2, <3>3, EachMember
    <2>3. Each(c) \cup {<<u, d[u]>>} \subseteq Each(d)
      <3> SUFFICES ASSUME NEW e \in Each(c) PROVE e \in Each(d)
        BY <1>6, EachMember
      <3>1. PICK v \in Person : \E n \in 1..c[v] : e = <<v, n>>
        BY EachMember
      <3>2. PICK n \in 1..c[v] : e = <<v, n>>
        BY <3>1
      <3>3. n \in 1..d[v]
        <4>1. CASE v = u
          BY <1>6, <4>1
        <4>2. CASE v # u
          BY <4>2
        <4> QED BY <4>1, <4>2
      <3> QED BY <3>2, <3>3, EachMember
    <2>4. Each(d) = Each(c) \cup {<<u, d[u]>>}
      BY <2>2, <2>3
    <2>5. Cardinality(Each(c) \cup {<<u, d[u]>>}) = Cardinality(Each(c)) + 1
      BY <2>1, FS_AddElement
    <2> QED BY <2>4, <2>5 DEF Total
  <1> QED BY <1>1, <1>2, <1>4, <1>5, <1>6

Stats == [Person -> Record \cup {NONE}]

LEMMA CountsTyped ==
  ASSUME NEW stat \in Stats
  PROVE  /\ BumpsOf(stat) \in [Person -> Int] /\ ResubsOf(stat) \in [Person -> Int] /\ PostsOf(stat) \in [Person -> Int]
         /\ \A u \in Person : KnownOf(stat, u) \in Record
  <1>1. \A u \in Person : KnownOf(stat, u) \in Record
    BY UnknownTyped DEF KnownOf, Stats, Covered
  <1>2. \A u \in Person : /\ KnownOf(stat, u).numBumps \in Int /\ KnownOf(stat, u).numSubscribes - 1 \in Int
                          /\ KnownOf(stat, u).numPosts \in Int
    <2> TAKE u \in Person
    <2>1. /\ KnownOf(stat, u).numBumps \in Nat /\ KnownOf(stat, u).numSubscribes \in Nat
          /\ KnownOf(stat, u).numPosts \in Nat
      BY <1>1, RecordTyped
    <2> QED BY <2>1
  <1> QED BY <1>1, <1>2 DEF BumpsOf, ResubsOf, PostsOf

\* A write of one record moves three sums by what it changes of the person.
LEMMA RecordWritten ==
  ASSUME NEW stat \in Stats, FiniteCounts(stat), NEW p \in Record
  PROVE  LET new == [stat EXCEPT ![p.userId] = p]
             old == KnownOf(stat, p.userId) IN
         /\ FiniteCounts(new)
         /\ p.numBumps <= old.numBumps => Total(BumpsOf(new)) <= Total(BumpsOf(stat))
         /\ p.numBumps = old.numBumps => Total(BumpsOf(new)) = Total(BumpsOf(stat))
         /\ p.numBumps = old.numBumps + 1 => Total(BumpsOf(new)) = Total(BumpsOf(stat)) + 1
         /\ p.numSubscribes = old.numSubscribes => Total(ResubsOf(new)) = Total(ResubsOf(stat))
         /\ p.numSubscribes = old.numSubscribes + 1 =>
              Total(ResubsOf(new)) = Total(ResubsOf(stat)) + (IF old.numSubscribes > 0 THEN 1 ELSE 0)
         /\ p.numPosts = old.numPosts => Total(PostsOf(new)) = Total(PostsOf(stat))
         /\ p.numPosts = old.numPosts + 1 => Total(PostsOf(new)) = Total(PostsOf(stat)) + 1
  <1> DEFINE u == p.userId
             new == [stat EXCEPT ![u] = p]
             old == KnownOf(stat, u)
  <1>1. u \in Person /\ p # NONE /\ p.numBumps \in Nat /\ p.numSubscribes \in Nat /\ p.numPosts \in Nat
    BY RecordTyped
  <1>2. new \in Stats /\ new[u] = p /\ \A v \in Person \ {u} : new[v] = stat[v]
    BY <1>1 DEF Stats
  <1>3. old \in Record
    BY <1>1, CountsTyped
  <1>4. old.numBumps \in Nat /\ old.numSubscribes \in Nat /\ old.numPosts \in Nat
    BY <1>3, RecordTyped
  <1> HIDE DEF new
  <1>5. KnownOf(new, u) = p /\ \A v \in Person \ {u} : KnownOf(new, v) = KnownOf(stat, v)
    BY <1>1, <1>2 DEF KnownOf
  <1>6. /\ BumpsOf(stat)[u] = old.numBumps /\ BumpsOf(new)[u] = p.numBumps
        /\ ResubsOf(stat)[u] = old.numSubscribes - 1 /\ ResubsOf(new)[u] = p.numSubscribes - 1
        /\ PostsOf(stat)[u] = old.numPosts /\ PostsOf(new)[u] = p.numPosts
    BY <1>1, <1>5 DEF BumpsOf, ResubsOf, PostsOf
  <1>7. \A v \in Person \ {u} : /\ BumpsOf(new)[v] = BumpsOf(stat)[v] /\ ResubsOf(new)[v] = ResubsOf(stat)[v]
                                /\ PostsOf(new)[v] = PostsOf(stat)[v]
    BY <1>5 DEF BumpsOf, ResubsOf, PostsOf
  <1> HIDE DEF u, old
  <1>8. /\ IsFiniteSet(Each(BumpsOf(new)))
        /\ p.numBumps <= old.numBumps => Total(BumpsOf(new)) <= Total(BumpsOf(stat))
        /\ p.numBumps = old.numBumps => Total(BumpsOf(new)) = Total(BumpsOf(stat))
        /\ p.numBumps = old.numBumps + 1 => Total(BumpsOf(new)) = Total(BumpsOf(stat)) + 1
    <2> DEFINE c == BumpsOf(stat)
               d == BumpsOf(new)
    <2>1. c \in [Person -> Int] /\ d \in [Person -> Int] /\ IsFiniteSet(Each(c)) /\ \A v \in Person \ {u} : d[v] = c[v]
      BY <1>2, <1>7, CountsTyped DEF FiniteCounts
    <2>2. c[u] = old.numBumps /\ d[u] = p.numBumps
      BY <1>6
    <2> HIDE DEF c, d
    <2>3. /\ IsFiniteSet(Each(d))
          /\ d[u] <= c[u] => Total(d) <= Total(c)
          /\ d[u] = c[u] => Total(d) = Total(c)
          /\ d[u] = c[u] + 1 => Total(d) = Total(c) + (IF c[u] >= 0 THEN 1 ELSE 0)
      BY <1>1, <2>1, TotalMoves
    <2>4. c[u] >= 0
      BY <1>4, <2>2
    <2>5. d[u] = c[u] + 1 => Total(d) = Total(c) + 1
      BY <2>3, <2>4
    <2> QED BY <2>2, <2>3, <2>5 DEF c, d
  <1>9. /\ IsFiniteSet(Each(PostsOf(new)))
        /\ p.numPosts = old.numPosts => Total(PostsOf(new)) = Total(PostsOf(stat))
        /\ p.numPosts = old.numPosts + 1 => Total(PostsOf(new)) = Total(PostsOf(stat)) + 1
    <2> DEFINE c == PostsOf(stat)
               d == PostsOf(new)
    <2>1. c \in [Person -> Int] /\ d \in [Person -> Int] /\ IsFiniteSet(Each(c)) /\ \A v \in Person \ {u} : d[v] = c[v]
      BY <1>2, <1>7, CountsTyped DEF FiniteCounts
    <2>2. c[u] = old.numPosts /\ d[u] = p.numPosts
      BY <1>6
    <2> HIDE DEF c, d
    <2>3. /\ IsFiniteSet(Each(d))
          /\ d[u] = c[u] => Total(d) = Total(c)
          /\ d[u] = c[u] + 1 => Total(d) = Total(c) + (IF c[u] >= 0 THEN 1 ELSE 0)
      BY <1>1, <2>1, TotalMoves
    <2>4. c[u] >= 0
      BY <1>4, <2>2
    <2>5. d[u] = c[u] + 1 => Total(d) = Total(c) + 1
      BY <2>3, <2>4
    <2> QED BY <2>2, <2>3, <2>5 DEF c, d
  <1>10. /\ IsFiniteSet(Each(ResubsOf(new)))
         /\ p.numSubscribes = old.numSubscribes => Total(ResubsOf(new)) = Total(ResubsOf(stat))
         /\ p.numSubscribes = old.numSubscribes + 1 =>
              Total(ResubsOf(new)) = Total(ResubsOf(stat)) + (IF old.numSubscribes > 0 THEN 1 ELSE 0)
    <2> DEFINE c == ResubsOf(stat)
               d == ResubsOf(new)
    <2>1. c \in [Person -> Int] /\ d \in [Person -> Int] /\ IsFiniteSet(Each(c)) /\ \A v \in Person \ {u} : d[v] = c[v]
      BY <1>2, <1>7, CountsTyped DEF FiniteCounts
    <2>2. c[u] = old.numSubscribes - 1 /\ d[u] = p.numSubscribes - 1
      BY <1>6
    <2> HIDE DEF c, d
    <2>3. /\ IsFiniteSet(Each(d))
          /\ d[u] = c[u] => Total(d) = Total(c)
          /\ d[u] = c[u] + 1 => Total(d) = Total(c) + (IF c[u] >= 0 THEN 1 ELSE 0)
      BY <1>1, <2>1, TotalMoves
    <2>4. p.numSubscribes = old.numSubscribes => d[u] = c[u]
      BY <2>2
    <2>5. p.numSubscribes = old.numSubscribes + 1 => d[u] = c[u] + 1
      BY <1>4, <2>2
    <2>6. (c[u] >= 0) <=> (old.numSubscribes > 0)
      BY <1>4, <2>2
    <2> QED BY <2>3, <2>4, <2>5, <2>6 DEF c, d
  <1>11. FiniteCounts(new)
    BY <1>8, <1>9, <1>10 DEF FiniteCounts
  <1> QED BY <1>8, <1>9, <1>10, <1>11 DEF new, old, u
-----------------------------------------------------------------------------
(***************************************************************************)
(* Steps without failing calls.                                            *)
(***************************************************************************)
\* What HistoryKept says of a step.
SubscribesKept == \A u \in Known : file'.stat[u].numSubscribes >= file.stat[u].numSubscribes
BumpsKept == \A u \in Known :
  file'.stat[u].numBumps >= file.stat[u].numBumps /\ file'.stat[u].numPosts >= file.stat[u].numPosts

\* What is to be shown of a step of s.
KeepsCounts(s) ==
  /\ FileCounted(file') /\ Counted(file', run'[s]) /\ SubscribesKept
  /\ trouble' = {} /\ Perfect(file, run[s]) => Perfect(file', run'[s]) /\ BumpsKept

\* Where a step starts.
Sound(s) == FileCounted(file) /\ Counted(file, run[s]) /\ Fresh(file, run[s]) /\ trouble' \subseteq {"kill"}

LEMMA ReadAnswers ==
  ASSUME NEW v, NEW failed, NEW x, Reads(v, failed, x), trouble' \subseteq {"kill"}
  PROVE  x = v
  BY DEF Reads, Fault

LEMMA WriteDone ==
  ASSUME NEW f, Writes(f), trouble' \subseteq {"kill"}
  PROVE  file' = f
  BY DEF Writes, Fault

SameCounts == /\ file'.list = file.list /\ file'.stat = file.stat
              /\ file'.bumps = file.bumps /\ file'.resubs = file.resubs /\ file'.messages = file.messages

LEMMA StatsStay ==
  ASSUME FileOK(file), file'.stat = file.stat
  PROVE  SubscribesKept /\ BumpsKept
  <1>1. ASSUME NEW u \in Known
        PROVE  /\ file.stat[u].numSubscribes \in Nat /\ file.stat[u].numBumps \in Nat /\ file.stat[u].numPosts \in Nat
    <2>1. file.stat[u] \in Record
      BY DEF Known, FileOK, Covered
    <2> QED BY <2>1, RecordTyped
  <1>2. SubscribesKept
    BY <1>1 DEF SubscribesKept
  <1>3. BumpsKept
    BY <1>1 DEF BumpsKept
  <1> QED BY <1>2, <1>3

LEMMA CountsStay ==
  ASSUME NEW s, FileOK(file), FileCounted(file), SameCounts, Counted(file', run'[s]),
         trouble' = {} /\ Perfect(file, run[s]) => Perfect(file', run'[s])
  PROVE  KeepsCounts(s)
  <1>1. FileCounted(file')
    BY DEF SameCounts, FileCounted, Copies
  <1>2. SubscribesKept /\ BumpsKept
    BY StatsStay DEF SameCounts
  <1> QED BY <1>1, <1>2 DEF KeepsCounts

\* The next call of the same branch, with the same list and the same record.
LEMMA NextCall ==
  ASSUME NEW s \in Script, FileOK(file), Sound(s), SameCounts, file'.whoOn = file.whoOn,
         \/ MakesRoom(run[s]) /\ run[s].pc \in {"top", "top+1"} /\ GoesOn(s, {"top+1", "entry"})
         \/ Posts(run[s]) /\ run[s].pc # "stats" /\ GoesOn(s, {"top", "top+1", "subjects", "messages"})
  PROVE  KeepsCounts(s)
  <1>1. Counted(file', run'[s])
    BY DEF Sound, SameCounts, Counted, GoesOn, MakesRoom, Posts
  <1>2. Perfect(file, run[s]) => Perfect(file', run'[s])
    <2>1. /\ run[s].pc \notin {"page", "page+1", "stats", "unsub", "entry+1", "list+1"}
          /\ run'[s].pc \notin {"page", "page+1", "stats", "unsub", "entry+1", "list+1", "messages+1"}
      BY DEF MakesRoom, Posts, GoesOn
    <2>2. Cur(file', run'[s]) = Cur(file, run[s])
      BY <2>1 DEF SameCounts, Cur, GoesOn, MakesRoom, Posts
    <2>3. ~PostPending(run[s]) /\ ~PostPending(run'[s])
      BY <2>1 DEF PostPending
    <2> QED BY <2>1, <2>2, <2>3 DEF SameCounts, Perfect
  <1> QED BY <1>1, <1>2, CountsStay DEF Sound

\* The state of a script in two parts: what every step's proof starts from.
LEMMA Starts ==
  ASSUME BumpInv, NEW s \in Script, Sound(s)
  PROVE  /\ run \in [Script -> Run] /\ run[s] \in Run /\ RunInv(run[s]) /\ FileOK(file) /\ file \in File
         /\ FileCounted(file) /\ Counted(file, run[s])
  BY Held DEF Sound

LEMMA ReadListCounts ==
  ASSUME BumpInv, NEW s \in Script, Sound(s), ReadList(s)
  PROVE  KeepsCounts(s)
  <1>0. run \in [Script -> Run] /\ run[s] \in Run /\ FileOK(file) /\ FileCounted(file) /\ run[s].pc = "list"
    BY Starts DEF ReadList, At
  <1>1. PICK list \in {file.list, <<>>} :
          /\ Reads(file.list, <<>>, list)
          /\ run' = [run EXCEPT ![s].subscribers = list, ![s].pc = NextOf(s, list)]
    BY DEF ReadList
  <1>2. list = file.list
    BY <1>1, ReadAnswers DEF Sound
  <1>3. /\ run'[s].pc = NextOf(s, file.list) /\ run'[s].subscribers = file.list
        /\ run'[s].from = run[s].from /\ run'[s].subject = run[s].subject
    BY <1>0, <1>1, <1>2 DEF Run
  <1>4. /\ NextOf(s, file.list) \in {"page", "bumps", "poster"}
        /\ NextOf(s, file.list) = "poster" => Listed(file.list, run[s].from)
    BY DEF NextOf
  <1>5. file' = file
    BY DEF ReadList
  <1>6. Counted(file', run'[s])
    BY <1>3, <1>4, <1>5 DEF Counted, MakesRoom, Posts
  <1>7. Cur(file, run[s]) = file.list /\ Cur(file', run'[s]) = file.list
    BY <1>0, <1>3, <1>4, <1>5 DEF Cur, MakesRoom
  <1>8. ~PostPending(run[s]) /\ ~PostPending(run'[s])
    BY <1>0, <1>3, <1>4 DEF PostPending
  <1>9. Perfect(file, run[s]) => Perfect(file', run'[s])
    BY <1>0, <1>3, <1>4, <1>5, <1>7, <1>8 DEF Perfect
  <1>10. SameCounts
    BY <1>5 DEF SameCounts
  <1> QED BY <1>0, <1>6, <1>9, <1>10, CountsStay

LEMMA ReadBumpsCounts ==
  ASSUME BumpInv, NEW s \in Script, Sound(s), ReadBumps(s)
  PROVE  KeepsCounts(s)
  <1>0. /\ run \in [Script -> Run] /\ run[s] \in Run /\ FileOK(file) /\ FileCounted(file) /\ Counted(file, run[s])
        /\ run[s].pc = "bumps"
    BY Starts DEF ReadBumps, At
  <1>1. PICK n \in {file.bumps, -1} :
          Reads(file.bumps, -1, n) /\ run' = [run EXCEPT ![s].count = n, ![s].pc = "bumps+1"]
    BY DEF ReadBumps
  <1>2. n = file.bumps
    BY <1>1, ReadAnswers DEF Sound
  <1>3. GoesOn(s, {"bumps+1"}) /\ run'[s].count = file.bumps
    BY <1>0, <1>1, <1>2 DEF Run, GoesOn
  <1>4. file' = file /\ SameCounts
    BY DEF ReadBumps, SameCounts
  <1>5. Counted(file', run'[s])
    BY <1>0, <1>3, <1>4 DEF Counted, MakesRoom, Posts, GoesOn
  <1>6. Cur(file, run[s]) = file.list /\ Cur(file', run'[s]) = file.list
    BY <1>0, <1>3, <1>4 DEF Cur, MakesRoom, GoesOn
  <1>7. ~PostPending(run[s]) /\ ~PostPending(run'[s])
    BY <1>0, <1>3 DEF PostPending, GoesOn
  <1>8. Perfect(file, run[s]) => Perfect(file', run'[s])
    BY <1>0, <1>3, <1>4, <1>6, <1>7 DEF Perfect, GoesOn
  <1> QED BY <1>0, <1>4, <1>5, <1>8, CountsStay

LEMMA ReadTopCounts ==
  ASSUME BumpInv, NEW s \in Script, Sound(s), ReadTop(s)
  PROVE  KeepsCounts(s)
  <1>0. /\ run \in [Script -> Run] /\ run[s] \in Run /\ RunInv(run[s]) /\ FileOK(file) /\ run[s].pc = "top"
    BY Starts DEF ReadTop, At
  <1>1. run[s].subject \in {"subscribe", "message"}
    BY <1>0 DEF RunInv
  <1>2. AfterTop(s) = IF run[s].subject = "subscribe" THEN "entry" ELSE "subjects"
    BY DEF AfterTop, Posting
  <1>3. GoesOn(s, {"top+1", AfterTop(s)})
    BY <1>0 DEF ReadTop, GoesOn, Run
  <1>4. SameCounts /\ file'.whoOn = file.whoOn
    BY DEF ReadTop, SameCounts
  <1>5. \/ MakesRoom(run[s]) /\ GoesOn(s, {"top+1", "entry"})
        \/ Posts(run[s]) /\ GoesOn(s, {"top", "top+1", "subjects", "messages"})
    BY <1>0, <1>1, <1>2, <1>3 DEF GoesOn, MakesRoom, Posts
  <1> QED BY <1>0, <1>4, <1>5, NextCall

LEMMA WriteTopCounts ==
  ASSUME BumpInv, NEW s \in Script, Sound(s), WriteTop(s)
  PROVE  KeepsCounts(s)
  <1>0. /\ run \in [Script -> Run] /\ run[s] \in Run /\ RunInv(run[s]) /\ FileOK(file) /\ file \in File
        /\ run[s].pc = "top+1"
    BY Starts DEF WriteTop, At
  <1>1. run[s].subject \in {"subscribe", "message"}
    BY <1>0 DEF RunInv
  <1>2. AfterTop(s) = IF run[s].subject = "subscribe" THEN "entry" ELSE "subjects"
    BY DEF AfterTop, Posting
  <1>3. GoesOn(s, {AfterTop(s)})
    BY <1>0 DEF WriteTop, GoesOn, Run
  <1>4. SameCounts /\ file'.whoOn = file.whoOn
    BY <1>0 DEF WriteTop, Writes, SameCounts, File
  <1>5. \/ MakesRoom(run[s]) /\ GoesOn(s, {"top+1", "entry"})
        \/ Posts(run[s]) /\ GoesOn(s, {"top", "top+1", "subjects", "messages"})
    BY <1>0, <1>1, <1>2, <1>3 DEF GoesOn, MakesRoom, Posts
  <1> QED BY <1>0, <1>4, <1>5, NextCall

LEMMA ReadEntryCounts ==
  ASSUME BumpInv, NEW s \in Script, Sound(s), ReadEntry(s)
  PROVE  KeepsCounts(s)
  <1> DEFINE u == run[s].from
             p == KnownOf(file.stat, u)
  <1>0. /\ run \in [Script -> Run] /\ run[s] \in Run /\ RunInv(run[s]) /\ FileOK(file) /\ file \in File
        /\ FileCounted(file) /\ Counted(file, run[s]) /\ run[s].pc = "entry"
    BY Starts DEF ReadEntry, At
  <1>1. PICK stored \in {file.stat[u], NONE} :
          /\ Reads(file.stat[u], NONE, stored)
          /\ LET q == Object_Subscriber(u, stored) IN
             run' = [run EXCEPT ![s].person = Subscribed(q),
                                ![s].pc = IF q.numSubscribes # 0 THEN "resubs" ELSE "entry+1"]
    BY DEF ReadEntry
  <1>2. stored = file.stat[u]
    BY <1>1, ReadAnswers DEF Sound
  <1>3. Object_Subscriber(u, stored) = p
    BY <1>2 DEF Object_Subscriber, KnownOf
  <1>4. u \in Person /\ MakesRoom(run[s])
    BY <1>0 DEF RunInv, RoomMade, MakesRoom
  <1>5. p \in Record
    BY <1>0, <1>4, CountsTyped DEF File, Stats
  <1>6. p.numSubscribes \in Nat /\ Subscribed(p).numSubscribes = p.numSubscribes + 1
    BY <1>5, RecordTyped
  <1> HIDE DEF p
  <1>7. /\ GoesOn(s, {"resubs", "entry+1"}) /\ run'[s].person = Subscribed(p)
        /\ run'[s].pc = "resubs" <=> p.numSubscribes # 0
    BY <1>0, <1>1, <1>3 DEF Run, GoesOn
  <1>8. (run'[s].person.numSubscribes > 1) <=> run'[s].pc = "resubs"
    BY <1>6, <1>7
  <1>9. file' = file /\ SameCounts
    BY DEF ReadEntry, SameCounts
  <1>10. MakesRoom(run'[s]) /\ ~Posts(run'[s])
    BY <1>4, <1>7 DEF MakesRoom, Posts, GoesOn
  <1>11. run'[s].subscribers = Tail(file.list)
    BY <1>0, <1>4, <1>7 DEF GoesOn, Counted
  <1>12. run'[s].person = Subscribed(KnownOf(file'.stat, run'[s].from))
    BY <1>7, <1>9 DEF GoesOn, p
  <1>13. Counted(file', run'[s])
    BY <1>7, <1>8, <1>9, <1>10, <1>11, <1>12 DEF Counted, GoesOn
  <1>14. Cur(file', run'[s]) = Cur(file, run[s])
    BY <1>0, <1>4, <1>7, <1>10 DEF Cur, GoesOn
  <1>15. ~PostPending(run[s]) /\ ~PostPending(run'[s])
    BY <1>0, <1>7 DEF PostPending, GoesOn
  <1>16. Perfect(file, run[s]) => Perfect(file', run'[s])
    BY <1>0, <1>7, <1>8, <1>9, <1>14, <1>15 DEF Perfect, GoesOn
  <1> QED BY <1>0, <1>9, <1>13, <1>16, CountsStay

LEMMA ReadResubsCounts ==
  ASSUME BumpInv, NEW s \in Script, Sound(s), ReadResubs(s)
  PROVE  KeepsCounts(s)
  <1>0. /\ run \in [Script -> Run] /\ run[s] \in Run /\ RunInv(run[s]) /\ FileOK(file)
        /\ FileCounted(file) /\ Counted(file, run[s]) /\ run[s].pc = "resubs"
    BY Starts DEF ReadResubs, At
  <1>1. PICK n \in {file.resubs, -1} :
          Reads(file.resubs, -1, n) /\ run' = [run EXCEPT ![s].count = n, ![s].pc = "resubs+1"]
    BY DEF ReadResubs
  <1>2. n = file.resubs
    BY <1>1, ReadAnswers DEF Sound
  <1>3. GoesOn(s, {"resubs+1"}) /\ run'[s].count = file.resubs /\ run'[s].person = run[s].person
    BY <1>0, <1>1, <1>2 DEF Run, GoesOn
  <1>4. file' = file /\ SameCounts
    BY DEF ReadResubs, SameCounts
  <1>5. Counted(file', run'[s])
    BY <1>0, <1>3, <1>4 DEF Counted, MakesRoom, Posts, GoesOn
  <1>6. Cur(file', run'[s]) = Cur(file, run[s])
    BY <1>0, <1>3, <1>4 DEF Cur, MakesRoom, GoesOn
  <1>7. ~PostPending(run[s]) /\ ~PostPending(run'[s])
    BY <1>0, <1>3 DEF PostPending, GoesOn
  <1>8. Perfect(file, run[s]) => Perfect(file', run'[s])
    BY <1>0, <1>3, <1>4, <1>6, <1>7 DEF Perfect, GoesOn
  <1> QED BY <1>0, <1>4, <1>5, <1>8, CountsStay

LEMMA ReadPosterCounts ==
  ASSUME BumpInv, NEW s \in Script, Sound(s), ReadPoster(s)
  PROVE  KeepsCounts(s)
  <1>0. run \in [Script -> Run] /\ run[s] \in Run /\ RunInv(run[s]) /\ FileOK(file) /\ run[s].pc = "poster"
    BY Starts DEF ReadPoster, At
  <1>1. PICK p : run' = [run EXCEPT ![s].person = p, ![s].pc = "top"]
    BY DEF ReadPoster
  <1>2. GoesOn(s, {"top", "top+1", "subjects", "messages"}) /\ Posts(run[s])
    BY <1>0, <1>1 DEF GoesOn, Run, Posts, RunInv
  <1>3. SameCounts /\ file'.whoOn = file.whoOn
    BY DEF ReadPoster, SameCounts
  <1> QED BY <1>0, <1>2, <1>3, NextCall

LEMMA SubjectsCounts ==
  ASSUME BumpInv, NEW s \in Script, Sound(s), Subjects(s)
  PROVE  KeepsCounts(s)
  <1>0. run \in [Script -> Run] /\ run[s] \in Run /\ RunInv(run[s]) /\ FileOK(file) /\ run[s].pc = "subjects"
    BY Starts DEF Subjects, At
  <1>1. Goto(s, "messages")
    BY ReadAnswers DEF Subjects, Sound
  <1>2. GoesOn(s, {"top", "top+1", "subjects", "messages"}) /\ Posts(run[s])
    BY <1>0, <1>1 DEF GoesOn, Goto, Run, Posts, RunInv
  <1>3. SameCounts /\ file'.whoOn = file.whoOn
    BY DEF Subjects, SameCounts
  <1> QED BY <1>0, <1>2, <1>3, NextCall

LEMMA ReadMessagesCounts ==
  ASSUME BumpInv, NEW s \in Script, Sound(s), ReadMessages(s)
  PROVE  KeepsCounts(s)
  <1>0. /\ run \in [Script -> Run] /\ run[s] \in Run /\ RunInv(run[s]) /\ FileOK(file)
        /\ FileCounted(file) /\ Counted(file, run[s]) /\ run[s].pc = "messages"
    BY Starts DEF ReadMessages, At
  <1>1. PICK n \in {file.messages, -1} :
          Reads(file.messages, -1, n) /\ run' = [run EXCEPT ![s].count = n, ![s].pc = "messages+1"]
    BY DEF ReadMessages
  <1>2. n = file.messages
    BY <1>1, ReadAnswers DEF Sound
  <1>3. GoesOn(s, {"messages+1"}) /\ run'[s].count = file.messages
    BY <1>0, <1>1, <1>2 DEF Run, GoesOn
  <1>4. file' = file /\ SameCounts
    BY DEF ReadMessages, SameCounts
  <1>5. Counted(file', run'[s])
    BY <1>0, <1>3, <1>4 DEF Counted, MakesRoom, Posts, GoesOn
  <1>6. Cur(file', run'[s]) = Cur(file, run[s])
    BY <1>0, <1>3, <1>4 DEF Cur, MakesRoom, GoesOn
  <1>7. ~PostPending(run[s]) /\ ~PostPending(run'[s])
    BY <1>0, <1>3 DEF PostPending, GoesOn
  <1>8. Perfect(file, run[s]) => Perfect(file', run'[s])
    BY <1>0, <1>3, <1>4, <1>6, <1>7 DEF Perfect, GoesOn
  <1> QED BY <1>0, <1>4, <1>5, <1>8, CountsStay

LEMMA ReadPageCounts ==
  ASSUME BumpInv, NEW s \in Script, Sound(s), ReadPage(s)
  PROVE  KeepsCounts(s)
  <1>0. /\ run \in [Script -> Run] /\ run[s] \in Run /\ FileOK(file) /\ FileCounted(file) /\ run[s].pc = "page"
    BY Starts DEF ReadPage, At
  <1>1. file.list # <<>>
    BY <1>0, HeadLeaves DEF FileOK
  <1>2. run' = [run EXCEPT ![s] = [Idle EXCEPT !.pc = "page+1", !.subscribers = file.list]]
    BY <1>1, ReadAnswers DEF ReadPage, Sound
  <1>3. run'[s].pc = "page+1" /\ run'[s].subscribers = file.list
    BY <1>0, <1>2 DEF Idle
  <1>4. file' = file /\ SameCounts
    BY DEF ReadPage, SameCounts
  <1>5. Counted(file', run'[s])
    BY <1>3 DEF Counted, MakesRoom, Posts
  <1>6. Cur(file, run[s]) = file.list /\ Cur(file', run'[s]) = file.list
    BY <1>0, <1>3, <1>4 DEF Cur, MakesRoom
  <1>7. ~PostPending(run[s]) /\ ~PostPending(run'[s])
    BY <1>0, <1>3 DEF PostPending
  <1>8. Perfect(file, run[s]) => Perfect(file', run'[s])
    BY <1>0, <1>3, <1>4, <1>6, <1>7 DEF Perfect
  <1> QED BY <1>0, <1>4, <1>5, <1>8, CountsStay

LEMMA WritePageCounts ==
  ASSUME BumpInv, NEW s \in Script, Sound(s), WritePage(s)
  PROVE  KeepsCounts(s)
  <1> DEFINE f == [file EXCEPT !.whoOn = [i \in DOMAIN run[s].subscribers |-> run[s].subscribers[i].userId]]
  <1>0. /\ run \in [Script -> Run] /\ run[s] \in Run /\ FileOK(file) /\ file \in File /\ FileCounted(file)
        /\ run[s].pc = "page+1"
    BY Starts DEF WritePage, At
  <1>1. file' = f
    BY WriteDone DEF WritePage, Sound
  <1>2. SameCounts /\ file'.whoOn = Users(run[s].subscribers)
    BY <1>0, <1>1 DEF SameCounts, File, Users
  <1>3. run'[s] = Idle /\ Idle.pc = "idle"
    BY <1>0 DEF WritePage, Ends, Idle
  <1>4. Counted(file', run'[s])
    BY <1>3 DEF Counted, MakesRoom, Posts
  <1>5. Cur(file, run[s]) = file.list /\ Cur(file', run'[s]) = file.list
    BY <1>0, <1>2, <1>3 DEF Cur, MakesRoom, SameCounts
  <1>6. ~PostPending(run[s]) /\ ~PostPending(run'[s])
    BY <1>0, <1>3 DEF PostPending
  <1>7. Perfect(file, run[s]) => Perfect(file', run'[s])
    BY <1>0, <1>2, <1>3, <1>5, <1>6 DEF Perfect, SameCounts
  <1> QED BY <1>0, <1>2, <1>4, <1>7, CountsStay

LEMMA KilledCounts ==
  ASSUME BumpInv, NEW s \in Script, Sound(s), Killed(s)
  PROVE  KeepsCounts(s)
  <1>0. run \in [Script -> Run] /\ FileOK(file) /\ FileCounted(file)
    BY Starts
  <1>1. SameCounts /\ trouble' # {}
    BY DEF Killed, SameCounts, Fault
  <1>2. run'[s].pc = "idle"
    BY <1>0 DEF Killed, Ends, Idle
  <1>3. Counted(file', run'[s])
    BY <1>2 DEF Counted, MakesRoom, Posts
  <1> QED BY <1>0, <1>1, <1>3, CountsStay

LEMMA WriteBumpsCounts ==
  ASSUME BumpInv, NEW s \in Script, Sound(s), WriteBumps(s)
  PROVE  KeepsCounts(s)
  <1>0. /\ run \in [Script -> Run] /\ run[s] \in Run /\ RunInv(run[s]) /\ FileOK(file) /\ file \in File
        /\ FileCounted(file) /\ Counted(file, run[s]) /\ run[s].pc = "bumps+1"
    BY Starts DEF WriteBumps, At
  <1>1. file' = [file EXCEPT !.bumps = run[s].count + 1]
    BY WriteDone DEF WriteBumps, Sound
  <1>2. /\ file'.list = file.list /\ file'.stat = file.stat /\ file'.bumps = file.bumps + 1
        /\ file'.resubs = file.resubs /\ file'.messages = file.messages /\ file'.whoOn = file.whoOn
    BY <1>0, <1>1 DEF File, Counted
  <1>3. run[s].subscribers = file.list /\ file.list # <<>> /\ run[s].subject = "subscribe"
    BY <1>0, HeadLeaves DEF FileOK, Counted, RunInv
  <1>4. /\ run'[s].pc = "unsub" /\ run'[s].subject = "subscribe" /\ run'[s].person = Bumped(Head(file.list))
        /\ run'[s].subscribers = Tail(file.list)
    BY <1>0, <1>3 DEF WriteBumps, Unsub, Run
  <1>5. file.bumps \in Nat /\ Total(BumpsOf(file.stat)) \in Nat /\ file.bumps >= Total(BumpsOf(file.stat))
    BY <1>0, TotalTyped DEF FileCounted, FiniteCounts, File
  <1>6. FileCounted(file')
    BY <1>0, <1>2, <1>5 DEF FileCounted, Copies
  <1>7. file'.bumps > Total(BumpsOf(file'.stat))
    BY <1>2, <1>5
  <1>8. Counted(file', run'[s])
    BY <1>2, <1>4, <1>7 DEF Counted, Posts
  <1>9. SubscribesKept /\ BumpsKept
    BY <1>0, <1>2, StatsStay
  <1>10. Cur(file, run[s]) = file.list /\ Cur(file', run'[s]) = file.list
    BY <1>0, <1>2, <1>4 DEF Cur, MakesRoom
  <1>11. ~PostPending(run[s]) /\ ~PostPending(run'[s])
    BY <1>0, <1>4 DEF PostPending
  <1>12. Perfect(file, run[s]) => Perfect(file', run'[s])
    BY <1>0, <1>2, <1>4, <1>5, <1>10, <1>11 DEF Perfect
  <1> QED BY <1>6, <1>8, <1>9, <1>12 DEF KeepsCounts

LEMMA WriteResubsCounts ==
  ASSUME BumpInv, NEW s \in Script, Sound(s), WriteResubs(s)
  PROVE  KeepsCounts(s)
  <1>0. /\ run \in [Script -> Run] /\ run[s] \in Run /\ RunInv(run[s]) /\ FileOK(file) /\ file \in File
        /\ FileCounted(file) /\ Counted(file, run[s]) /\ run[s].pc = "resubs+1"
    BY Starts DEF WriteResubs, At
  <1>1. file' = [file EXCEPT !.resubs = run[s].count + 1]
    BY WriteDone DEF WriteResubs, Sound
  <1>2. /\ file'.list = file.list /\ file'.stat = file.stat /\ file'.bumps = file.bumps
        /\ file'.resubs = file.resubs + 1 /\ file'.messages = file.messages /\ file'.whoOn = file.whoOn
    BY <1>0, <1>1 DEF File, Counted
  <1>3. GoesOn(s, {"entry+1"}) /\ run'[s].person = run[s].person /\ MakesRoom(run[s])
    BY <1>0 DEF WriteResubs, GoesOn, Run, RunInv, RoomMade, MakesRoom
  <1>4. file.resubs \in Nat /\ Total(ResubsOf(file.stat)) \in Nat /\ file.resubs >= Total(ResubsOf(file.stat))
    BY <1>0, TotalTyped DEF FileCounted, FiniteCounts, File
  <1>5. FileCounted(file')
    BY <1>0, <1>2, <1>4 DEF FileCounted, Copies
  <1>6. file'.resubs > Total(ResubsOf(file'.stat))
    BY <1>2, <1>4
  <1>7. Counted(file', run'[s])
    BY <1>0, <1>2, <1>3, <1>6 DEF Counted, Posts, MakesRoom, GoesOn
  <1>8. SubscribesKept /\ BumpsKept
    BY <1>0, <1>2, StatsStay
  <1>9. Cur(file', run'[s]) = Cur(file, run[s])
    BY <1>0, <1>2, <1>3 DEF Cur, MakesRoom, GoesOn
  <1>10. ~PostPending(run[s]) /\ ~PostPending(run'[s])
    BY <1>0, <1>3 DEF PostPending, GoesOn
  <1>11. run'[s].person.numSubscribes > 1
    BY <1>0, <1>3 DEF Counted
  <1>12. Perfect(file, run[s]) => Perfect(file', run'[s])
    BY <1>0, <1>2, <1>3, <1>4, <1>9, <1>10, <1>11 DEF Perfect, GoesOn
  <1> QED BY <1>5, <1>7, <1>8, <1>12 DEF KeepsCounts

LEMMA WriteListCounts ==
  ASSUME BumpInv, NEW s \in Script, Sound(s), WriteList(s)
  PROVE  KeepsCounts(s)
  <1>0. /\ run \in [Script -> Run] /\ run[s] \in Run /\ FileOK(file) /\ file \in File
        /\ FileCounted(file) /\ Counted(file, run[s]) /\ run[s].pc = "list+1"
    BY Starts DEF WriteList, At
  <1>1. file' = [file EXCEPT !.list = run[s].subscribers]
    BY WriteDone DEF WriteList, Sound
  <1>2. /\ file'.list = run[s].subscribers /\ file'.stat = file.stat /\ file'.bumps = file.bumps
        /\ file'.resubs = file.resubs /\ file'.messages = file.messages
    BY <1>0, <1>1 DEF File
  <1>3. run'[s].pc = "page"
    BY <1>0 DEF WriteList, Goto, Run
  <1>4. FileCounted(file')
    BY <1>0, <1>2 DEF FileCounted, Copies, Counted
  <1>5. Counted(file', run'[s])
    BY <1>3 DEF Counted, MakesRoom, Posts
  <1>6. SubscribesKept /\ BumpsKept
    BY <1>0, <1>2, StatsStay
  <1>7. Cur(file', run'[s]) = Cur(file, run[s])
    BY <1>0, <1>2, <1>3 DEF Cur, MakesRoom
  <1>8. ~PostPending(run[s]) /\ ~PostPending(run'[s])
    BY <1>0, <1>3 DEF PostPending
  <1>9. Perfect(file, run[s]) => Perfect(file', run'[s])
    BY <1>0, <1>2, <1>3, <1>7, <1>8 DEF Perfect
  <1> QED BY <1>4, <1>5, <1>6, <1>9 DEF KeepsCounts

LEMMA WriteMessagesCounts ==
  ASSUME BumpInv, NEW s \in Script, Sound(s), WriteMessages(s)
  PROVE  KeepsCounts(s)
  <1> DEFINE L == file.list
             M == WithPost(L, run[s].from)
  <1>0. /\ run \in [Script -> Run] /\ run[s] \in Run /\ RunInv(run[s]) /\ FileOK(file) /\ file \in File
        /\ FileCounted(file) /\ Counted(file, run[s]) /\ run[s].pc = "messages+1"
    BY Starts DEF WriteMessages, At
  <1>1. file' = [file EXCEPT !.messages = run[s].count + 1]
    BY WriteDone DEF WriteMessages, Sound
  <1>2. /\ file'.list = L /\ file'.stat = file.stat /\ file'.bumps = file.bumps
        /\ file'.resubs = file.resubs /\ file'.messages = run[s].count + 1 /\ file'.whoOn = file.whoOn
    BY <1>0, <1>1 DEF File
  <1>3. Posts(run[s])
    BY <1>0 DEF RunInv, Posts
  <1>4. run[s].subscribers = L /\ Listed(L, run[s].from)
    BY <1>0, <1>3 DEF Counted
  <1>5. /\ run'[s].pc = "stats" /\ run'[s].subscribers = M /\ run'[s].count = 1
        /\ run'[s].from = run[s].from /\ run'[s].subject = run[s].subject
    BY <1>0, <1>4 DEF WriteMessages, Run
  <1>6. FullList(L) /\ FullList(M) /\ \A i \in 1..Len(L) : M[i].userId = L[i].userId
    BY <1>0, PostCounted DEF FileOK
  <1> HIDE DEF M
  <1>7. PostPending(run'[s])
    <2>1. PICK i \in 1..Len(L) : L[i].userId = run[s].from
      BY <1>4, <1>6, ListedIn DEF FullList, Distinct
    <2>2. i \in 1..Len(M) /\ M[i].userId = run[s].from
      BY <1>6, <2>1 DEF FullList
    <2> QED BY <1>5, <2>2 DEF PostPending
  <1>8. FileCounted(file')
    BY <1>0, <1>2 DEF FileCounted, Copies
  <1>9. Counted(file', run'[s])
    BY <1>2, <1>3, <1>4, <1>5 DEF Counted, MakesRoom, Posts, M
  <1>10. SubscribesKept /\ BumpsKept
    BY <1>0, <1>2, StatsStay
  <1>11. Cur(file, run[s]) = L /\ Cur(file', run'[s]) = L
    BY <1>0, <1>2, <1>5 DEF Cur, MakesRoom
  <1>12. ~PostPending(run[s]) /\ Total(PostsOf(file.stat)) \in Nat
    BY <1>0, TotalTyped DEF PostPending, FileCounted, FiniteCounts
  <1>13. ASSUME Perfect(file, run[s]) PROVE Perfect(file', run'[s])
    <2>1. \A i \in 1..Len(L) : ~(i < 1) /\ file.stat[L[i].userId] = L[i]
      BY <1>0, <1>11, <1>13 DEF Perfect
    <2>2. file.messages = Total(PostsOf(file.stat)) /\ run[s].count = file.messages
      BY <1>0, <1>12, <1>13 DEF Perfect
    <2>3. file'.messages = Total(PostsOf(file'.stat)) + 1
      BY <1>2, <2>2
    <2> QED BY <1>0, <1>2, <1>5, <1>7, <1>11, <1>13, <2>1, <2>3 DEF Perfect
  <1> QED BY <1>8, <1>9, <1>10, <1>13 DEF KeepsCounts
-----------------------------------------------------------------------------
(***************************************************************************)
(* Writes of a record.                                                     *)
(***************************************************************************)
LEMMA RecordStored ==
  ASSUME FileOK(file), NEW p \in Record, file' = [file EXCEPT !.stat[p.userId] = p]
  PROVE  /\ file'.list = file.list /\ file'.bumps = file.bumps /\ file'.resubs = file.resubs
         /\ file'.messages = file.messages /\ file'.whoOn = file.whoOn
         /\ file'.stat = [file.stat EXCEPT ![p.userId] = p]
         /\ file.stat \in Stats /\ file'.stat[p.userId] = p
         /\ \A u \in Person \ {p.userId} : file'.stat[u] = file.stat[u]
  <1>1. p.userId \in Person /\ file \in File /\ file.stat \in Stats
    BY RecordTyped DEF FileOK, File, Stats
  <1>2. /\ file'.list = file.list /\ file'.bumps = file.bumps /\ file'.resubs = file.resubs
        /\ file'.messages = file.messages /\ file'.whoOn = file.whoOn
        /\ file'.stat = [file.stat EXCEPT ![p.userId] = p]
    BY <1>1 DEF File
  <1>3. file'.stat[p.userId] = p /\ \A u \in Person \ {p.userId} : file'.stat[u] = file.stat[u]
    BY <1>1, <1>2 DEF Stats
  <1> QED BY <1>1, <1>2, <1>3

\* A record that counts no less than the one it is written over.
LEMMA NothingLost ==
  ASSUME FileOK(file), NEW p \in Record, file' = [file EXCEPT !.stat[p.userId] = p]
  PROVE  LET old == KnownOf(file.stat, p.userId) IN
         /\ p.numSubscribes >= old.numSubscribes => SubscribesKept
         /\ p.numBumps >= old.numBumps /\ p.numPosts >= old.numPosts => BumpsKept
  <1> DEFINE old == KnownOf(file.stat, p.userId)
  <1>1. /\ file'.stat[p.userId] = p
        /\ \A u \in Person \ {p.userId} : file'.stat[u] = file.stat[u]
    BY RecordStored
  <1>2. file.stat[p.userId] # NONE => old = file.stat[p.userId]
    BY DEF KnownOf
  <1>3. \A u \in Known : /\ file.stat[u] # NONE /\ u \in Person /\ file.stat[u].numSubscribes \in Nat
                         /\ file.stat[u].numBumps \in Nat /\ file.stat[u].numPosts \in Nat
    <2> TAKE u \in Known
    <2>1. file.stat[u] \in Record /\ u \in Person /\ file.stat[u] # NONE
      BY DEF Known, FileOK, Covered
    <2> QED BY <2>1, RecordTyped
  <1> HIDE DEF old
  <1>4. p.numSubscribes >= old.numSubscribes => SubscribesKept
    BY <1>1, <1>2, <1>3 DEF SubscribesKept
  <1>5. p.numBumps >= old.numBumps /\ p.numPosts >= old.numPosts => BumpsKept
    BY <1>1, <1>2, <1>3 DEF BumpsKept
  <1> QED BY <1>4, <1>5 DEF old

LEMMA TailListed ==
  ASSUME NEW L, FullList(L)
  PROVE  \A u : Listed(Tail(L), u) <=> Listed(L, u) /\ u # Head(L).userId
  <1>1. /\ L \in Seq(Record) /\ Len(L) \in Nat /\ L # <<>> /\ Head(L) = L[1] /\ 1 \in 1..Len(L)
        /\ Tail(L) \in Seq(Record) /\ Len(Tail(L)) = Len(L) - 1
        /\ \A i \in 1..Len(Tail(L)) : Tail(L)[i] = L[i + 1] /\ i + 1 \in 1..Len(L)
    BY HeadLeaves DEF FullList, Distinct
  <1>2. ASSUME NEW u, Listed(Tail(L), u) PROVE Listed(L, u) /\ u # Head(L).userId
    <2>1. PICK i \in 1..Len(Tail(L)) : Tail(L)[i].userId = u
      BY <1>1, <1>2, ListedIn
    <2>2. i + 1 \in 1..Len(L) /\ L[i + 1].userId = u
      BY <1>1, <2>1
    <2>3. i + 1 # 1
      BY <1>1
    <2>4. L[1].userId # u
      BY <1>1, <2>2, <2>3 DEF FullList, Distinct
    <2> QED BY <1>1, <2>2, <2>4, ListedIn
  <1>3. ASSUME NEW u, Listed(L, u), u # Head(L).userId PROVE Listed(Tail(L), u)
    <2>1. PICK i \in 1..Len(L) : L[i].userId = u
      BY <1>1, <1>3, ListedIn
    <2>2. i # 1
      BY <1>1, <1>3, <2>1
    <2>3. i - 1 \in 1..Len(Tail(L)) /\ (i - 1) + 1 = i
      BY <1>1, <2>2
    <2>4. Tail(L)[i - 1].userId = u
      BY <1>1, <2>1, <2>3
    <2> QED BY <1>1, <2>3, <2>4, ListedIn
  <1> QED BY <1>2, <1>3

LEMMA AppendListed ==
  ASSUME NEW L \in Seq(Record), NEW p \in Record
  PROVE  \A u : Listed(Append(L, p), u) <=> Listed(L, u) \/ u = p.userId
  <1> DEFINE A == Append(L, p)
  <1>1. /\ A \in Seq(Record) /\ Len(A) = Len(L) + 1 /\ Len(L) \in Nat
        /\ \A i \in 1..Len(L) : A[i] = L[i]
        /\ A[Len(L) + 1] = p
    OBVIOUS
  <1> HIDE DEF A
  <1>2. \A i : i \in 1..Len(A) <=> i \in 1..Len(L) \/ i = Len(L) + 1
    BY <1>1
  <1>3. \A u : Listed(A, u) <=> \E i \in 1..Len(A) : A[i].userId = u
    BY <1>1, ListedIn
  <1>4. \A u : Listed(L, u) <=> \E i \in 1..Len(L) : L[i].userId = u
    BY ListedIn
  <1>5. \A u : Listed(A, u) <=> Listed(L, u) \/ u = p.userId
    BY <1>1, <1>2, <1>3, <1>4
  <1> QED BY <1>5 DEF A

\* A post is counted in the poster's entry, and the entries keep the rest.
LEMMA PostedEntries ==
  ASSUME NEW L, FullList(L), NEW u
  PROVE  \A i \in 1..Len(L) :
           LET p == WithPost(L, u)[i] IN
           /\ p \in Record /\ p.userId = L[i].userId
           /\ p.numBumps = L[i].numBumps /\ p.numSubscribes = L[i].numSubscribes
           /\ p.numPosts = L[i].numPosts + (IF L[i].userId = u THEN 1 ELSE 0)
           /\ L[i].userId # u => p = L[i]
  <1>1. L \in Seq(Record) /\ Len(L) \in Nat /\ DOMAIN L = 1..Len(L)
    BY DEF FullList, Distinct
  <1> TAKE i \in 1..Len(L)
  <1>2. L[i] \in Record /\ (i \in Position(L, u) <=> L[i].userId = u) /\ L[i].numPosts \in Nat
    BY <1>1, RecordTyped DEF Position
  <1>3. WithPost(L, u)[i] = IF L[i].userId = u THEN [L[i] EXCEPT !.numPosts = @ + 1] ELSE L[i]
    BY <1>1, <1>2 DEF WithPost
  <1> QED BY <1>2, <1>3 DEF Record

LEMMA WriteUnsubCounts ==
  ASSUME BumpInv, NEW s \in Script, Sound(s), WriteUnsub(s)
  PROVE  KeepsCounts(s)
  <1> DEFINE L == file.list
             h == Head(L)
             p == Bumped(h)
             old == KnownOf(file.stat, p.userId)
  <1>0. /\ run \in [Script -> Run] /\ run[s] \in Run /\ RunInv(run[s]) /\ FileOK(file) /\ FullList(L)
        /\ FileCounted(file) /\ Counted(file, run[s]) /\ run[s].pc = "unsub" /\ MakesRoom(run[s])
    BY Starts DEF WriteUnsub, At, FileOK, RunInv, RoomMade, MakesRoom
  <1>1. h \in Record /\ 1 \in 1..Len(L) /\ h = L[1] /\ L \in Seq(Record) /\ L # <<>>
    BY <1>0, HeadLeaves, SeedLength DEF FullList, Distinct
  <1>2. /\ p \in Record /\ p.userId = h.userId /\ p.numBumps = h.numBumps + 1 /\ p.numSubscribes = h.numSubscribes
        /\ p.numPosts = h.numPosts /\ h.numBumps \in Nat /\ h.numSubscribes \in Nat /\ h.numPosts \in Nat
    <2>1. Bumped(h).numPosts = h.numPosts
      BY <1>1 DEF Bumped, Record
    <2> QED BY <1>1, <2>1, RecordTyped
  <1>3. run[s].person = p /\ run[s].subscribers = Tail(L) /\ file.bumps > Total(BumpsOf(file.stat))
    BY <1>0 DEF Counted
  <1>4. GoesOn(s, {"top"})
    BY <1>0 DEF WriteUnsub, Goto, GoesOn, Run
  <1>5. MakesRoom(run'[s]) /\ ~Posts(run'[s])
    BY <1>0, <1>4 DEF MakesRoom, Posts, GoesOn
  <1> HIDE DEF p
  <1>6. file' = [file EXCEPT !.stat[p.userId] = p]
    BY <1>3, WriteDone DEF WriteUnsub, Sound
  <1>7. /\ file'.list = L /\ file'.bumps = file.bumps /\ file'.resubs = file.resubs
        /\ file'.messages = file.messages /\ file'.whoOn = file.whoOn
        /\ file'.stat = [file.stat EXCEPT ![p.userId] = p]
        /\ file.stat \in Stats /\ file'.stat[p.userId] = p
        /\ \A u \in Person \ {p.userId} : file'.stat[u] = file.stat[u]
    BY <1>0, <1>2, <1>6, RecordStored
  <1>8. /\ old = file.stat[h.userId] /\ old # NONE /\ file.stat[h.userId] # NONE
        /\ h.numSubscribes = old.numSubscribes /\ h.numBumps <= old.numBumps
    BY <1>0, <1>1, <1>2 DEF FileCounted, Copies, KnownOf
  <1>9. old \in Record /\ old.numBumps \in Nat /\ old.numSubscribes \in Nat /\ old.numPosts \in Nat
    BY <1>1, <1>2, <1>7, CountsTyped, RecordTyped
  <1> HIDE DEF old
  <1>10. /\ FiniteCounts(file'.stat)
         /\ p.numBumps <= old.numBumps => Total(BumpsOf(file'.stat)) <= Total(BumpsOf(file.stat))
         /\ p.numBumps = old.numBumps + 1 => Total(BumpsOf(file'.stat)) = Total(BumpsOf(file.stat)) + 1
         /\ p.numSubscribes = old.numSubscribes => Total(ResubsOf(file'.stat)) = Total(ResubsOf(file.stat))
         /\ p.numPosts = old.numPosts => Total(PostsOf(file'.stat)) = Total(PostsOf(file.stat))
    BY <1>0, <1>2, <1>7, RecordWritten DEF FileCounted, old
  <1>11. /\ Total(BumpsOf(file.stat)) \in Nat /\ Total(BumpsOf(file'.stat)) \in Nat /\ file.bumps \in Nat
    BY <1>0, <1>10, TotalTyped DEF FileCounted, FiniteCounts, FileOK, File
  <1>12. file'.bumps >= Total(BumpsOf(file'.stat))
    BY <1>2, <1>3, <1>7, <1>8, <1>9, <1>10, <1>11
  <1>13. ASSUME NEW i \in 1..Len(L), L[i].userId = h.userId PROVE L[i] = h
    BY <1>0, <1>1, <1>13 DEF FullList, Distinct
  <1>14. \A i \in 1..Len(L) : L[i] \in Record /\ L[i].userId \in Person
    BY <1>1, RecordTyped
  <1>15. Copies(file', L)
    <2> SUFFICES ASSUME NEW i \in 1..Len(L)
                 PROVE  LET stored == file'.stat[L[i].userId] IN
                        /\ stored # NONE /\ L[i].numSubscribes = stored.numSubscribes
                        /\ L[i].numBumps <= stored.numBumps
      BY DEF Copies
    <2>1. CASE L[i].userId = h.userId
      <3>1. L[i] = h /\ file'.stat[L[i].userId] = p /\ p # NONE
        BY <1>2, <1>7, <1>13, <2>1, RecordTyped
      <3> QED BY <1>2, <3>1
    <2>2. CASE L[i].userId # h.userId
      <3>1. file'.stat[L[i].userId] = file.stat[L[i].userId]
        BY <1>2, <1>7, <1>14, <2>2
      <3> QED BY <1>0, <3>1 DEF FileCounted, Copies
    <2> QED BY <2>1, <2>2
  <1>16. FileCounted(file')
    BY <1>0, <1>2, <1>7, <1>8, <1>10, <1>12, <1>15 DEF FileCounted
  <1>17. Counted(file', run'[s])
    BY <1>3, <1>4, <1>5, <1>7 DEF Counted, GoesOn
  <1>18. /\ p.numSubscribes >= old.numSubscribes => SubscribesKept
         /\ p.numBumps >= old.numBumps /\ p.numPosts >= old.numPosts => BumpsKept
    BY <1>0, <1>2, <1>6, NothingLost DEF old
  <1>19. SubscribesKept
    BY <1>2, <1>8, <1>9, <1>18
  <1>20. ASSUME Perfect(file, run[s]) PROVE Perfect(file', run'[s]) /\ BumpsKept
    <2>1. Cur(file, run[s]) = L /\ Cur(file', run'[s]) = Tail(L)
      BY <1>0, <1>3, <1>4, <1>5 DEF Cur, GoesOn
    <2>2. /\ \A i \in 1..Len(L) : file.stat[L[i].userId] = L[i]
          /\ \A u \in Person : file.stat[u] # NONE =>
               file.stat[u].numSubscribes = file.stat[u].numBumps + (IF Listed(L, u) THEN 1 ELSE 0)
          /\ file.bumps = Total(BumpsOf(file.stat)) + 1
          /\ file.whoOn = Users(L)
      BY <1>0, <1>20, <2>1 DEF Perfect
    <2>3. file.resubs = Total(ResubsOf(file.stat)) + 0 /\ file.messages = Total(PostsOf(file.stat)) + 0
      BY <1>0, <1>20 DEF Perfect, PostPending
    <2>4. old = h /\ Listed(L, h.userId)
      BY <1>1, <1>8, <2>2, ListedIn
    <2>5. BumpsKept
      BY <1>2, <1>18, <2>4
    <2>6. /\ file'.bumps = Total(BumpsOf(file'.stat)) + 0 /\ file'.resubs = Total(ResubsOf(file'.stat)) + 0
          /\ file'.messages = Total(PostsOf(file'.stat)) + 0
      BY <1>2, <1>7, <1>10, <1>11, <2>2, <2>3, <2>4
    <2>7. \A u : Listed(Tail(L), u) <=> Listed(L, u) /\ u # h.userId
      BY <1>0, TailListed
    <2>8. \A i \in 1..Len(Tail(L)) : file'.stat[Tail(L)[i].userId] = Tail(L)[i]
      <3> SUFFICES ASSUME NEW i \in 1..Len(Tail(L)) PROVE file'.stat[Tail(L)[i].userId] = Tail(L)[i]
        OBVIOUS
      <3>1. Tail(L)[i] = L[i + 1] /\ i + 1 \in 1..Len(L) /\ i + 1 # 1
        BY <1>1
      <3>2. L[i + 1].userId # h.userId
        BY <1>0, <1>1, <3>1 DEF FullList, Distinct
      <3>3. file'.stat[L[i + 1].userId] = file.stat[L[i + 1].userId]
        BY <1>2, <1>7, <1>14, <3>1, <3>2
      <3> QED BY <2>2, <3>1, <3>3
    <2>9. ASSUME NEW u \in Person, file'.stat[u] # NONE
          PROVE  file'.stat[u].numSubscribes = file'.stat[u].numBumps + (IF Listed(Tail(L), u) THEN 1 ELSE 0)
      <3>1. CASE u = h.userId
        <4>1. file.stat[u] = h /\ h.numSubscribes = h.numBumps + 1
          BY <1>8, <2>2, <2>4, <3>1
        <4>2. file'.stat[u] = p /\ ~Listed(Tail(L), u)
          BY <1>2, <1>7, <2>7, <3>1
        <4>3. p.numSubscribes = p.numBumps + 0
          BY <1>2, <4>1
        <4> QED BY <4>2, <4>3
      <3>2. CASE u # h.userId
        <4>1. file'.stat[u] = file.stat[u] /\ (Listed(Tail(L), u) <=> Listed(L, u))
          BY <1>2, <1>7, <2>7, <3>2
        <4> QED BY <1>20, <2>2, <2>9, <4>1
      <3> QED BY <3>1, <3>2
    <2>10. /\ run'[s].pc = "top" /\ ~PostPending(run'[s])
      BY <1>4 DEF GoesOn, PostPending
    <2>11. Perfect(file', run'[s])
      BY <1>7, <2>1, <2>2, <2>6, <2>8, <2>9, <2>10 DEF Perfect
    <2> QED BY <2>5, <2>11
  <1> QED BY <1>16, <1>17, <1>19, <1>20 DEF KeepsCounts

LEMMA WriteEntryCounts ==
  ASSUME BumpInv, NEW s \in Script, Sound(s), WriteEntry(s)
  PROVE  KeepsCounts(s)
  <1> DEFINE L == file.list
             T == Tail(L)
             p == run[s].person
             old == KnownOf(file.stat, p.userId)
  <1>0. /\ run \in [Script -> Run] /\ run[s] \in Run /\ RunInv(run[s]) /\ FileOK(file) /\ file \in File /\ FullList(L)
        /\ FileCounted(file) /\ Counted(file, run[s]) /\ Fresh(file, run[s])
        /\ run[s].pc = "entry+1" /\ MakesRoom(run[s])
    BY Starts DEF WriteEntry, At, FileOK, RunInv, RoomMade, MakesRoom, Sound
  <1>1. p \in Record /\ p.userId = run[s].from /\ p.userId \in Person /\ ~Listed(L, p.userId)
    BY <1>0, RecordTyped DEF RunInv, Fresh
  <1>2. old \in Record /\ p = Subscribed(old)
    BY <1>0, <1>1, CountsTyped DEF Counted, File, Stats
  <1>3. /\ old.numBumps \in Nat /\ old.numSubscribes \in Nat /\ old.numPosts \in Nat
        /\ p.numBumps = old.numBumps /\ p.numSubscribes = old.numSubscribes + 1 /\ p.numPosts = old.numPosts
    <2>1. Subscribed(old).numPosts = old.numPosts
      BY <1>2 DEF Subscribed, Record
    <2> QED BY <1>2, <2>1, RecordTyped
  <1>4. run[s].subscribers = T /\ (p.numSubscribes > 1 => file.resubs > Total(ResubsOf(file.stat)))
    BY <1>0 DEF Counted
  <1>5. run'[s].pc = "list+1" /\ run'[s].subscribers = Append(T, p)
    BY <1>0, <1>4 DEF WriteEntry, Pushed, Run
  <1>6. file' = [file EXCEPT !.stat[p.userId] = p]
    BY WriteDone DEF WriteEntry, Sound
  <1>7. /\ file'.list = L /\ file'.bumps = file.bumps /\ file'.resubs = file.resubs
        /\ file'.messages = file.messages /\ file'.whoOn = file.whoOn
        /\ file'.stat = [file.stat EXCEPT ![p.userId] = p]
        /\ file.stat \in Stats /\ file'.stat[p.userId] = p
        /\ \A u \in Person \ {p.userId} : file'.stat[u] = file.stat[u]
    BY <1>0, <1>1, <1>6, RecordStored
  <1>8. /\ FiniteCounts(file'.stat)
        /\ p.numBumps = old.numBumps => Total(BumpsOf(file'.stat)) = Total(BumpsOf(file.stat))
        /\ p.numSubscribes = old.numSubscribes + 1 =>
             Total(ResubsOf(file'.stat)) = Total(ResubsOf(file.stat)) + (IF old.numSubscribes > 0 THEN 1 ELSE 0)
        /\ p.numPosts = old.numPosts => Total(PostsOf(file'.stat)) = Total(PostsOf(file.stat))
    BY <1>0, <1>1, <1>7, RecordWritten DEF FileCounted
  <1>9. /\ Total(ResubsOf(file.stat)) \in Nat /\ Total(ResubsOf(file'.stat)) \in Nat /\ file.resubs \in Nat
        /\ file.resubs >= Total(ResubsOf(file.stat)) /\ file.bumps >= Total(BumpsOf(file.stat))
    BY <1>0, <1>8, TotalTyped DEF FileCounted, FiniteCounts, File
  <1>10. file.stat[p.userId] # NONE => old = file.stat[p.userId]
    BY DEF KnownOf
  <1>11. file.stat[p.userId] = NONE => old.numBumps = 0 /\ old.numSubscribes = 0
    BY <1>1, UnknownTyped DEF KnownOf
  <1>12. /\ p.numSubscribes >= old.numSubscribes => SubscribesKept
         /\ p.numBumps >= old.numBumps /\ p.numPosts >= old.numPosts => BumpsKept
    BY <1>0, <1>1, <1>6, NothingLost
  <1> HIDE DEF old
  <1>13. SubscribesKept /\ BumpsKept
    BY <1>3, <1>12
  <1>14. file'.bumps >= Total(BumpsOf(file'.stat)) /\ file'.resubs >= Total(ResubsOf(file'.stat))
    BY <1>3, <1>4, <1>7, <1>8, <1>9
  <1>15. /\ \A i \in 1..Len(L) : L[i].userId \in Person \ {p.userId}
         /\ L \in Seq(Record)
    <2>1. L \in Seq(Record)
      BY <1>0 DEF FullList, Distinct
    <2>2. \A i \in 1..Len(L) : L[i] \in Record /\ L[i].userId # p.userId
      BY <1>1, <2>1, ListedIn
    <2> QED BY <2>1, <2>2, RecordTyped
  <1>16. \A i \in 1..Len(L) : file'.stat[L[i].userId] = file.stat[L[i].userId]
    BY <1>7, <1>15
  <1>17. Copies(file', L)
    BY <1>0, <1>16 DEF FileCounted, Copies
  <1>18. FileCounted(file')
    BY <1>7, <1>8, <1>14, <1>17 DEF FileCounted
  <1> DEFINE A == Append(T, p)
  <1>19. /\ T \in Seq(Record) /\ Len(T) \in Nat /\ Len(A) = Len(T) + 1
         /\ \A i \in 1..Len(T) : A[i] = T[i] /\ T[i] = L[i + 1] /\ i + 1 \in 1..Len(L)
         /\ A[Len(T) + 1] = p
    BY <1>0, <1>1, <1>15, HeadLeaves
  <1> HIDE DEF A
  <1>20. \A i \in 1..Len(A) : i \in 1..Len(T) \/ A[i] = p
    BY <1>19
  <1>21. Copies(file', A)
    <2> SUFFICES ASSUME NEW i \in 1..Len(A)
                 PROVE  LET stored == file'.stat[A[i].userId] IN
                        /\ stored # NONE /\ A[i].numSubscribes = stored.numSubscribes
                        /\ A[i].numBumps <= stored.numBumps
      BY DEF Copies
    <2>1. CASE i \in 1..Len(T)
      <3>1. A[i] = L[i + 1] /\ i + 1 \in 1..Len(L)
        BY <1>19, <2>1
      <3> QED BY <1>17, <3>1 DEF Copies
    <2>2. CASE A[i] = p
      <3>1. file'.stat[A[i].userId] = p /\ p # NONE /\ p.numBumps \in Nat
        BY <1>1, <1>7, <2>2, RecordTyped
      <3> QED BY <2>2, <3>1
    <2> QED BY <1>20, <2>1, <2>2
  <1>22. Counted(file', run'[s])
    BY <1>5, <1>21 DEF Counted, MakesRoom, Posts, A
  <1>23. ASSUME Perfect(file, run[s]) PROVE Perfect(file', run'[s])
    <2>1. Cur(file, run[s]) = T /\ Cur(file', run'[s]) = A
      BY <1>0, <1>4, <1>5 DEF Cur, A
    <2>2. ~PostPending(run[s]) /\ ~PostPending(run'[s])
      BY <1>0, <1>5 DEF PostPending
    <2>3. /\ \A i \in 1..Len(T) : file.stat[T[i].userId] = T[i]
          /\ \A u \in Person : file.stat[u] # NONE =>
               file.stat[u].numSubscribes = file.stat[u].numBumps + (IF Listed(T, u) THEN 1 ELSE 0)
          /\ file.bumps = Total(BumpsOf(file.stat)) + 0
          /\ file.resubs = Total(ResubsOf(file.stat)) + (IF p.numSubscribes > 1 THEN 1 ELSE 0)
          /\ file.messages = Total(PostsOf(file.stat)) + 0
          /\ file.whoOn = Users(L)
      BY <1>0, <1>23, <2>1, <2>2 DEF Perfect
    <2>4. /\ file'.bumps = Total(BumpsOf(file'.stat)) + 0 /\ file'.messages = Total(PostsOf(file'.stat)) + 0
          /\ file'.resubs = Total(ResubsOf(file'.stat)) + 0
      BY <1>3, <1>7, <1>8, <1>9, <2>3
    <2>5. ~Listed(T, p.userId) /\ \A u : Listed(A, u) <=> Listed(T, u) \/ u = p.userId
      BY <1>0, <1>1, <1>19, TailListed, AppendListed DEF A
    <2>6. \A i \in 1..Len(A) : file'.stat[A[i].userId] = A[i]
      <3> TAKE i \in 1..Len(A)
      <3>1. CASE i \in 1..Len(T)
        <4>1. A[i] = L[i + 1] /\ A[i] = T[i] /\ i + 1 \in 1..Len(L)
          BY <1>19, <3>1
        <4>2. file'.stat[A[i].userId] = file.stat[A[i].userId]
          BY <1>16, <4>1
        <4> QED BY <2>3, <3>1, <4>1, <4>2
      <3>2. CASE A[i] = p
        BY <1>7, <3>2
      <3> QED BY <1>20, <3>1, <3>2
    <2>7. ASSUME NEW u \in Person, file'.stat[u] # NONE
          PROVE  file'.stat[u].numSubscribes = file'.stat[u].numBumps + (IF Listed(A, u) THEN 1 ELSE 0)
      <3>1. CASE u = p.userId
        <4>1. old.numSubscribes = old.numBumps + 0
          <5>1. CASE file.stat[u] # NONE
            BY <1>10, <2>3, <2>5, <3>1, <5>1
          <5>2. CASE file.stat[u] = NONE
            BY <1>11, <3>1, <5>2
          <5> QED BY <5>1, <5>2
        <4>2. file'.stat[u] = p /\ Listed(A, u)
          BY <1>7, <2>5, <3>1
        <4>3. p.numSubscribes = p.numBumps + 1
          BY <1>3, <4>1
        <4> QED BY <4>2, <4>3
      <3>2. CASE u # p.userId
        <4>1. file'.stat[u] = file.stat[u] /\ (Listed(A, u) <=> Listed(T, u))
          BY <1>7, <2>5, <3>2
        <4> QED BY <2>3, <2>7, <4>1
      <3> QED BY <3>1, <3>2
    <2> QED BY <1>5, <1>7, <2>1, <2>2, <2>3, <2>4, <2>6, <2>7 DEF Perfect
  <1> QED BY <1>13, <1>18, <1>22, <1>23 DEF KeepsCounts

LEMMA WriteStatsCounts ==
  ASSUME BumpInv, NEW s \in Script, Sound(s), WriteStats(s)
  PROVE  KeepsCounts(s)
  <1> DEFINE L == file.list
             M == run[s].subscribers
             k == run[s].count
             p == M[k]
             old == KnownOf(file.stat, p.userId)
  <1>0. /\ run \in [Script -> Run] /\ run[s] \in Run /\ RunInv(run[s]) /\ FileOK(file) /\ file \in File /\ FullList(L)
        /\ FileCounted(file) /\ Counted(file, run[s]) /\ run[s].pc = "stats" /\ Posts(run[s]) /\ ~MakesRoom(run[s])
    BY Starts DEF WriteStats, At, FileOK, RunInv, Posts, MakesRoom
  <1>1. M = WithPost(L, run[s].from) /\ Listed(L, run[s].from) /\ k \in 1..Len(M)
    BY <1>0 DEF Counted, RunInv
  <1>2. FullList(M) /\ Len(M) = Len(L) /\ Len(L) \in Nat
    <2>1. FullList(M)
      BY <1>0, <1>1, PostCounted
    <2>2. Len(L) \in Nat /\ Len(L) = Len(Seed)
      BY <1>0 DEF FullList, Distinct
    <2>3. Len(M) = Len(Seed)
      BY <2>1 DEF FullList
    <2> QED BY <2>1, <2>2, <2>3
  <1>3. \A i \in 1..Len(L) :
          /\ M[i] \in Record /\ M[i].userId = L[i].userId
          /\ M[i].numBumps = L[i].numBumps /\ M[i].numSubscribes = L[i].numSubscribes
          /\ M[i].numPosts = L[i].numPosts + (IF L[i].userId = run[s].from THEN 1 ELSE 0)
          /\ L[i].userId # run[s].from => M[i] = L[i]
    BY <1>0, <1>1, PostedEntries
  <1>4. \A i \in 1..Len(L) : L[i] \in Record /\ L[i].userId \in Person /\ L[i].numPosts \in Nat
    BY <1>0, RecordTyped DEF FullList, Distinct
  <1>5. \A i, j \in 1..Len(L) : L[i].userId = L[j].userId => i = j
    BY <1>0 DEF FullList, Distinct
  <1>6. file' = [file EXCEPT !.stat[p.userId] = p]
    BY WriteDone DEF WriteStats, Sound
  <1>7. run' = IF k = Len(M) THEN [run EXCEPT ![s].count = 0, ![s].pc = "list+1"]
               ELSE [run EXCEPT ![s].count = k + 1]
    BY DEF WriteStats
  <1>8. /\ run'[s].subscribers = M /\ run'[s].from = run[s].from /\ run'[s].subject = run[s].subject
        /\ k = Len(M) => run'[s].pc = "list+1"
        /\ k # Len(M) => run'[s].pc = "stats" /\ run'[s].count = k + 1
    BY <1>0, <1>7 DEF Run
  <1> HIDE DEF M, k
  <1>9. p \in Record /\ k \in 1..Len(L) /\ k \in Nat /\ p.userId = L[k].userId /\ p.userId \in Person
    BY <1>1, <1>2, <1>3, <1>4
  <1>10. /\ file'.list = L /\ file'.bumps = file.bumps /\ file'.resubs = file.resubs
         /\ file'.messages = file.messages /\ file'.whoOn = file.whoOn
         /\ file'.stat = [file.stat EXCEPT ![p.userId] = p]
         /\ file.stat \in Stats /\ file'.stat[p.userId] = p
         /\ \A u \in Person \ {p.userId} : file'.stat[u] = file.stat[u]
    BY <1>0, <1>6, <1>9, RecordStored
  <1>11. /\ FiniteCounts(file'.stat)
         /\ p.numBumps <= old.numBumps => Total(BumpsOf(file'.stat)) <= Total(BumpsOf(file.stat))
         /\ p.numBumps = old.numBumps => Total(BumpsOf(file'.stat)) = Total(BumpsOf(file.stat))
         /\ p.numSubscribes = old.numSubscribes => Total(ResubsOf(file'.stat)) = Total(ResubsOf(file.stat))
         /\ p.numPosts = old.numPosts => Total(PostsOf(file'.stat)) = Total(PostsOf(file.stat))
         /\ p.numPosts = old.numPosts + 1 => Total(PostsOf(file'.stat)) = Total(PostsOf(file.stat)) + 1
    BY <1>0, <1>9, <1>10, RecordWritten DEF FileCounted
  <1>12. /\ Total(BumpsOf(file.stat)) \in Nat /\ Total(BumpsOf(file'.stat)) \in Nat /\ file.bumps \in Nat
         /\ Total(PostsOf(file.stat)) \in Nat /\ Total(PostsOf(file'.stat)) \in Nat
         /\ file.bumps >= Total(BumpsOf(file.stat)) /\ file.resubs >= Total(ResubsOf(file.stat))
    BY <1>0, <1>11, TotalTyped DEF FileCounted, FiniteCounts, File
  <1>13. /\ old = file.stat[L[k].userId] /\ file.stat[L[k].userId] # NONE
         /\ p.numSubscribes = old.numSubscribes /\ p.numBumps <= old.numBumps
    BY <1>0, <1>3, <1>9 DEF FileCounted, Copies, KnownOf
  <1>14. old.numBumps \in Nat /\ old.numSubscribes \in Nat /\ old.numPosts \in Nat
    BY <1>9, <1>10, CountsTyped, RecordTyped
  <1>15. /\ p.numSubscribes >= old.numSubscribes => SubscribesKept
         /\ p.numBumps >= old.numBumps /\ p.numPosts >= old.numPosts => BumpsKept
    BY <1>0, <1>6, <1>9, NothingLost
  <1> HIDE DEF old, p
  <1>16. SubscribesKept
    BY <1>13, <1>14, <1>15
  <1>17. file'.bumps >= Total(BumpsOf(file'.stat)) /\ file'.resubs >= Total(ResubsOf(file'.stat))
    BY <1>10, <1>11, <1>12, <1>13
  <1>18. \A i \in 1..Len(L) : i # k => file'.stat[L[i].userId] = file.stat[L[i].userId]
    BY <1>4, <1>5, <1>9, <1>10
  <1>19. p.numBumps = L[k].numBumps /\ p.numSubscribes = L[k].numSubscribes /\ L[k].numBumps \in Nat /\ p # NONE
    BY <1>3, <1>4, <1>9, RecordTyped DEF p
  <1>20. Copies(file', L)
    <2> SUFFICES ASSUME NEW i \in 1..Len(L)
                 PROVE  LET stored == file'.stat[L[i].userId] IN
                        /\ stored # NONE /\ L[i].numSubscribes = stored.numSubscribes
                        /\ L[i].numBumps <= stored.numBumps
      BY DEF Copies
    <2>1. CASE i = k
      <3>1. file'.stat[L[i].userId] = p
        BY <1>9, <1>10, <2>1
      <3> QED BY <1>19, <2>1, <3>1
    <2>2. CASE i # k
      <3>1. file'.stat[L[i].userId] = file.stat[L[i].userId]
        BY <1>18, <2>2
      <3> QED BY <1>0, <3>1 DEF FileCounted, Copies
    <2> QED BY <2>1, <2>2
  <1>21. FileCounted(file')
    BY <1>10, <1>11, <1>17, <1>20 DEF FileCounted
  <1>22. Copies(file', M)
    BY <1>2, <1>3, <1>20 DEF Copies
  <1>23. Counted(file', run'[s])
    <2>1. CASE k = Len(M)
      BY <1>8, <1>22, <2>1 DEF Counted, MakesRoom, Posts
    <2>2. CASE k # Len(M)
      BY <1>0, <1>1, <1>8, <1>10, <2>2 DEF Counted, MakesRoom, Posts
    <2> QED BY <2>1, <2>2
  <1>24. ASSUME Perfect(file, run[s]) PROVE Perfect(file', run'[s]) /\ BumpsKept
    <2> DEFINE C == Cur(file', run'[s])
    <2>1. Cur(file, run[s]) = L /\ C = IF k = Len(M) THEN M ELSE L
      BY <1>0, <1>8, <1>10 DEF Cur, MakesRoom
    <2>2. /\ \A i \in 1..Len(L) : file.stat[L[i].userId] = IF i < k THEN M[i] ELSE L[i]
          /\ \A u \in Person : file.stat[u] # NONE =>
               file.stat[u].numSubscribes = file.stat[u].numBumps + (IF Listed(L, u) THEN 1 ELSE 0)
          /\ file.bumps = Total(BumpsOf(file.stat)) + 0
          /\ file.resubs = Total(ResubsOf(file.stat)) + 0
          /\ file.messages = Total(PostsOf(file.stat)) + (IF PostPending(run[s]) THEN 1 ELSE 0)
          /\ file.whoOn = Users(L)
      BY <1>0, <1>24, <2>1 DEF Perfect, M, k
    <2>3. old = L[k] /\ p = M[k] /\ ~(k < k)
      BY <1>9, <1>13, <2>2 DEF p
    <2>4. p.numBumps = old.numBumps /\ p.numPosts = old.numPosts + (IF L[k].userId = run[s].from THEN 1 ELSE 0)
      BY <1>3, <1>9, <1>19, <2>3
    <2>5. BumpsKept
      BY <1>14, <1>15, <2>4
    <2>6. file'.bumps = Total(BumpsOf(file'.stat)) + 0 /\ file'.resubs = Total(ResubsOf(file'.stat)) + 0
      BY <1>10, <1>11, <1>13, <2>2, <2>4
    <2>7. PostPending(run[s]) <=> \E i \in k..Len(L) : L[i].userId = run[s].from
      BY <1>0, <1>2, <1>3, <1>9 DEF PostPending, M, k
    <2>8. PostPending(run'[s]) <=> \E i \in (k + 1)..Len(L) : L[i].userId = run[s].from
      <3>1. CASE k = Len(M)
        <4>1. (k + 1)..Len(L) = {}
          BY <1>2, <1>9, <3>1
        <4> QED BY <1>8, <3>1, <4>1 DEF PostPending
      <3>2. CASE k # Len(M)
        BY <1>2, <1>3, <1>8, <1>9, <3>2 DEF PostPending
      <3> QED BY <3>1, <3>2
    <2>9. file'.messages = Total(PostsOf(file'.stat)) + (IF PostPending(run'[s]) THEN 1 ELSE 0)
      <3>1. CASE L[k].userId = run[s].from
        <4>1. PostPending(run[s])
          BY <1>9, <2>7, <3>1
        <4>2. ~PostPending(run'[s])
          BY <1>2, <1>5, <1>9, <2>8, <3>1
        <4> QED BY <1>10, <1>11, <1>12, <2>2, <2>4, <3>1, <4>1, <4>2
      <3>2. CASE L[k].userId # run[s].from
        <4>1. PostPending(run'[s]) <=> PostPending(run[s])
          BY <1>2, <1>9, <2>7, <2>8, <3>2
        <4>2. p.numPosts = old.numPosts
          BY <1>14, <2>4, <3>2
        <4> QED BY <1>10, <1>11, <2>2, <4>1, <4>2
      <3> QED BY <3>1, <3>2
    <2>10. \A i \in 1..Len(L) : file'.stat[L[i].userId] = IF i < k + 1 THEN M[i] ELSE L[i]
      <3> TAKE i \in 1..Len(L)
      <3>1. CASE i = k
        BY <1>9, <1>10, <2>3, <3>1
      <3>2. CASE i # k
        <4>1. file'.stat[L[i].userId] = IF i < k THEN M[i] ELSE L[i]
          BY <1>18, <2>2, <3>2
        <4>2. i < k <=> i < k + 1
          BY <1>9, <3>2
        <4> QED BY <4>1, <4>2
      <3> QED BY <3>1, <3>2
    <2>11. \A i \in 1..Len(C) : file'.stat[C[i].userId] = IF run'[s].pc = "stats" /\ i < run'[s].count THEN M[i] ELSE C[i]
      <3>1. CASE k = Len(M)
        <4>1. C = M /\ run'[s].pc = "list+1"
          BY <1>8, <2>1, <3>1
        <4>2. \A i \in 1..Len(M) : i \in 1..Len(L) /\ i < k + 1
          BY <1>2, <1>9, <3>1
        <4> QED BY <1>3, <2>10, <4>1, <4>2
      <3>2. CASE k # Len(M)
        <4>1. C = L /\ run'[s].pc = "stats" /\ run'[s].count = k + 1
          BY <1>8, <2>1, <3>2
        <4> QED BY <2>10, <4>1
      <3> QED BY <3>1, <3>2
    <2>12. \A u : Listed(C, u) <=> Listed(L, u)
      <3>1. L \in Seq(Record) /\ M \in Seq(Record)
        BY <1>0, <1>2 DEF FullList, Distinct
      <3>2. \A u : Listed(M, u) <=> Listed(L, u)
        BY <1>2, <1>3, <3>1, ListedIn
      <3> QED BY <2>1, <3>2
    <2>13. ASSUME NEW u \in Person, file'.stat[u] # NONE
           PROVE  file'.stat[u].numSubscribes = file'.stat[u].numBumps + (IF Listed(C, u) THEN 1 ELSE 0)
      <3>1. CASE u = p.userId
        <4>1. file'.stat[u] = p /\ file.stat[u] = old /\ old # NONE
          BY <1>9, <1>10, <1>13, <3>1
        <4>2. old.numSubscribes = old.numBumps + (IF Listed(L, u) THEN 1 ELSE 0)
          BY <2>2, <4>1
        <4> QED BY <1>13, <2>4, <2>12, <4>1, <4>2
      <3>2. CASE u # p.userId
        <4>1. file'.stat[u] = file.stat[u]
          BY <1>10, <3>2
        <4> QED BY <2>2, <2>12, <2>13, <4>1
      <3> QED BY <3>1, <3>2
    <2>14. run'[s].pc \in {"stats", "list+1"}
      BY <1>8
    <2> HIDE DEF C
    <2>15. Perfect(file', run'[s])
      BY <1>8, <1>10, <2>2, <2>6, <2>9, <2>11, <2>13, <2>14 DEF Perfect, C
    <2> QED BY <2>5, <2>15
  <1> QED BY <1>16, <1>21, <1>23, <1>24 DEF KeepsCounts
-----------------------------------------------------------------------------
(***************************************************************************)
(* All scripts.                                                            *)
(***************************************************************************)
LEMMA ScriptCounts ==
  ASSUME BumpInv, NEW s \in Script, Sound(s),
         \/ ReadList(s) \/ subscribePerson(s) \/ messageToSubscribers(s) \/ checkAndAddTop(s)
         \/ WriteList(s) \/ generateStats(s) \/ Killed(s)
  PROVE  KeepsCounts(s)
  <1>1. CASE subscribePerson(s)
    BY <1>1, ReadBumpsCounts, WriteBumpsCounts, WriteUnsubCounts, ReadEntryCounts, ReadResubsCounts,
       WriteResubsCounts, WriteEntryCounts DEF subscribePerson
  <1>2. CASE messageToSubscribers(s)
    BY <1>2, ReadPosterCounts, SubjectsCounts, ReadMessagesCounts, WriteMessagesCounts, WriteStatsCounts
    DEF messageToSubscribers
  <1>3. CASE checkAndAddTop(s) \/ generateStats(s) \/ Killed(s)
    BY <1>3, ReadTopCounts, WriteTopCounts, ReadPageCounts, WritePageCounts, KilledCounts
    DEF checkAndAddTop, generateStats
  <1>4. CASE ReadList(s) \/ WriteList(s)
    BY <1>4, ReadListCounts, WriteListCounts
  <1> QED BY <1>1, <1>2, <1>3, <1>4

\* Between runs it does not matter which script ran.
LEMMA Rests ==
  ASSUME NEW f, NEW r, r.pc \in {"idle", "list"}
  PROVE  Counted(f, r) /\ (Perfect(f, r) <=> Perfect(f, Idle))
  <1>1. Idle.pc = "idle"
    BY DEF Idle
  <1>2. Counted(f, r)
    BY DEF Counted, MakesRoom, Posts
  <1>3. Cur(f, r) = f.list /\ Cur(f, Idle) = f.list
    BY <1>1 DEF Cur, MakesRoom
  <1>4. ~PostPending(r) /\ ~PostPending(Idle)
    BY <1>1 DEF PostPending
  <1>5. Perfect(f, r) <=> Perfect(f, Idle)
    BY <1>1, <1>3, <1>4 DEF Perfect
  <1> QED BY <1>2, <1>5

\* What a step keeps of the history of every person.
HistoryStays == (trouble' \subseteq {"kill"} => SubscribesKept) /\ (trouble' = {} => BumpsKept)

LEMMA CountNext ==
  ASSUME BumpInv, AloneInv, CountInv, PerfectInv, [Next]_vars
  PROVE  CountInv' /\ PerfectInv' /\ HistoryStays
  <1>0. run \in [Script -> Run] /\ FileOK(file)
    BY DEF BumpInv, TypeOK
  <1>1. CASE UNCHANGED vars
    <2>1. CountInv'
      BY <1>1 DEF vars, CountInv
    <2>2. PerfectInv'
      BY <1>1 DEF vars, PerfectInv
    <2>3. HistoryStays
      BY <1>0, <1>1, StatsStay DEF vars, HistoryStays
    <2> QED BY <2>1, <2>2, <2>3
  <1>2. ASSUME NEW s \in Script, NEW subject \in {"subscribe", "message"}, NEW u \in Person, Start(s, subject, u)
        PROVE  CountInv' /\ PerfectInv' /\ HistoryStays
    <2>1. file' = file /\ trouble \subseteq trouble' /\ run[s].pc = "idle"
      BY <1>2 DEF Start
    <2>2. HistoryStays
      BY <1>0, <2>1, StatsStay DEF HistoryStays
    <2>3. run'[s].pc = "list" /\ \A t \in Script \ {s} : run'[t] = run[t]
      BY <1>0, <1>2 DEF Start, Idle
    <2>4. ASSUME "overlap" \notin trouble'
          PROVE  (\A t \in Script : run[t].pc = "idle") /\ \A t \in Script \ {s} : run'[t].pc = "idle"
      BY <1>2, <2>1, <2>3, <2>4 DEF Start
    <2>5. CountInv'
      <3> SUFFICES ASSUME trouble' \subseteq {"kill"}
                   PROVE  FileCounted(file') /\ \A t \in Script : Counted(file', run'[t])
        BY DEF CountInv
      <3>1. \A t \in Script : Counted(file', run'[t])
        BY <2>3, <2>4, Rests
      <3> QED BY <2>1, <3>1 DEF CountInv
    <2>6. PerfectInv'
      <3> SUFFICES ASSUME trouble' = {}
                   PROVE  /\ (\A t \in Script : run'[t].pc = "idle") => Perfect(file', Idle)
                          /\ \A t \in Script : run'[t].pc # "idle" => Perfect(file', run'[t])
        BY DEF PerfectInv
      <3>1. Perfect(file, Idle)
        BY <2>1, <2>4 DEF PerfectInv
      <3>2. Perfect(file', run'[s])
        BY <2>1, <2>3, <3>1, Rests
      <3> QED BY <2>3, <2>4, <3>2
    <2> QED BY <2>2, <2>5, <2>6
  <1>3. ASSUME NEW s \in Script,
               \/ ReadList(s) \/ subscribePerson(s) \/ messageToSubscribers(s) \/ checkAndAddTop(s)
               \/ WriteList(s) \/ generateStats(s) \/ Killed(s)
        PROVE  CountInv' /\ PerfectInv' /\ HistoryStays
    <2>1. /\ run[s].pc # "idle" /\ trouble \subseteq trouble'
          /\ \A t \in Script \ {s} : run'[t] = run[t]
      BY <1>3, OneScript
    <2>2. ASSUME trouble' \subseteq {"kill"}
          PROVE  KeepsCounts(s) /\ \A t \in Script \ {s} : run'[t].pc = "idle"
      <3>1. Alone /\ Fresh(file, run[s])
        BY <2>1, <2>2 DEF AloneInv
      <3>2. FileCounted(file) /\ Counted(file, run[s])
        BY <2>1, <2>2 DEF CountInv
      <3>3. KeepsCounts(s)
        BY <1>3, <2>2, <3>1, <3>2, ScriptCounts DEF Sound
      <3>4. \A t \in Script \ {s} : run'[t].pc = "idle"
        BY <2>1, <3>1 DEF Alone
      <3> QED BY <3>3, <3>4
    <2>3. ASSUME trouble' = {}
          PROVE  Perfect(file', run'[s]) /\ BumpsKept
      <3>1. Perfect(file, run[s])
        BY <2>1, <2>3 DEF PerfectInv
      <3> QED BY <2>2, <2>3, <3>1 DEF KeepsCounts
    <2>4. CountInv'
      <3> SUFFICES ASSUME trouble' \subseteq {"kill"}
                   PROVE  FileCounted(file') /\ \A t \in Script : Counted(file', run'[t])
        BY DEF CountInv
      <3>1. FileCounted(file') /\ Counted(file', run'[s])
        BY <2>2 DEF KeepsCounts
      <3>2. \A t \in Script \ {s} : Counted(file', run'[t])
        BY <2>2, Rests
      <3> QED BY <3>1, <3>2
    <2>5. PerfectInv'
      <3> SUFFICES ASSUME trouble' = {}
                   PROVE  /\ (\A t \in Script : run'[t].pc = "idle") => Perfect(file', Idle)
                          /\ \A t \in Script : run'[t].pc # "idle" => Perfect(file', run'[t])
        BY DEF PerfectInv
      <3>1. Perfect(file', run'[s]) /\ \A t \in Script \ {s} : run'[t].pc = "idle"
        BY <2>2, <2>3
      <3>2. run'[s].pc = "idle" => Perfect(file', Idle)
        BY <3>1, Rests
      <3> QED BY <3>1, <3>2
    <2>6. HistoryStays
      BY <2>2, <2>3 DEF HistoryStays, KeepsCounts
    <2> QED BY <2>4, <2>5, <2>6
  <1> QED BY <1>1, <1>2, <1>3 DEF Next

LEMMA NothingCounted ==
  ASSUME NEW c, \A u \in Person : c[u] \in {0, -1}
  PROVE  IsFiniteSet(Each(c)) /\ Total(c) = 0
  <1>1. Each(c) = {}
    <2> SUFFICES ASSUME NEW e \in Each(c) PROVE FALSE
      OBVIOUS
    <2>1. PICK u \in Person : \E n \in 1..c[u] : e = <<u, n>>
      BY EachMember
    <2>2. 1..c[u] = {}
      <3>1. c[u] = 0 \/ c[u] = -1
        OBVIOUS
      <3> QED BY <3>1
    <2> QED BY <2>1, <2>2
  <1> QED BY <1>1, FS_EmptySet DEF Total

LEMMA CountInit ==
  ASSUME Init
  PROVE  CountInv /\ PerfectInv
  <1> DEFINE L == file.list
             S == file.stat
  <1>1. /\ L = [i \in DOMAIN Seed |-> Subscribed(Unknown(Seed[i]))]
        /\ S = [u \in Person |-> IF u \in ToSet(Seed) THEN Subscribed(Unknown(u)) ELSE NONE]
        /\ file.bumps = 0 /\ file.resubs = 0 /\ file.messages = 0 /\ file.whoOn = Seed
        /\ \A s \in Script : run[s].pc = "idle"
    BY DEF Init, Idle
  <1>2. L \in Seq(Record)
    BY BumpInit DEF BumpInv, FileOK, FullList, Distinct
  <1> HIDE DEF L, S
  <1>3. \A u \in Person : /\ Subscribed(Unknown(u)) \in Record /\ Subscribed(Unknown(u)).userId = u
                          /\ Subscribed(Unknown(u)).numSubscribes = 1 /\ Subscribed(Unknown(u)).numBumps = 0
                          /\ Subscribed(Unknown(u)).numPosts = 0 /\ Unknown(u).numSubscribes = 0
                          /\ Unknown(u).numBumps = 0 /\ Unknown(u).numPosts = 0
                          /\ Subscribed(Unknown(u)) # NONE
    BY NoneAssumption DEF Subscribed, Unknown, Record
  <1>4. \A i \in DOMAIN Seed : Seed[i] \in Person /\ Seed[i] \in ToSet(Seed)
    BY SeedAssumption DEF ToSet
  <1>5. DOMAIN Seed = 1..Len(Seed) /\ Len(Seed) \in Nat /\ Len(L) = Len(Seed) /\ DOMAIN L = DOMAIN Seed
    BY <1>1, <1>2, SeedAssumption
  <1>6. \A i \in 1..Len(L) : L[i] = Subscribed(Unknown(Seed[i])) /\ L[i].userId = Seed[i] /\ S[Seed[i]] = L[i]
    BY <1>1, <1>3, <1>4, <1>5
  <1>7. \A u \in Person : KnownOf(S, u) \in {Subscribed(Unknown(u)), Unknown(u)}
    BY <1>1 DEF KnownOf
  <1>8. \A u \in Person : /\ KnownOf(S, u).numBumps = 0 /\ KnownOf(S, u).numPosts = 0
                          /\ KnownOf(S, u).numSubscribes - 1 \in {0, -1}
    <2> TAKE u \in Person
    <2>1. KnownOf(S, u) = Subscribed(Unknown(u)) \/ KnownOf(S, u) = Unknown(u)
      BY <1>7
    <2>2. KnownOf(S, u).numSubscribes = 1 \/ KnownOf(S, u).numSubscribes = 0
      BY <1>3, <2>1
    <2> QED BY <1>3, <2>1, <2>2
  <1>9. /\ IsFiniteSet(Each(BumpsOf(S))) /\ Total(BumpsOf(S)) = 0
        /\ IsFiniteSet(Each(ResubsOf(S))) /\ Total(ResubsOf(S)) = 0
        /\ IsFiniteSet(Each(PostsOf(S))) /\ Total(PostsOf(S)) = 0
    <2>1. \A u \in Person : BumpsOf(S)[u] \in {0, -1} /\ PostsOf(S)[u] \in {0, -1} /\ ResubsOf(S)[u] \in {0, -1}
      BY <1>8 DEF BumpsOf, PostsOf, ResubsOf
    <2> QED BY <2>1, NothingCounted
  <1>10. Copies(file, L)
    <2> SUFFICES ASSUME NEW i \in 1..Len(L)
                 PROVE  LET stored == file.stat[L[i].userId] IN
                        /\ stored # NONE /\ L[i].numSubscribes = stored.numSubscribes
                        /\ L[i].numBumps <= stored.numBumps
      BY DEF Copies
    <2>1. L[i] # NONE /\ L[i].numBumps = 0 /\ file.stat[L[i].userId] = L[i]
      BY <1>3, <1>4, <1>5, <1>6 DEF S
    <2> QED BY <2>1
  <1>11. FileCounted(file)
    BY <1>1, <1>9, <1>10 DEF FileCounted, FiniteCounts, L, S
  <1>12. CountInv
    BY <1>1, <1>11, Rests DEF CountInv
  <1>13. Idle.pc = "idle" /\ Cur(file, Idle) = L /\ ~PostPending(Idle)
    BY DEF Idle, Cur, MakesRoom, PostPending, L
  <1>14. file.whoOn = Users(L)
    <2>1. Users(L) = [i \in DOMAIN Seed |-> Seed[i]]
      BY <1>5, <1>6 DEF Users
    <2> QED BY <1>1, <2>1, SeedAssumption
  <1>15. \A u \in Person : S[u] # NONE => S[u].numSubscribes = S[u].numBumps + (IF Listed(L, u) THEN 1 ELSE 0)
    <2> SUFFICES ASSUME NEW u \in Person, S[u] # NONE
                 PROVE  S[u].numSubscribes = S[u].numBumps + (IF Listed(L, u) THEN 1 ELSE 0)
      OBVIOUS
    <2>1. u \in ToSet(Seed) /\ S[u] = Subscribed(Unknown(u))
      BY <1>1
    <2>2. PICK i \in DOMAIN Seed : Seed[i] = u
      BY <2>1 DEF ToSet
    <2>3. Listed(L, u)
      BY <1>2, <1>5, <1>6, <2>2, ListedIn
    <2> QED BY <1>3, <2>1, <2>3
  <1>16. Perfect(file, Idle)
    <2>1. \A i \in 1..Len(L) : S[L[i].userId] = L[i]
      BY <1>6
    <2>2. /\ file.bumps = Total(BumpsOf(S)) + 0 /\ file.resubs = Total(ResubsOf(S)) + 0
          /\ file.messages = Total(PostsOf(S)) + 0
      BY <1>1, <1>9
    <2> QED BY <1>13, <1>14, <1>15, <2>1, <2>2 DEF Perfect, L, S
  <1>17. PerfectInv
    BY <1>1, <1>16 DEF PerfectInv
  <1> QED BY <1>12, <1>17

LEMMA CountInvariant == Spec => [](CountInv /\ PerfectInv)
  <1>1. Init => CountInv /\ PerfectInv
    BY CountInit
  <1>2. BumpInv /\ AloneInv /\ (CountInv /\ PerfectInv) /\ [Next]_vars => (CountInv /\ PerfectInv)'
    BY CountNext
  <1> QED BY <1>1, <1>2, BumpInvariant, AloneInvariant, PTL DEF Spec
-----------------------------------------------------------------------------
(***************************************************************************)
(* The counts on the page are never short of what the records add up to:   *)
(* subscribePerson writes a count before the record it counts, and         *)
(* messageToSubscribers writes over the records only with entries of the   *)
(* list that count no bump more and no subscription more, wherever scripts *)
(* were killed before.                                                     *)
(***************************************************************************)
THEOREM CountsAreEnough == Spec => []CountsNeverShort
  <1>1. CountInv => CountsNeverShort
    BY DEF CountInv, FileCounted, CountsNeverShort
  <1> QED BY <1>1, CountInvariant, PTL

(***************************************************************************)
(* When nothing was killed, overtaken or failed, the counts of bumps,      *)
(* resubscriptions and messages are exactly what the records add up to     *)
(* whenever no script runs: every run of bumplist.js that writes a count   *)
(* comes to write the one record it counts.                                *)
(***************************************************************************)
THEOREM CountsAreRight == Spec => []CountsAddUp
  <1>1. CountInv /\ PerfectInv => CountsAddUp
    <2> SUFFICES ASSUME CountInv, PerfectInv, Quiet, trouble = {}
                 PROVE  /\ file.bumps = Total(BumpsOf(file.stat))
                        /\ file.resubs = Total(ResubsOf(file.stat))
                        /\ file.messages = Total(PostsOf(file.stat))
      BY DEF CountsAddUp
    <2>1. Perfect(file, Idle) /\ Idle.pc = "idle" /\ ~PostPending(Idle)
      BY DEF PerfectInv, Quiet, Idle, PostPending
    <2>2. /\ Total(BumpsOf(file.stat)) \in Nat /\ Total(ResubsOf(file.stat)) \in Nat
          /\ Total(PostsOf(file.stat)) \in Nat
      BY TotalTyped DEF CountInv, FileCounted, FiniteCounts
    <2>3. /\ file.bumps = Total(BumpsOf(file.stat)) + 0 /\ file.resubs = Total(ResubsOf(file.stat)) + 0
          /\ file.messages = Total(PostsOf(file.stat)) + 0
      BY <2>1 DEF Perfect
    <2> QED BY <2>2, <2>3
  <1> QED BY <1>1, CountInvariant, PTL

(***************************************************************************)
(* Under the same conditions the list, the files of the persons and the    *)
(* who-is-on page agree when bumplist.js is done: the entries of the list  *)
(* are the records, and who is on the list was subscribed once more than   *)
(* bumped.                                                                 *)
(***************************************************************************)
THEOREM FilesDoAgree == Spec => []FilesAgree
  <1>1. PerfectInv => FilesAgree
    <2> SUFFICES ASSUME PerfectInv, Quiet, trouble = {}
                 PROVE  /\ \A i \in DOMAIN file.list : file.stat[file.list[i].userId] = file.list[i]
                        /\ file.whoOn = Users(file.list)
                        /\ \A u \in Known : file.stat[u].numSubscribes =
                             file.stat[u].numBumps + (IF Listed(file.list, u) THEN 1 ELSE 0)
      BY DEF FilesAgree
    <2>1. Perfect(file, Idle) /\ Idle.pc = "idle" /\ Cur(file, Idle) = file.list
      BY DEF PerfectInv, Quiet, Idle, Cur, MakesRoom
    <2> QED BY <2>1 DEF Perfect, Known
  <1> QED BY <1>1, CountInvariant, PTL

(***************************************************************************)
(* What is known of a person never shrinks: what bumplist.js writes over a *)
(* person's record was made of an entry of the list or of the record       *)
(* itself, and neither is older than the record by a subscription, nor, if *)
(* no script was killed, by anything.                                      *)
(***************************************************************************)
THEOREM NoHistoryLost == Spec => HistoryKept
  <1>1. BumpInv /\ AloneInv /\ CountInv /\ PerfectInv /\ [Next]_vars =>
          [\A u \in Known :
             LET before == file.stat[u]
                 after == file'.stat[u] IN
             /\ trouble' \subseteq {"kill"} => after.numSubscribes >= before.numSubscribes
             /\ trouble' = {} => after.numBumps >= before.numBumps /\ after.numPosts >= before.numPosts]_vars
    BY CountNext DEF HistoryStays, SubscribesKept, BumpsKept
  <1> QED BY <1>1, BumpInvariant, AloneInvariant, CountInvariant, PTL DEF Spec, HistoryKept
===============================================================================
