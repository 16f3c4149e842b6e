------------------------------- MODULE BumpList -------------------------------
(***************************************************************************)
(* The BumpList script (javascript/bumplist.js), the rule Thwonk was       *)
(* written to run: a mailing list of a fixed number of places.  Whoever    *)
(* subscribes takes the last place and bumps the one in the first place.   *)
(*                                                                         *)
(* Between two mails the script keeps everything in virtual files: the     *)
(* list with a copy of each subscriber's record, a file per person with    *)
(* that record, the counts, the two top lists and the who-is-on page.  It  *)
(* reads, changes and writes them one after the other, ignores the result  *)
(* of every write, and takes the -1 of a failed read for data.             *)
(*                                                                         *)
(* A call of thwonk.file.read or thwonk.file.write is one step (module     *)
(* VFile says what makes it so).  Faults names what may go wrong:          *)
(*   "kill"   the script is killed between two calls                       *)
(*   "read"   a read answers -1                                            *)
(*   "write"  a write is not done                                          *)
(* and two scripts of the list may overlap, as with two rulerunners.       *)
(***************************************************************************)
EXTENDS Integers, Sequences, SequencesExt, FiniteSets, FiniteSetsExt

CONSTANTS
  Person,           \* mail addresses
  BumplistAddress,  \* the list's own address
  Seed,             \* the subscribers the list is set up with
  TopSize,          \* the length of the top lists it is set up with
  Script,           \* runs of the rule that may be going on at once
  MaxMails,         \* bound: mails the rule is ever run for
  MaxFaults,        \* bound: how often something of Faults happens
  NONE,             \* no such file; the user of a top list's first entries
  Faults

\* What is kept of a person, and the entries of a top list.
Record == [userId : Person, numPosts : Nat, numSubscribes : Nat, numBumps : Nat]
Ranking == [1..TopSize -> [userId : Person \cup {NONE}, value : Nat]]

ASSUME SeedAssumption == Seed \in Seq(Person) /\ Seed # <<>> /\ IsInjective(Seed)
ASSUME NoneAssumption == NONE \notin Person /\ NONE \notin Record
ASSUME SizeAssumption == {TopSize, MaxMails, MaxFaults} \subseteq Nat
ASSUME FaultsAssumption == Faults \subseteq {"kill", "read", "write"}

VARIABLES
  file,     \* the virtual files of the list
  run,      \* run[s]: where the script is, and its variables
  mails,    \* mails that started the rule so far
  faults,   \* how often something of Faults happened
  trouble   \* history: what happened that the script does not expect

vars == <<file, run, mails, faults, trouble>>

\* What Object_Subscriber finds when the person has no file.
Unknown(u) == [userId |-> u, numPosts |-> 0, numSubscribes |-> 0, numBumps |-> 0]
Subscribed(person) == [person EXCEPT !.numSubscribes = @ + 1]
Bumped(person) == [person EXCEPT !.numBumps = @ + 1]

Position(list, u) == {i \in DOMAIN list : list[i].userId = u}
Listed(list, u) == Position(list, u) # {}

Idle == [pc |-> "idle", subject |-> NONE, from |-> NONE, subscribers |-> <<>>,
         person |-> NONE, count |-> 0, top |-> <<>>]

Init ==
  LET list == [i \in DOMAIN Seed |-> Subscribed(Unknown(Seed[i]))]
      top == [i \in 1..TopSize |-> [userId |-> NONE, value |-> 0]]
  IN
  /\ file = [list |-> list,
             stat |-> [u \in Person |-> IF u \in ToSet(Seed) THEN Subscribed(Unknown(u)) ELSE NONE],
             bumps |-> 0, resubs |-> 0, messages |-> 0,
             topBumps |-> top, topPosts |-> top, whoOn |-> Seed]
  /\ run = [s \in Script |-> Idle]
  /\ mails = 0
  /\ faults = 0
  /\ trouble = {}
-----------------------------------------------------------------------------
(***************************************************************************)
(* Calls of the script.                                                    *)
(***************************************************************************)
Fault(kind) ==
  /\ kind \in Faults
  /\ faults < MaxFaults
  /\ faults' = faults + 1
  /\ trouble' = trouble \cup {kind}
NoFault == UNCHANGED <<faults, trouble>>

\* x is what a read of a file that holds v answers; failed stands for its -1.
Reads(v, failed, x) ==
  \/ x = v /\ NoFault
  \/ x = failed /\ Fault("read")

\* The write leaves the files as f, or is not done; the script goes on.
Writes(f) ==
  \/ file' = f /\ NoFault
  \/ UNCHANGED file /\ Fault("write")

At(s, pc) == run[s].pc = pc /\ UNCHANGED mails
Goto(s, pc) == run' = [run EXCEPT ![s].pc = pc]
Ends(s) == run' = [run EXCEPT ![s] = Idle]

\* The first entry, of those below the person's value, that is closest to it.
Below(top, value) == {i \in DOMAIN top : top[i].value < value}
Closest(top, value) ==
  Min({i \in Below(top, value) : \A j \in Below(top, value) : top[j].value <= top[i].value})

\* A top list that gives its first place to whoever is not on it.
RankedFirst(top, u, value) ==
  IF top = <<>> \/ Listed(top, u) THEN top ELSE [top EXCEPT ![1] = [userId |-> u, value |-> value]]

\* A top list that grows by those who are above one of it.
RankedAsWell(top, u, value) ==
  IF Listed(top, u) \/ Below(top, value) = {} THEN top ELSE Append(top, [userId |-> u, value |-> value])

\* A person on the top list already is ignored, with whatever value it shows.
Ranked(top, u, value) ==
  IF Listed(top, u) \/ Below(top, value) = {} THEN top
  ELSE [top EXCEPT ![Closest(top, value)] = [userId |-> u, value |-> value]]
-----------------------------------------------------------------------------
(***************************************************************************)
(* A mail starts the rule; subscribePerson and messageToSubscribers read   *)
(* the list first.                                                         *)
(***************************************************************************)
Start(s, subject, u) ==
  /\ run[s].pc = "idle"
  /\ mails < MaxMails
  /\ mails' = mails + 1
  /\ run' = [run EXCEPT ![s] = [Idle EXCEPT !.pc = "list", !.subject = subject, !.from = u]]
  /\ trouble' = trouble \cup (IF \E r \in Script \ {s} : run[r].pc # "idle" THEN {"overlap"} ELSE {})
  /\ UNCHANGED <<file, faults>>

\* A script that subscribes everyone who asks.
AlwaysNew(s, list) == IF run[s].subject = "subscribe" THEN "bumps" ELSE "page"

\* Without a list (-1) nobody is on it, so a subscriber is taken for a new one.
NextOf(s, list) ==
  LET from == run[s].from IN
  IF run[s].subject = "subscribe"
    THEN IF Listed(list, from) THEN "page" ELSE "bumps"
    ELSE IF from # BumplistAddress /\ Listed(list, from) THEN "poster" ELSE "page"

ReadList(s) ==
  /\ At(s, "list")
  /\ \E list \in {file.list, <<>>} :
       /\ Reads(file.list, <<>>, list)
       /\ run' = [run EXCEPT ![s].subscribers = list, ![s].pc = NextOf(s, list)]
  /\ UNCHANGED file
-----------------------------------------------------------------------------
(***************************************************************************)
(* subscribePerson.                                                        *)
(***************************************************************************)
ReadBumps(s) ==
  /\ At(s, "bumps")
  /\ \E n \in {file.bumps, -1} :
       /\ Reads(file.bumps, -1, n)
       /\ run' = [run EXCEPT ![s].count = n, ![s].pc = "bumps+1"]
  /\ UNCHANGED file

\* shift() of a list that could not be read ends the script.
Unsub(s) ==
  LET subs == run[s].subscribers IN
  IF subs = <<>> THEN Ends(s)
  ELSE run' = [run EXCEPT ![s].person = Bumped(Head(subs)), ![s].subscribers = Tail(subs),
                          ![s].count = 0, ![s].pc = "unsub"]

\* A script that never writes the count back.
BumpNotCounted(s) ==
  /\ At(s, "bumps+1")
  /\ Unsub(s)
  /\ NoFault
  /\ UNCHANGED file

WriteBumps(s) ==
  /\ At(s, "bumps+1")
  /\ Writes([file EXCEPT !.bumps = run[s].count + 1])
  /\ Unsub(s)

\* A script that leaves the file of the bumped person as it was.
UnsubNotWritten(s) ==
  /\ At(s, "unsub")
  /\ Goto(s, "top")
  /\ NoFault
  /\ UNCHANGED file

WriteUnsub(s) ==
  /\ At(s, "unsub")
  /\ Writes([file EXCEPT !.stat[run[s].person.userId] = run[s].person])
  /\ Goto(s, "top")

\* A list of the stored kind: checkAndAddTopBumps or checkAndAddTopPosts.
Posting(s) == run[s].subject # "subscribe"
TopOf(s) == IF Posting(s) THEN file.topPosts ELSE file.topBumps
AfterTop(s) == IF Posting(s) THEN "subjects" ELSE "entry"
RankOf(s, top) ==
  LET p == run[s].person IN Ranked(top, p.userId, IF Posting(s) THEN p.numPosts ELSE p.numBumps)

\* A list that could not be read has no entry, so none is replaced.
ReadTop(s) ==
  /\ At(s, "top")
  /\ \E top \in {TopOf(s), <<>>} :
       /\ Reads(TopOf(s), <<>>, top)
       /\ run' = IF RankOf(s, top) = top
                   THEN [run EXCEPT ![s].person = NONE, ![s].pc = AfterTop(s)]
                   ELSE [run EXCEPT ![s].top = RankOf(s, top), ![s].pc = "top+1"]
  /\ UNCHANGED file

WriteTop(s) ==
  /\ At(s, "top+1")
  /\ Writes(IF Posting(s) THEN [file EXCEPT !.topPosts = run[s].top]
            ELSE [file EXCEPT !.topBumps = run[s].top])
  /\ run' = [run EXCEPT ![s].person = NONE, ![s].top = <<>>, ![s].pc = AfterTop(s)]

\* A constructor that does not look for what is known of a person.
ForgetfulSubscriber(u, stored) == Unknown(u)

\* -1 is the answer for a person without a file, and for a read that failed.
Object_Subscriber(u, stored) == IF stored = NONE THEN Unknown(u) ELSE stored

ReadEntry(s) ==
  LET u == run[s].from IN
  /\ At(s, "entry")
  /\ \E stored \in {file.stat[u], NONE} :
       /\ Reads(file.stat[u], NONE, stored)
       /\ LET p == Object_Subscriber(u, stored) IN
          run' = [run EXCEPT ![s].person = Subscribed(p),
                             ![s].pc = IF p.numSubscribes # 0 THEN "resubs" ELSE "entry+1"]
  /\ UNCHANGED file

ReadResubs(s) ==
  /\ At(s, "resubs")
  /\ \E n \in {file.resubs, -1} :
       /\ Reads(file.resubs, -1, n)
       /\ run' = [run EXCEPT ![s].count = n, ![s].pc = "resubs+1"]
  /\ UNCHANGED file

WriteResubs(s) ==
  /\ At(s, "resubs+1")
  /\ Writes([file EXCEPT !.resubs = run[s].count + 1])
  /\ run' = [run EXCEPT ![s].count = 0, ![s].pc = "entry+1"]

\* A new entry put in the first place instead of the last.
Prepended(subs, person) == <<person>> \o subs

\* An entry pushed before the subscription is counted in it.
PushedUncounted(subs, person) == Append(subs, [person EXCEPT !.numSubscribes = @ - 1])

Pushed(subs, person) == Append(subs, person)

WriteEntry(s) ==
  LET p == run[s].person IN
  /\ At(s, "entry+1")
  /\ Writes([file EXCEPT !.stat[p.userId] = p])
  /\ run' = [run EXCEPT ![s].subscribers = Pushed(@, p), ![s].person = NONE, ![s].pc = "list+1"]
-----------------------------------------------------------------------------
(***************************************************************************)
(* messageToSubscribers, for a subscriber.                                 *)
(***************************************************************************)
ReadPoster(s) ==
  LET u == run[s].from IN
  /\ At(s, "poster")
  /\ \E stored \in {file.stat[u], NONE} :
       /\ Reads(file.stat[u], NONE, stored)
       /\ run' = [run EXCEPT ![s].person = Object_Subscriber(u, stored), ![s].pc = "top"]
  /\ UNCHANGED file

\* shift() of a list of subjects that could not be read ends the script.
Subjects(s) ==
  /\ At(s, "subjects")
  /\ \E read \in BOOLEAN :
       /\ Reads(TRUE, FALSE, read)
       /\ IF read THEN Goto(s, "messages") ELSE Ends(s)
  /\ UNCHANGED file

ReadMessages(s) ==
  /\ At(s, "messages")
  /\ \E n \in {file.messages, -1} :
       /\ Reads(file.messages, -1, n)
       /\ run' = [run EXCEPT ![s].count = n, ![s].pc = "messages+1"]
  /\ UNCHANGED file

\* The post is counted in the script's copy of the list.
WithPost(subs, u) ==
  [i \in DOMAIN subs |-> IF i \in Position(subs, u) THEN [subs[i] EXCEPT !.numPosts = @ + 1] ELSE subs[i]]

WriteMessages(s) ==
  /\ At(s, "messages+1")
  /\ Writes([file EXCEPT !.messages = run[s].count + 1])
  /\ run' = [run EXCEPT ![s].subscribers = WithPost(@, run[s].from), ![s].count = 1, ![s].pc = "stats"]

\* The entries of the list are written over the files of all subscribers.
WriteStats(s) ==
  LET i == run[s].count
      p == run[s].subscribers[i] IN
  /\ At(s, "stats")
  /\ Writes([file EXCEPT !.stat[p.userId] = p])
  /\ run' = IF i = Len(run[s].subscribers)
              THEN [run EXCEPT ![s].count = 0, ![s].pc = "list+1"]
              ELSE [run EXCEPT ![s].count = i + 1]
-----------------------------------------------------------------------------
(***************************************************************************)
(* Both end by writing the list, and then its page (generateStats).        *)
(***************************************************************************)
\* A script that changes its copy of the list and leaves the file.
ListNotWritten(s) ==
  /\ At(s, "list+1")
  /\ Goto(s, "page")
  /\ NoFault
  /\ UNCHANGED file

WriteList(s) ==
  /\ At(s, "list+1")
  /\ Writes([file EXCEPT !.list = run[s].subscribers])
  /\ Goto(s, "page")

\* sort() of a list that could not be read ends the script.
ReadPage(s) ==
  /\ At(s, "page")
  /\ \E list \in {file.list, <<>>} :
       /\ Reads(file.list, <<>>, list)
       /\ IF list = <<>> THEN Ends(s)
          ELSE run' = [run EXCEPT ![s] = [Idle EXCEPT !.pc = "page+1", !.subscribers = list]]
  /\ UNCHANGED file

WritePage(s) ==
  /\ At(s, "page+1")
  /\ Writes([file EXCEPT !.whoOn = [i \in DOMAIN run[s].subscribers |-> run[s].subscribers[i].userId]])
  /\ Ends(s)

\* A limit, a signal, or the end of its worker: what was written stays.
Killed(s) ==
  /\ run[s].pc # "idle"
  /\ Fault("kill")
  /\ Ends(s)
  /\ UNCHANGED <<file, mails>>
-----------------------------------------------------------------------------
subscribePerson(s) ==
  \/ ReadBumps(s) \/ WriteBumps(s) \/ WriteUnsub(s)
  \/ ReadEntry(s) \/ ReadResubs(s) \/ WriteResubs(s) \/ WriteEntry(s)

messageToSubscribers(s) ==
  \/ ReadPoster(s) \/ Subjects(s) \/ ReadMessages(s) \/ WriteMessages(s) \/ WriteStats(s)

checkAndAddTop(s) == ReadTop(s) \/ WriteTop(s)

generateStats(s) == ReadPage(s) \/ WritePage(s)

Next == \E s \in Script :
  \/ \E subject \in {"subscribe", "message"}, u \in Person : Start(s, subject, u)
  \/ ReadList(s)
  \/ subscribePerson(s)
  \/ messageToSubscribers(s)
  \/ checkAndAddTop(s)
  \/ WriteList(s)
  \/ generateStats(s)
  \/ Killed(s)

Spec == Init /\ [][Next]_vars
-----------------------------------------------------------------------------
File == [list : Seq(Record), stat : [Person -> Record \cup {NONE}], bumps : Nat, resubs : Nat, messages : Nat,
         topBumps : Ranking, topPosts : Ranking, whoOn : Seq(Person)]
Run == [pc : {"idle", "list", "bumps", "bumps+1", "unsub", "top", "top+1", "entry", "resubs", "resubs+1",
              "entry+1", "poster", "subjects", "messages", "messages+1", "stats", "list+1", "page", "page+1"},
        subject : {"subscribe", "message", NONE}, from : Person \cup {NONE}, subscribers : Seq(Record),
        person : Record \cup {NONE}, count : Nat \cup {-1}, top : Ranking \cup {<<>>}]

TypeOK ==
  /\ file \in File
  /\ \A u \in Person : file.stat[u] # NONE => file.stat[u].userId = u
  /\ run \in [Script -> Run]
  /\ mails \in 0..MaxMails /\ faults \in 0..MaxFaults
  /\ trouble \subseteq Faults \cup {"overlap"}

Users(list) == [i \in DOMAIN list |-> list[i].userId]
Known == {u \in Person : file.stat[u] # NONE}
Quiet == \A s \in Script : run[s].pc = "idle"

(***************************************************************************)
(* The list never has a person twice, nor more or fewer places than it was *)
(* set up with, and no top list shows a person twice: whatever overlaps,   *)
(* fails or is killed between a subscriber's look at the list and the      *)
(* write of it (subscribePerson, checkAndAddTopBumps).                     *)
(***************************************************************************)
NobodyTwice ==
  /\ Len(file.list) = Len(Seed) /\ IsInjective(Users(file.list))
  /\ \A top \in {file.topBumps, file.topPosts} : \A i, j \in DOMAIN top :
       top[i].userId = top[j].userId /\ top[i].userId # NONE => i = j

(***************************************************************************)
(* Nobody was bumped more often than subscribed, and whoever is on the     *)
(* list was bumped less often, by the records in the files, although a     *)
(* record is copied from a person's file to the list and back by scripts   *)
(* that may overlap and whose reads and writes may fail.                   *)
(***************************************************************************)
SubscribesCoverBumps ==
  /\ \A u \in Known : file.stat[u].numBumps <= file.stat[u].numSubscribes
  /\ \A i \in DOMAIN file.list : file.list[i].numBumps < file.list[i].numSubscribes

\* What the records of all persons add up to: the pairs of a person and a number up to the person's.
Each(count) == UNION {{u} \X (1..count[u]) : u \in Person}
Total(count) == Cardinality(Each(count))

KnownOf(stat, u) == IF stat[u] = NONE THEN Unknown(u) ELSE stat[u]
BumpsOf(stat) == [u \in Person |-> KnownOf(stat, u).numBumps]
ResubsOf(stat) == [u \in Person |-> KnownOf(stat, u).numSubscribes - 1]
PostsOf(stat) == [u \in Person |-> KnownOf(stat, u).numPosts]

(***************************************************************************)
(* At every moment the counts the page shows are at least what the records *)
(* of the subscribers add up to, wherever scripts were killed: a count is  *)
(* written before the record it counts.                                    *)
(***************************************************************************)
CountsNeverShort ==
  trouble \subseteq {"kill"} =>
    file.bumps >= Total(BumpsOf(file.stat)) /\ file.resubs >= Total(ResubsOf(file.stat))

(***************************************************************************)
(* Between two runs of the rule the counts of bumps, of resubscriptions    *)
(* and of messages are what the records of all persons add up to, when no  *)
(* script was killed or overtaken and no call failed.                      *)
(***************************************************************************)
CountsAddUp ==
  Quiet /\ trouble = {} =>
    /\ file.bumps = Total(BumpsOf(file.stat))
    /\ file.resubs = Total(ResubsOf(file.stat))
    /\ file.messages = Total(PostsOf(file.stat))

(***************************************************************************)
(* Under the same conditions the copy of a record on the list is the one   *)
(* in the person's file, the who-is-on page shows the list, and a person   *)
(* has one subscription more than bumps exactly while on the list.         *)
(***************************************************************************)
FilesAgree ==
  Quiet /\ trouble = {} =>
    /\ \A i \in DOMAIN file.list : file.stat[file.list[i].userId] = file.list[i]
    /\ file.whoOn = Users(file.list)
    /\ \A u \in Known :
         file.stat[u].numSubscribes = file.stat[u].numBumps + (IF Listed(file.list, u) THEN 1 ELSE 0)

(***************************************************************************)
(* The list changes in one way: the subscriber who is on it the longest    *)
(* leaves and someone new comes last.  Calls may fail and scripts be       *)
(* killed; it takes scripts that overlap to lose a subscriber.             *)
(***************************************************************************)
OldestIsBumped ==
  [][LET before == Users(file.list)
         after == Users(file'.list) IN
     "overlap" \notin trouble' /\ after # before =>
       \E u \in Person \ ToSet(before) : after = Append(Tail(before), u)]_vars

(***************************************************************************)
(* What is known of a person never shrinks.  Killed scripts may take back  *)
(* a bump or a post, as the list still has the older copy of the record,   *)
(* but never a subscription; a read that fails may take all of it.         *)
(***************************************************************************)
HistoryKept ==
  [][\A u \in Known :
       LET before == file.stat[u]
           after == file'.stat[u] IN
       /\ trouble' \subseteq {"kill"} => after.numSubscribes >= before.numSubscribes
       /\ trouble' = {} => after.numBumps >= before.numBumps /\ after.numPosts >= before.numPosts]_vars

(***************************************************************************)
(* The places of the top lists only rise, as long as scripts do not        *)
(* overlap: calls that fail and scripts that are killed do not lower them. *)
(***************************************************************************)
TopOnlyRises ==
  [][\A i \in 1..TopSize : "overlap" \notin trouble' =>
       /\ file'.topBumps[i].value >= file.topBumps[i].value
       /\ file'.topPosts[i].value >= file.topPosts[i].value]_vars
=============================================================================
