------------------------------ MODULE BotProofs ------------------------------
(***************************************************************************)
(* What the menus, the paginators and the components of the bot do, for any *)
(* pages, channels, languages, entries and any number of presses that are  *)
(* handled at once.  And what all parts of the bot promise together.       *)
(*                                                                         *)
(* A guild's menus show what is set only because the answers keep the row  *)
(* in a form they can show: a virtual queue has no channel (VirtualInv).   *)
(* The page a moderator pressed on is the page that leaves the list only   *)
(* while it is the current one at every stage of the press (OneAtATime).   *)
(* And a modal is answered as it was meant because its id was composed from *)
(* the component that was pressed, for which every id of every version is  *)
(* looked up (EachAsMeant), not because the settings are what they were.   *)
(***************************************************************************)
EXTENDS MCBot, EditDebounceProofs, QueueModerationProofs, FiniteSetTheorems,
        SequenceTheorems, TLAPS
-----------------------------------------------------------------------------
(* The paginators: the index is that of a page. *)

(* The list is a list, and the index a number.  What the pages are does    *)
(* not matter here.                                                        *)
ListInv ==
  /\ \E S : pages \in Seq(S)
  /\ index \in Int
  /\ waiting \subseteq Sids

(* The inductive invariant of the page index. *)
IndexInv == ListInv /\ PageIndexIsValid
-----------------------------------------------------------------------------
(* Division by the size of a page. *)
LEMMA QuotientIsNat ==
  ASSUME NEW a \in Nat, NEW b \in Nat \ {0}
  PROVE  a \div b \in Nat
  OBVIOUS

(* The pending suggestions are listed as a sequence, which is not empty    *)
(* when they are not.                                                      *)
LEMMA ListOfWaiting ==
  ASSUME NEW S, IsFiniteSet(S)
  PROVE  SetToSeq(S) \in Seq(S)
<1>1. Cardinality(S) \in Nat /\ ExistsBijection(1 .. Cardinality(S), S)
  BY FS_CardinalityType
<1>2. \E f \in [1 .. Cardinality(S) -> S] : IsInjective(f)
  BY <1>1 DEF ExistsBijection, Bijection, Injection, Surjection, IsInjective
<1>3. SetToSeq(S) \in [1 .. Cardinality(S) -> S]
  BY <1>2 DEF SetToSeq
<1> QED
  BY <1>1, <1>3

(* The length of two lists in a row. *)
LEMMA ConcatLength ==
  ASSUME NEW S, NEW s \in Seq(S), NEW t \in Seq(S), NEW m \in Int, NEW n \in Int,
         Len(s) = m, Len(t) = n
  PROVE  s \o t \in Seq(S) /\ Len(s \o t) = m + n
  BY ConcatProperties

(* Dropping a page that is there shortens the list by one. *)
LEMMA DroppedIsShorter ==
  ASSUME NEW S, NEW list \in Seq(S), NEW i \in 0 .. Len(list) - 1
  PROVE  Dropped(list, i) \in Seq(S) /\ Len(Dropped(list, i)) = Len(list) - 1
<1> Len(list) \in Nat /\ i \in Int /\ \A j \in 1 .. Len(list) : list[j] \in S
  OBVIOUS
<1>1. SubSeq(list, 1, i) \in Seq(S) /\ Len(SubSeq(list, 1, i)) = i
  <2>1. \A j \in 1 .. i : list[j] \in S
    OBVIOUS
  <2>2. Len(SubSeq(list, 1, i)) = (IF 1 <= i THEN i - 1 + 1 ELSE 0)
    BY <2>1, SubSeqProperties
  <2> QED
    BY <2>1, <2>2, SubSeqProperties
<1>2. /\ SubSeq(list, i + 2, Len(list)) \in Seq(S)
      /\ Len(SubSeq(list, i + 2, Len(list))) = Len(list) - i - 1
  <2>1. i + 2 \in Int /\ \A j \in i + 2 .. Len(list) : list[j] \in S
    OBVIOUS
  <2>2. Len(SubSeq(list, i + 2, Len(list)))
          = (IF i + 2 <= Len(list) THEN Len(list) - (i + 2) + 1 ELSE 0)
    BY <2>1, SubSeqProperties
  <2> QED
    BY <2>1, <2>2, SubSeqProperties
<1>3. Dropped(list, i) = SubSeq(list, 1, i) \o SubSeq(list, i + 2, Len(list))
  <2>1. Dropped(list, i) = SubSeq(list, 1, (i + 1) - 1) \o SubSeq(list, (i + 1) + 1, Len(list))
    BY Zenon DEF Dropped, RemoveAt
  <2>2. (i + 1) - 1 = i /\ (i + 1) + 1 = i + 2
    OBVIOUS
  <2> QED
    BY <2>1, <2>2, Zenon
<1>4. PICK rest \in Int : rest = Len(list) - i - 1
  <2>1. Len(list) - i - 1 \in Int
    OBVIOUS
  <2> QED
    BY <2>1, Zenon
<1>5. Len(SubSeq(list, i + 2, Len(list))) = rest
  BY <1>2, <1>4
<1>6. Dropped(list, i) \in Seq(S) /\ Len(Dropped(list, i)) = i + rest
  <2>1. \A s, t \in Seq(S) :
          Len(s) = i /\ Len(t) = rest => s \o t \in Seq(S) /\ Len(s \o t) = i + rest
    BY ConcatLength
  <2> QED
    BY <1>1, <1>2, <1>3, <1>5, <2>1, Zenon
<1> QED
  BY <1>4, <1>6

(* Turning pages wraps around within the list. *)
LEMMA TurnedIsListed ==
  ASSUME NEW n \in Int, NEW S, NEW list \in Seq(S)
  PROVE  /\ Turned(n, list) \in Int
         /\ list # <<>> => Turned(n, list) \in 0 .. Len(list) - 1
  BY DEF Turned

(* Where the index goes when the current page does. *)
LEMMA IndexAfterDropIsListed ==
  ASSUME NEW S, NEW list \in Seq(S), NEW i \in 0 .. Len(list) - 1
  PROVE  /\ IndexAfterDrop(list, i) \in Int
         /\ Dropped(list, i) # <<>> =>
              IndexAfterDrop(list, i) \in 0 .. Len(Dropped(list, i)) - 1
<1>1. Dropped(list, i) \in Seq(S) /\ Len(Dropped(list, i)) = Len(list) - 1
  BY DroppedIsShorter
<1>2. CASE i + 1 = Len(list)
  BY <1>1, <1>2, TurnedIsListed DEF IndexAfterDrop
<1>3. CASE i + 1 # Len(list)
  BY <1>1, <1>3 DEF IndexAfterDrop
<1> QED
  BY <1>2, <1>3

(* remove_current_page, called with a page to remove. *)
LEMMA RemovalKeepsIndex ==
  ASSUME IndexInv, NEW p \in Presses, pages # <<>>, RemoveCurrentPage(p),
         waiting' = waiting
  PROVE  IndexInv'
<1>1. PICK S : pages \in Seq(S)
  BY DEF IndexInv, ListInv
<1>2. index \in 0 .. Len(pages) - 1
  BY DEF IndexInv, PageIndexIsValid
<1>3. pages' = Dropped(pages, index) /\ index' = IndexAfterDrop(pages, index)
  BY DEF RemoveCurrentPage
<1> QED
  BY <1>1, <1>2, <1>3, DroppedIsShorter, IndexAfterDropIsListed
     DEF IndexInv, ListInv, PageIndexIsValid
-----------------------------------------------------------------------------
(* There is no page at the start, and the index is 0. *)
LEMMA IndexInitially == PagesInit => IndexInv
  BY DEF PagesInit, IndexInv, ListInv, PageIndexIsValid

(* The step of the invariant, one case per action. *)
LEMMA IndexStep == IndexInv /\ [PagesNext]_pageVars => IndexInv'
<1> SUFFICES ASSUME IndexInv, [PagesNext]_pageVars
             PROVE  IndexInv'
  OBVIOUS
<1>1. CASE ViewQueue
  <2>1. IsFiniteSet(waiting)
    BY QueuePagesAssumption, FS_Subset DEF IndexInv, ListInv
  <2>2. pages' \in Seq(waiting) /\ index' = 0 /\ waiting' = waiting
    BY <1>1, <2>1, ListOfWaiting DEF ViewQueue
  <2> QED
    BY <2>2 DEF IndexInv, ListInv, PageIndexIsValid
<1>2. ASSUME NEW n \in 1 .. MaxVoters, ViewVoters(n)
      PROVE  IndexInv'
  <2> DEFINE votes == [v \in 1 .. n |-> v]
             size == (n + PerPage - 1) \div PerPage
             list == Batched(votes, PerPage)
  <2>1. size \in Nat
    BY QueuePagesAssumption, QuotientIsNat
  <2>2. Len(votes) = n
    BY QueuePagesAssumption
  <2>3. DOMAIN list = 1 .. size /\ list = [j \in DOMAIN list |-> list[j]]
    <3>1. /\ DOMAIN list = 1 .. ((Len(votes) + PerPage - 1) \div PerPage)
          /\ list = [j \in DOMAIN list |-> list[j]]
      BY Zenon DEF Batched
    <3> QED
      BY <2>2, <3>1
  <2>4. list \in [1 .. size -> {list[j] : j \in 1 .. size}]
    BY <2>3
  <2>5. list \in Seq({list[j] : j \in 1 .. size})
    BY <2>1, <2>4, SeqDef, Zenon
  <2>6. index' = 0 /\ waiting' = waiting /\ pages' = list
    BY <1>2 DEF ViewVoters
  <2> QED
    BY <2>5, <2>6 DEF IndexInv, ListInv, PageIndexIsValid
<1>3. CASE \/ ExpireEntry
           \/ \E p \in Presses :
                \/ \E b \in {"back", "next", "stop", "resolve"} : Press(p, b)
                \/ FindNoEntry(p) \/ DeferPress(p) \/ StopPages(p) \/ PressResolved(p)
                \/ LoadPending(p) \/ LoadGoneLast(p) \/ Edit(p) \/ EditNone(p) \/ FailPress(p)
  BY <1>3
     DEF ExpireEntry, Press, FindNoEntry, DeferPress, StopPages, PressResolved, LoadPending,
         LoadGoneLast, Edit, EditNone, FailPress, book, IndexInv, ListInv, PageIndexIsValid
<1>4. ASSUME NEW s \in Sids, ResolveElsewhere(s)
      PROVE  IndexInv'
  BY <1>4 DEF ResolveElsewhere, book, IndexInv, ListInv, PageIndexIsValid
<1>5. ASSUME NEW p \in Presses, TurnPage(p)
      PROVE  IndexInv'
  <2>1. PICK S : pages \in Seq(S)
    BY DEF IndexInv, ListInv
  <2>2. PICK d \in {-1, 1} : index' = Turned(index + 1 + d, pages)
    BY <1>5 DEF TurnPage
  <2>3. pages' = pages /\ waiting' = waiting /\ index + 1 + d \in Int
    BY <1>5 DEF TurnPage, IndexInv, ListInv
  <2> QED
    BY <2>1, <2>2, <2>3, TurnedIsListed DEF IndexInv, ListInv, PageIndexIsValid
<1>6. ASSUME NEW p \in Presses, PressResolve(p)
      PROVE  IndexInv'
  <2>1. pages # <<>>
    BY <1>6 DEF PressResolve, Contains
  <2> QED
    BY <1>6, <2>1, RemovalKeepsIndex DEF PressResolve
<1>7. ASSUME NEW p \in Presses, LoadGone(p)
      PROVE  IndexInv'
  BY <1>7, RemovalKeepsIndex DEF LoadGone
<1>8. CASE UNCHANGED pageVars
  BY <1>8 DEF pageVars, book, IndexInv, ListInv, PageIndexIsValid
<1> QED
  BY <1>1, <1>2, <1>3, <1>4, <1>5, <1>6, <1>7, <1>8 DEF PagesNext

(* Whatever handlers turn and remove pages between one another's awaits,   *)
(* the current page exists as long as any page does.                       *)
THEOREM PageIndexStaysValid == PagesSpec => []PageIndexIsValid
<1>1. IndexInv => PageIndexIsValid
  BY DEF IndexInv
<1> QED
  BY IndexInitially, IndexStep, <1>1, PTL DEF PagesSpec
-----------------------------------------------------------------------------
(* The paginators: which page is dropped. *)

(* What a page in hand is while the list is as it was. *)
Current(x) == pages # <<>> /\ x = pages[index + 1]

(* Before it is opened there is nothing to press. *)
OpenInv == at[Opener] = "idle" => message = Blank /\ Busy = {}

(* Of a queue whose buttons are pressed one at a time and whose edits all  *)
(* succeed: the page pressed on, looked up or about to be shown is the     *)
(* current one.                                                            *)
OneAtATime ==
  /\ pages \in Seq(Sids)
  /\ \A p, q \in Busy : p = q
  /\ Busy = {} => message \in {Expired, Blank} \/ Current(message)
  /\ \A p \in Presses :
       /\ at[p] \in {"pressed", "deferred"} => Current(message) /\ target[p] = message
       /\ at[p] = "loading" => Current(got[p])
       /\ at[p] = "editing" => got[p] = Expired \/ Current(got[p])
  /\ \A s \in waiting : Contains(pages, s) \/ s \in opened

(* The arrays of the presses are functions over the presses. *)
PressesOK ==
  /\ at = [p \in Presses |-> at[p]]
  /\ button = [p \in Presses |-> button[p]]
  /\ target = [p \in Presses |-> target[p]]
  /\ got = [p \in Presses |-> got[p]]
  /\ depth = [p \in Presses |-> depth[p]]

(* The inductive invariant. That the page dropped is the one meant is kept *)
(* while the presses take turns; with two under way it does not hold.      *)
DropsInv ==
  /\ IndexInv /\ PressesOK /\ OpenInv
  /\ kind = "queue" /\ ~crowded /\ ~failed => OneAtATime

(* The pending suggestions are all listed. *)
LEMMA ListOfAllWaiting ==
  ASSUME NEW S, IsFiniteSet(S), NEW x \in S
  PROVE  Contains(SetToSeq(S), x)
<1> DEFINE n == Cardinality(S)
           list == SetToSeq(S)
<1>1. n \in Nat /\ ExistsBijection(1 .. n, S)
  BY FS_CardinalityType
<1>2. \E f \in [1 .. n -> S] : IsInjective(f)
  BY <1>1 DEF ExistsBijection, Bijection, Injection, Surjection, IsInjective
<1>3. list \in [1 .. n -> S] /\ IsInjective(list)
  BY <1>2 DEF SetToSeq
<1>4. list \in Injection(1 .. n, S)
  BY <1>3 DEF Injection, IsInjective
<1>5. Cardinality(1 .. n) = n
  BY <1>1, FS_Interval
<1>6. list \in Surjection(1 .. n, S)
  BY <1>4, <1>5, FS_Injection
<1>7. \E i \in 1 .. n : list[i] = x
  BY <1>6 DEF Surjection
<1>8. Len(list) = n
  BY <1>1, <1>3
<1>9. QED
  BY <1>7, <1>8 DEF Contains

(* The elements of two lists in a row. *)
LEMMA ConcatElements ==
  ASSUME NEW S, NEW s \in Seq(S), NEW t \in Seq(S), NEW m \in Int, NEW n \in Int,
         Len(s) = m, Len(t) = n
  PROVE  \A j \in 1 .. m + n : (s \o t)[j] = IF j <= m THEN s[j] ELSE t[j - m]
  BY ConcatProperties

(* Dropping a page drops no other. *)
LEMMA DroppedKeeps ==
  ASSUME NEW S, NEW list \in Seq(S), NEW i \in 0 .. Len(list) - 1,
         NEW x, Contains(list, x), x # list[i + 1]
  PROVE  Contains(Dropped(list, i), x)
<1> DEFINE head == SubSeq(list, 1, i)
           tail == SubSeq(list, i + 2, Len(list))
<1>0. Len(list) \in Nat /\ i \in Int /\ \A j \in 1 .. Len(list) : list[j] \in S
  OBVIOUS
<1>1. head \in Seq(S) /\ Len(head) = i /\ \A j \in 1 .. i : head[j] = list[j]
  <2>1. \A j \in 1 .. i : list[j] \in S
    BY <1>0
  <2>2. /\ head \in Seq(S) /\ Len(head) = (IF 1 <= i THEN i - 1 + 1 ELSE 0)
        /\ \A j \in 1 .. i - 1 + 1 : head[j] = list[1 + j - 1]
    BY <1>0, <2>1, SubSeqProperties
  <2>3. QED
    BY <1>0, <2>2
<1>2. /\ tail \in Seq(S) /\ Len(tail) = Len(list) - i - 1
      /\ \A j \in 1 .. Len(list) - i - 1 : tail[j] = list[i + 1 + j]
  <2>1. i + 2 \in Int /\ \A j \in i + 2 .. Len(list) : list[j] \in S
    BY <1>0
  <2>2. /\ tail \in Seq(S)
        /\ Len(tail) = (IF i + 2 <= Len(list) THEN Len(list) - (i + 2) + 1 ELSE 0)
        /\ \A j \in 1 .. Len(list) - (i + 2) + 1 : tail[j] = list[i + 2 + j - 1]
    BY <1>0, <2>1, SubSeqProperties
  <2>3. QED
    BY <1>0, <2>2
<1>3. Dropped(list, i) = head \o tail
  <2>1. Dropped(list, i) = SubSeq(list, 1, (i + 1) - 1) \o SubSeq(list, (i + 1) + 1, Len(list))
    BY Zenon DEF Dropped, RemoveAt
  <2>2. (i + 1) - 1 = i /\ (i + 1) + 1 = i + 2
    OBVIOUS
  <2>3. QED
    BY <2>1, <2>2, Zenon
<1> HIDE DEF head, tail
<1>4. /\ Len(head \o tail) = Len(list) - 1
      /\ \A j \in 1 .. Len(list) - 1 :
           (head \o tail)[j] = IF j <= i THEN head[j] ELSE tail[j - i]
  <2>1. PICK n \in Int : n = Len(list) - i - 1
    <3>1. Len(list) - i - 1 \in Int
      BY <1>0
    <3>2. QED
      BY <3>1, Zenon
  <2>2. Len(tail) = n
    BY <1>2, <2>1
  <2>3. \A s, t \in Seq(S) : Len(s) = i /\ Len(t) = n =>
          \A j \in 1 .. i + n : (s \o t)[j] = IF j <= i THEN s[j] ELSE t[j - i]
    BY <1>0, ConcatElements
  <2>4. \A j \in 1 .. i + n : (head \o tail)[j] = IF j <= i THEN head[j] ELSE tail[j - i]
    BY <1>1, <1>2, <2>2, <2>3, Zenon
  <2>5. Len(head \o tail) = Len(list) - 1
    BY <1>3, DroppedIsShorter
  <2>6. i + n = Len(list) - 1
    BY <1>0, <2>1
  <2>7. QED
    BY <2>4, <2>5, <2>6
<1>5. PICK k \in 1 .. Len(list) : list[k] = x
  BY DEF Contains
<1>6. CASE k <= i
  <2>1. k \in 1 .. Len(list) - 1 /\ head[k] = x
    BY <1>0, <1>1, <1>5, <1>6
  <2>2. (head \o tail)[k] = x
    BY <1>4, <1>6, <2>1
  <2>3. QED
    BY <1>3, <1>4, <2>1, <2>2 DEF Contains
<1>7. CASE k > i
  <2>1. k # i + 1
    BY <1>5
  <2>2. k - 1 \in 1 .. Len(list) - 1 /\ ~(k - 1 <= i) /\ (k - 1) - i \in 1 .. Len(list) - i - 1
        /\ i + 1 + ((k - 1) - i) = k
    BY <1>0, <1>5, <1>7, <2>1
  <2>3. tail[(k - 1) - i] = x
    BY <1>2, <1>5, <2>2
  <2>4. (head \o tail)[k - 1] = x
    BY <1>4, <2>2, <2>3
  <2>5. QED
    BY <1>3, <1>4, <2>2, <2>4 DEF Contains
<1>8. QED
  BY <1>0, <1>5, <1>6, <1>7

(* Who is not busy, with the press that is.                                *)
LEMMA OthersRest ==
  ASSUME OneAtATime, NEW p \in Busy
  PROVE  \A q \in Presses \ {p} : at[q] \in {"idle", "done"}
  BY DEF OneAtATime, Busy

(* One press at a time: what OneAtATime asks once it has made its step.    *)
LEMMA SoloAfter ==
  ASSUME NEW p \in Presses,
         \A q \in Presses \ {p} : at'[q] \in {"idle", "done"},
         pages' \in Seq(Sids),
         at'[p] \in {"idle", "done"} => message' \in {Expired, Blank} \/ Current(message)',
         at'[p] \in {"pressed", "deferred"} => Current(message)' /\ target'[p] = message',
         at'[p] = "loading" => Current(got[p])',
         at'[p] = "editing" => got'[p] = Expired \/ Current(got[p])',
         \A s \in waiting' : Contains(pages, s)' \/ s \in opened'
  PROVE  OneAtATime'
<1>1. \A q \in Busy' : q = p
  BY DEF Busy
<1>2. Busy' = {} => at'[p] \in {"idle", "done"}
  BY DEF Busy
<1>3. QED
  BY <1>1, <1>2 DEF OneAtATime

(* remove_current_page with a page to remove: the list loses that one, and *)
(* the next is looked up.                                                  *)
LEMMA SoloRemoval ==
  ASSUME IndexInv, PressesOK, OneAtATime, kind = "queue", NEW p \in Busy, pages # <<>>,
         RemoveCurrentPage(p), UNCHANGED <<kind, waiting>>, opened \subseteq opened',
         pages[index + 1] \notin waiting \/ pages[index + 1] \in opened'
  PROVE  OneAtATime'
<1>0. p \in Presses /\ index \in 0 .. Len(pages) - 1 /\ pages \in Seq(Sids)
  BY DEF Busy, IndexInv, PageIndexIsValid, OneAtATime
<1>1. pages' = Dropped(pages, index) /\ index' = IndexAfterDrop(pages, index)
  BY DEF RemoveCurrentPage
<1>2. pages' \in Seq(Sids) /\ (pages' # <<>> => index' \in 0 .. Len(pages') - 1)
  BY <1>0, <1>1, DroppedIsShorter, IndexAfterDropIsListed
<1>3. \A s \in waiting : Contains(pages', s) \/ s \in opened'
  <2> SUFFICES ASSUME NEW s \in waiting, s \notin opened'
               PROVE  Contains(pages', s)
    OBVIOUS
  <2>1. Contains(pages, s) /\ s # pages[index + 1]
    BY DEF OneAtATime
  <2>2. QED
    BY <1>0, <1>1, <2>1, DroppedKeeps
<1>4. CASE pages' = <<>>
  <2>1. at' = [at EXCEPT ![p] = "editing"] /\ got' = [got EXCEPT ![p] = Expired]
    BY <1>4 DEF RemoveCurrentPage
  <2>2. at'[p] = "editing" /\ got'[p] = Expired /\ \A q \in Presses \ {p} : at'[q] = at[q]
    BY <1>0, <2>1 DEF PressesOK
  <2>3. QED
    BY <1>0, <1>2, <1>3, <2>2, OthersRest, SoloAfter
<1>5. CASE pages' # <<>>
  <2>1. index' + 1 \in DOMAIN pages'
    BY <1>2, <1>5
  <2>2. /\ at' = [at EXCEPT ![p] = "loading"]
        /\ got' = [got EXCEPT ![p] = pages'[index' + 1]]
    BY <1>5, <2>1 DEF RemoveCurrentPage, Format
  <2>3. /\ at'[p] = "loading" /\ Current(got[p])'
        /\ \A q \in Presses \ {p} : at'[q] = at[q]
    BY <1>0, <1>5, <2>2 DEF PressesOK, Current
  <2>4. QED
    BY <1>0, <1>2, <1>3, <2>3, OthersRest, SoloAfter
<1>6. QED
  BY <1>4, <1>5

(* A press that ends is done, and the others are as they were. *)
LEMMA Finishing ==
  ASSUME PressesOK, NEW p \in Presses, Finish(p)
  PROVE  PressesOK' /\ at'[p] = "done" /\ \A q \in Presses \ {p} : at'[q] = at[q]
  BY DEF PressesOK, Finish

(* A press that ends, the page and the message as they were. *)
LEMMA SoloFinish ==
  ASSUME PressesOK, OneAtATime, NEW p \in Busy, Finish(p), at[p] \in {"pressed", "deferred"},
         UNCHANGED <<pages, index, message, waiting, opened>>
  PROVE  OneAtATime'
<1>1. p \in Presses
  BY DEF Busy
<1>2. Current(message)' /\ pages' \in Seq(Sids)
      /\ \A s \in waiting' : Contains(pages, s)' \/ s \in opened'
  BY <1>1 DEF OneAtATime, Current
<1>3. QED
  BY <1>1, <1>2, Finishing, OthersRest, SoloAfter

(* The first press finds the page that the message shows. *)
LEMMA SoloPress ==
  ASSUME PressesOK, OneAtATime, NEW p \in Presses, NEW b, Press(p, b), Busy = {}
  PROVE  OneAtATime'
<1>1. /\ at' = [at EXCEPT ![p] = "pressed"] /\ target' = [target EXCEPT ![p] = message]
      /\ UNCHANGED <<pages, index, message, waiting, opened>>
      /\ message \notin {Expired, Blank}
  BY DEF Press, book
<1>2. at'[p] = "pressed" /\ target'[p] = message /\ \A q \in Presses \ {p} : at'[q] = at[q]
  BY <1>1 DEF PressesOK
<1>3. \A q \in Presses : at[q] \in {"idle", "done"}
  BY DEF Busy
<1>4. Current(message)' /\ pages' \in Seq(Sids)
      /\ \A s \in waiting' : Contains(pages, s)' \/ s \in opened'
  BY <1>1 DEF OneAtATime, Current
<1>5. QED
  BY <1>1, <1>2, <1>3, <1>4, SoloAfter

(* The only press under way turns the page: what it shows next is the new  *)
(* current page, or the notice that there is none.                         *)
LEMMA SoloTurn ==
  ASSUME IndexInv, PressesOK, OneAtATime, kind = "queue", NEW p \in Busy, TurnPage(p)
  PROVE  OneAtATime'
<1>0. p \in Presses /\ pages \in Seq(Sids) /\ pages # <<>> /\ index \in Int
  BY DEF Busy, OneAtATime, Current, TurnPage, IndexInv, ListInv
<1>1. UNCHANGED <<pages, message, waiting, opened>> /\ Format(p, pages, index', depth[p])
  BY DEF TurnPage, pageHistory
<1>2. index' \in 0 .. Len(pages) - 1
  <2>1. PICK d \in {-1, 1} : index' = Turned(index + 1 + d, pages)
    BY DEF TurnPage
  <2>2. index + 1 + d \in Int
    BY <1>0
  <2>3. QED
    BY <1>0, <2>1, <2>2, TurnedIsListed
<1>3. index' + 1 \in DOMAIN pages
  BY <1>0, <1>2
<1>4. at' = [at EXCEPT ![p] = "loading"] /\ got' = [got EXCEPT ![p] = pages[index' + 1]]
  BY <1>1, <1>3 DEF Format
<1>5. /\ at'[p] = "loading" /\ Current(got[p])'
      /\ \A q \in Presses \ {p} : at'[q] = at[q]
  BY <1>0, <1>1, <1>4 DEF PressesOK, Current
<1>6. \A s \in waiting' : Contains(pages, s)' \/ s \in opened'
  BY <1>1 DEF OneAtATime
<1>7. QED
  BY <1>0, <1>1, <1>5, <1>6, OthersRest, SoloAfter

(* The steps of the press under way. *)
LEMMA SoloStep ==
  ASSUME IndexInv, PressesOK, OneAtATime, kind = "queue", NEW p \in Presses, ~failed',
         \/ FindNoEntry(p) \/ DeferPress(p) \/ TurnPage(p)
         \/ StopPages(p) \/ PressResolved(p) \/ PressResolve(p)
         \/ LoadPending(p) \/ LoadGone(p) \/ LoadGoneLast(p)
         \/ Edit(p) \/ EditNone(p)
  PROVE  OneAtATime'
<1>0. p \in Busy
  BY DEF FindNoEntry, DeferPress, TurnPage, StopPages, PressResolved, PressResolve,
         LoadPending, LoadGone, LoadGoneLast, Edit, EditNone, Busy
<1> USE DEF book, pageHistory
<1>1. CASE FindNoEntry(p) \/ PressResolved(p)
  BY <1>0, <1>1, SoloFinish DEF FindNoEntry, PressResolved
<1>2. CASE TurnPage(p)
  BY <1>0, <1>2, SoloTurn
<1>3. CASE PressResolve(p)
  <2>1. Current(message) /\ target[p] = message
    BY <1>3 DEF PressResolve, OneAtATime
  <2>2. pages # <<>> /\ pages[index + 1] \in opened'
    BY <1>3, <2>1 DEF PressResolve, Current
  <2>3. QED
    BY <1>0, <1>3, <2>2, SoloRemoval DEF PressResolve
<1>4. CASE LoadGone(p)
  <2>1. pages # <<>> /\ pages[index + 1] \notin waiting
    BY <1>4 DEF LoadGone, OneAtATime, Current
  <2>2. QED
    BY <1>0, <1>4, <2>1, SoloRemoval DEF LoadGone
<1>5. CASE \/ DeferPress(p) \/ StopPages(p) \/ LoadPending(p) \/ LoadGoneLast(p)
           \/ Edit(p) \/ EditNone(p)
  <2>1. /\ UNCHANGED <<pages, index, waiting, opened>> /\ pages' \in Seq(Sids)
        /\ \A s \in waiting' : Contains(pages, s)' \/ s \in opened'
    BY <1>5 DEF DeferPress, StopPages, LoadPending, LoadGoneLast, Edit, EditNone, OneAtATime
  <2>2. CASE DeferPress(p)
    <3>1. at'[p] = "deferred" /\ \A q \in Presses \ {p} : at'[q] = at[q]
      BY <2>2 DEF DeferPress, PressesOK
    <3>2. Current(message)' /\ target'[p] = message'
      BY <2>1, <2>2 DEF DeferPress, OneAtATime, Current
    <3>3. QED
      BY <1>0, <2>1, <3>1, <3>2, OthersRest, SoloAfter
  <2>3. CASE StopPages(p)
    <3>1. CASE Finish(p)
      BY <1>0, <2>1, <2>3, <3>1, SoloFinish DEF StopPages
    <3>2. CASE at' = [at EXCEPT ![p] = "editing"] /\ got' = [got EXCEPT ![p] = Expired]
      <4>1. at'[p] = "editing" /\ got'[p] = Expired /\ \A q \in Presses \ {p} : at'[q] = at[q]
        BY <3>2 DEF PressesOK
      <4>2. QED
        BY <1>0, <2>1, <4>1, OthersRest, SoloAfter
    <3>3. QED
      BY <2>3, <3>1, <3>2 DEF StopPages
  <2>4. CASE LoadPending(p)
    <3>1. at'[p] = "editing" /\ got'[p] = got[p] /\ \A q \in Presses \ {p} : at'[q] = at[q]
      BY <2>4 DEF LoadPending, PressesOK
    <3>2. Current(got[p])'
      BY <2>1, <2>4, <3>1 DEF LoadPending, OneAtATime, Current
    <3>3. QED
      BY <1>0, <2>1, <3>1, <3>2, OthersRest, SoloAfter
  <2>5. CASE LoadGoneLast(p)
    BY <2>5 DEF LoadGoneLast, OneAtATime, Current
  <2>6. CASE Edit(p)
    <3>1. message' = got[p] /\ (got[p] = Expired \/ Current(got[p]))
      BY <2>6 DEF Edit, OneAtATime
    <3>2. message' \in {Expired, Blank} \/ Current(message)'
      BY <2>1, <3>1 DEF Current
    <3>3. at'[p] \in {"blanking", "done"} /\ \A q \in Presses \ {p} : at'[q] = at[q]
      BY <2>6 DEF Edit, Finish, PressesOK
    <3>4. QED
      BY <1>0, <2>1, <3>2, <3>3, OthersRest, SoloAfter
  <2>7. CASE EditNone(p)
    <3>1. message' = Blank /\ Finish(p)
      BY <2>7 DEF EditNone
    <3>2. QED
      BY <1>0, <2>1, <3>1, Finishing, OthersRest, SoloAfter
  <2>8. QED
    BY <1>5, <2>2, <2>3, <2>4, <2>5, <2>6, <2>7
<1>6. QED
  BY <1>1, <1>2, <1>3, <1>4, <1>5

(* The queue is opened on its first page. *)
LEMMA SoloOpen ==
  ASSUME IndexInv, PressesOK, OpenInv, ViewQueue
  PROVE  OneAtATime'
<1>0. Opener \in Presses /\ IsFiniteSet(waiting) /\ waiting \subseteq Sids
  BY QueuePagesAssumption, FS_Subset DEF IndexInv, ListInv
<1>1. /\ pages' = SetToSeq(waiting) /\ index' = 0 /\ waiting' = waiting
      /\ at' = [at EXCEPT ![Opener] = "loading"]
      /\ got' = [got EXCEPT ![Opener] = pages'[1]]
  BY DEF ViewQueue
<1>2. pages' \in Seq(waiting) /\ pages' \in Seq(Sids)
  BY <1>0, <1>1, ListOfWaiting, SeqMonotonic
<1>3. \A s \in waiting' : Contains(pages, s)'
  BY <1>0, <1>1, ListOfAllWaiting
<1>4. pages' # <<>>
  <2>1. PICK s \in waiting : Contains(pages', s)
    BY <1>1, <1>3 DEF ViewQueue
  <2>2. QED
    BY <2>1 DEF Contains
<1>5. at'[Opener] = "loading" /\ Current(got[Opener])'
  BY <1>0, <1>1, <1>4 DEF PressesOK, Current
<1>6. \A q \in Presses \ {Opener} : at'[q] \in {"idle", "done"}
  BY <1>0, <1>1 DEF ViewQueue, OpenInv, Busy, PressesOK
<1>7. QED
  BY <1>0, <1>2, <1>3, <1>5, <1>6, SoloAfter

(* The step of each part of the invariant. *)
LEMMA PressesOKStep == PressesOK /\ [PagesNext]_pageVars => PressesOK'
<1> SUFFICES ASSUME PressesOK, [PagesNext]_pageVars
             PROVE  PressesOK'
  OBVIOUS
<1> USE DEF PressesOK, presses
<1>1. CASE ViewQueue \/ (\E n \in 1 .. MaxVoters : ViewVoters(n)) \/ ExpireEntry
           \/ (\E s \in Sids : ResolveElsewhere(s)) \/ UNCHANGED pageVars
  BY <1>1 DEF ViewQueue, ViewVoters, ExpireEntry, ResolveElsewhere, pageVars
<1>2. ASSUME NEW p \in Presses, NEW b, Press(p, b)
      PROVE  PressesOK'
  BY <1>2 DEF Press
<1>3. ASSUME NEW p \in Presses,
             \/ FindNoEntry(p) \/ DeferPress(p) \/ StopPages(p) \/ PressResolved(p)
             \/ LoadPending(p) \/ LoadGoneLast(p) \/ Edit(p) \/ EditNone(p) \/ FailPress(p)
      PROVE  PressesOK'
  BY <1>3 DEF FindNoEntry, DeferPress, StopPages, PressResolved, LoadPending, LoadGoneLast,
              Edit, EditNone, FailPress, Finish
<1>4. ASSUME NEW p \in Presses, TurnPage(p) \/ PressResolve(p) \/ LoadGone(p)
      PROVE  PressesOK'
  BY <1>4 DEF TurnPage, PressResolve, LoadGone, RemoveCurrentPage, Format, Finish
<1>5. QED
  BY <1>1, <1>2, <1>3, <1>4 DEF PagesNext

LEMMA OpenStep == PressesOK /\ OpenInv /\ [PagesNext]_pageVars => OpenInv'
<1> SUFFICES ASSUME PressesOK, OpenInv, [PagesNext]_pageVars, at'[Opener] = "idle"
             PROVE  message' = Blank /\ Busy' = {}
  BY DEF OpenInv
<1>0. Opener \in Presses
  BY QueuePagesAssumption
<1>1. ASSUME NEW p \in Presses,
             \/ FindNoEntry(p) \/ DeferPress(p) \/ TurnPage(p)
             \/ StopPages(p) \/ PressResolved(p) \/ PressResolve(p)
             \/ LoadPending(p) \/ LoadGone(p) \/ LoadGoneLast(p)
             \/ Edit(p) \/ EditNone(p) \/ FailPress(p)
      PROVE  FALSE
  <2>1. p \in Busy
    BY <1>1 DEF FindNoEntry, DeferPress, TurnPage, StopPages, PressResolved, PressResolve,
                LoadPending, LoadGone, LoadGoneLast, Edit, EditNone, FailPress, Busy
  <2>2. \E point \in {"deferred", "loading", "editing", "blanking", "done"} :
          at' = [at EXCEPT ![p] = point]
    BY <1>1 DEF FindNoEntry, DeferPress, TurnPage, StopPages, PressResolved, PressResolve,
                LoadPending, LoadGone, LoadGoneLast, Edit, EditNone, FailPress, Finish,
                Format, RemoveCurrentPage
  <2>3. at[Opener] = "idle"
    BY <1>0, <2>2 DEF PressesOK
  <2>4. QED
    BY <2>1, <2>3 DEF OpenInv
<1>2. CASE ViewQueue \/ \E n \in 1 .. MaxVoters : ViewVoters(n)
  BY <1>0, <1>2 DEF ViewQueue, ViewVoters, PressesOK
<1>3. ASSUME NEW p \in Presses, NEW b, Press(p, b)
      PROVE  FALSE
  BY <1>0, <1>3 DEF Press, PressesOK, OpenInv
<1>4. CASE ExpireEntry \/ (\E s \in Sids : ResolveElsewhere(s)) \/ UNCHANGED pageVars
  BY <1>4 DEF ExpireEntry, ResolveElsewhere, pageVars, presses, OpenInv, Busy
<1>5. QED
  BY <1>1, <1>2, <1>3, <1>4 DEF PagesNext

(* Nothing is pressed at the start. *)
LEMMA DropsInit == PagesInit => DropsInv
<1> SUFFICES ASSUME PagesInit PROVE DropsInv
  OBVIOUS
<1>1. PressesOK /\ OpenInv
  BY DEF PagesInit, PressesOK, OpenInv, Busy
<1>2. QED
  BY <1>1, IndexInitially DEF DropsInv, PagesInit

(* The step of the invariant: a press that starts finds no other under way, *)
(* and one that goes on is the only one.                                   *)
LEMMA DropsStep == DropsInv /\ [PagesNext]_pageVars => DropsInv'
<1> SUFFICES ASSUME DropsInv, [PagesNext]_pageVars, kind' = "queue", ~crowded', ~failed'
             PROVE  OneAtATime'
  BY IndexStep, PressesOKStep, OpenStep DEF DropsInv
<1>1. CASE ViewQueue
  BY <1>1, SoloOpen DEF DropsInv
<1>2. CASE ~ViewQueue
  <2>1. kind = "queue" /\ ~failed
    BY <1>2 DEF PagesNext, ViewVoters, ExpireEntry, ResolveElsewhere, Press, FindNoEntry,
                DeferPress, TurnPage, StopPages, PressResolved, PressResolve, LoadPending,
                LoadGone, LoadGoneLast, Edit, EditNone, FailPress, pageVars, book, pageHistory
  <2>2. ~crowded
    BY <1>2 DEF PagesNext, ViewVoters, ExpireEntry, ResolveElsewhere, Press, FindNoEntry,
                DeferPress, TurnPage, StopPages, PressResolved, PressResolve, LoadPending,
                LoadGone, LoadGoneLast, Edit, EditNone, FailPress, pageVars, book, pageHistory
  <2>3. IndexInv /\ PressesOK /\ OneAtATime
    BY <2>1, <2>2 DEF DropsInv
  <2>4. ASSUME NEW p \in Presses, NEW b, Press(p, b)
        PROVE  OneAtATime'
    BY <2>2, <2>3, <2>4, SoloPress DEF Press
  <2>5. CASE ExpireEntry \/ (\E s \in Sids : ResolveElsewhere(s)) \/ UNCHANGED pageVars
    <3>1. /\ UNCHANGED <<pages, index, message, at, target, got, opened>>
          /\ waiting' \subseteq waiting
      BY <2>5 DEF ExpireEntry, ResolveElsewhere, pageVars, book, presses, pageHistory
    <3>2. QED
      BY <2>3, <3>1 DEF OneAtATime, Busy, Current
  <2>6. \A p \in Presses : ~FailPress(p)
    BY DEF FailPress
  <2>7. ~\E n \in 1 .. MaxVoters : ViewVoters(n)
    BY DEF ViewVoters
  <2>8. QED
    BY <1>2, <2>1, <2>3, <2>4, <2>5, <2>6, <2>7, SoloStep DEF PagesNext
<1>3. QED
  BY <1>1, <1>2

(* Of a queue whose buttons are pressed one at a time, Discord refusing no *)
(* edit, only those suggestions leave the list that were resolved or that  *)
(* a moderator pressed approve or reject for (remove_current_page).        *)
THEOREM RightPagesAreDropped == PagesSpec => []DropsTheRightPage
<1>1. DropsInv => DropsTheRightPage
  BY DEF DropsInv, DropsTheRightPage, OneAtATime
<1>2. QED
  BY <1>1, DropsInit, DropsStep, PTL DEF PagesSpec

(* What division by the size of a page leaves. *)
LEMMA QuotientBounds ==
  ASSUME NEW a \in Nat, NEW b \in Nat \ {0}
  PROVE  LET q == a \div b IN q \in Nat /\ b * q <= a /\ a < b * q + b
  OBVIOUS

(* A number of voters takes at least one page and no more pages than       *)
(* voters.                                                                 *)
LEMMA PageCount ==
  ASSUME NEW n \in Nat \ {0}, NEW b \in Nat \ {0}
  PROVE  LET q == (n + b - 1) \div b
         IN  q \in 1 .. n /\ (q - 1) * b < n
<1> DEFINE q == (n + b - 1) \div b
<1>1. q \in Nat /\ b * q <= n + b - 1 /\ n + b - 1 < b * q + b
  BY QuotientBounds, n + b - 1 \in Nat
<1> HIDE DEF q
<1>2. (q - 1) * b = b * q - b
  BY <1>1
<1>3. q # 0
  BY <1>1
<1>4. ASSUME q >= n + 1 PROVE FALSE
  <2>1. PICK d \in Nat : q = n + 1 + d
    BY <1>1, <1>4, q - n - 1 \in Nat
  <2>2. b * q = b * n + b + b * d
    BY <2>1
  <2>3. b * n >= n /\ b * d >= 0
    <3>1. PICK c \in Nat : b = c + 1
      BY b - 1 \in Nat
    <3>2. b * n = c * n + n /\ c * n >= 0
      BY <3>1
    <3> QED
      BY <3>2
  <2> QED
    BY <1>1, <2>2, <2>3
<1> QED
  BY <1>1, <1>2, <1>3, <1>4 DEF q

(* The voters, in pages of at most PerPage. *)
LEMMA BatchedIsPages ==
  ASSUME NEW n \in 1 .. MaxVoters
  PROVE  LET list == Batched([v \in 1 .. n |-> v], PerPage)
         IN  list \in Seq(Page) /\ Len(list) \in 1 .. n
<1> DEFINE votes == [v \in 1 .. n |-> v]
           q == (n + PerPage - 1) \div PerPage
           list == Batched(votes, PerPage)
           from(k) == (k - 1) * PerPage + 1
           to(k) == IF k * PerPage < n THEN k * PerPage ELSE n
<1>1. n \in Nat \ {0} /\ PerPage \in Nat \ {0} /\ MaxVoters \in Nat /\ n <= MaxVoters
  BY QueuePagesAssumption
<1>2. votes \in Seq(1 .. MaxVoters) /\ Len(votes) = n /\ \A v \in 1 .. n : votes[v] \in 1 .. MaxVoters
  BY <1>1
<1>3. q \in 1 .. n /\ (q - 1) * PerPage < n
  BY <1>1, PageCount
<1>4. list = [k \in 1 .. q |-> SubSeq(votes, from(k), to(k))]
  BY <1>2, Zenon DEF Batched
<1>5. ASSUME NEW k \in 1 .. q
      PROVE  SubSeq(votes, from(k), to(k)) \in Page
  <2>1. k \in Nat \ {0} /\ k <= q /\ q \in Nat
    BY <1>3
  <2>2. PICK d \in Nat : q = k + d
    BY <2>1, q - k \in Nat
  <2>3. PICK m \in Nat : m = (k - 1) * PerPage
    <3>1. k - 1 \in Nat
      BY <2>1
    <3>2. (k - 1) * PerPage \in Nat
      BY <1>1, <3>1
    <3> QED
      BY <3>2
  <2>4. m < n
    <3>1. (q - 1) * PerPage = m + d * PerPage
      BY <1>1, <2>1, <2>2, <2>3
    <3>2. d * PerPage \in Nat
      BY <1>1, <2>2
    <3> QED
      BY <1>1, <1>3, <2>3, <3>1, <3>2
  <2>5. k * PerPage = m + PerPage
    BY <1>1, <2>1, <2>3
  <2>6. from(k) = m + 1 /\ to(k) \in m + 1 .. n /\ to(k) - m \in 1 .. PerPage
    BY <1>1, <2>3, <2>4, <2>5
  <2> HIDE DEF from, to
  <2>7. PICK len \in 1 .. PerPage : to(k) = m + len
    BY <2>3, <2>6
  <2>8. PICK lo \in Int, hi \in Int : lo = m + 1 /\ hi = m + len
    BY <2>3, <2>7
  <2>9. from(k) = lo /\ to(k) = hi /\ lo <= hi /\ hi - lo + 1 = len /\ len \in 1 .. PerPage
    BY <1>1, <2>3, <2>6, <2>7, <2>8
  <2>10. \A i \in lo .. hi : votes[i] \in 1 .. MaxVoters
    BY <1>1, <1>2, <2>3, <2>6, <2>7, <2>8
  <2> HIDE DEF votes
  <2>11. SubSeq(votes, lo, hi) \in Seq(1 .. MaxVoters) /\ Len(SubSeq(votes, lo, hi)) = hi - lo + 1
    <3>1. /\ SubSeq(votes, lo, hi) \in Seq(1 .. MaxVoters)
          /\ Len(SubSeq(votes, lo, hi)) = IF lo <= hi THEN hi - lo + 1 ELSE 0
      BY <2>10, SubSeqProperties
    <3> QED
      BY <2>9, <3>1
  <2>12. SubSeq(votes, lo, hi) \in [1 .. len -> 1 .. MaxVoters]
    <3>1. SubSeq(votes, lo, hi) \in [1 .. Len(SubSeq(votes, lo, hi)) -> 1 .. MaxVoters]
      BY <2>11, LenProperties
    <3>2. Len(SubSeq(votes, lo, hi)) = len
      BY <2>9, <2>11, Zenon
    <3> QED
      BY <3>1, <3>2, Zenon
  <2>13. SubSeq(votes, lo, hi) \in UNION {[1 .. l -> 1 .. MaxVoters] : l \in 1 .. PerPage}
    BY <2>9, <2>12, Zenon
  <2> QED
    BY <2>9, <2>13, Zenon DEF Page
<1>6. list \in [1 .. q -> Page]
  BY <1>4, <1>5, Zenon
<1>7. list \in Seq(Page) /\ Len(list) = q
  BY <1>3, <1>6
<1> QED
  BY <1>3, <1>7

(* The list is one of pages, of suggestions if it is the queue, and no     *)
(* longer than all that could be listed; with no page left, the index is   *)
(* where it was set last.                                                  *)
ListTypes ==
  /\ pages \in Seq(Page) /\ Len(pages) <= Cardinality(Sids) + MaxVoters
  /\ kind = "queue" => pages \in Seq(Sids)
  /\ index \in Int /\ (pages = <<>> => index \in {-1, 0})
  /\ PageIndexIsValid

(* What the presses have in hand. *)
HandTypes ==
  /\ at \in [Presses -> {"idle", "pressed", "deferred", "loading", "editing",
                         "blanking", "done"}]
  /\ button \in [Presses -> {"none", "view", "back", "next", "stop", "resolve"}]
  /\ target \in [Presses -> Page \cup {Expired, Blank}]
  /\ got \in [Presses -> Page \cup {Expired, Blank}]
  /\ depth \in [Presses -> Nat]

(* Approve and reject are buttons of the queue only. *)
ResolvesQueue == \A p \in Presses : at[p] = "pressed" /\ button[p] = "resolve" => kind = "queue"

(* The inductive invariant of the types. *)
PagesInv ==
  /\ kind \in {"none", "queue", "voters"} /\ waiting \subseteq Sids /\ opened \subseteq Sids
  /\ entry \in BOOLEAN /\ crowded \in BOOLEAN /\ failed \in BOOLEAN
  /\ message \in Page \cup {Expired, Blank}
  /\ ListTypes /\ HandTypes /\ OpenInv /\ ResolvesQueue

(* The index is no further than the list can be long. *)
LEMMA IndexIsBounded ==
  ASSUME ListTypes
  PROVE  index \in -1 .. Cardinality(Sids) + MaxVoters
<1>1. Cardinality(Sids) + MaxVoters \in Nat /\ Len(pages) \in Nat
  BY QueuePagesAssumption, FS_CardinalityType DEF ListTypes
<1>2. CASE pages = <<>>
  BY <1>1, <1>2 DEF ListTypes
<1>3. CASE pages # <<>>
  BY <1>1, <1>3 DEF ListTypes, PageIndexIsValid
<1> QED
  BY <1>2, <1>3

(* The list of the queue is as long as the queue. *)
LEMMA ListOfWaitingLength ==
  ASSUME NEW S, IsFiniteSet(S)
  PROVE  Len(SetToSeq(S)) = Cardinality(S)
<1>1. Cardinality(S) \in Nat /\ ExistsBijection(1 .. Cardinality(S), S)
  BY FS_CardinalityType
<1>2. \E f \in [1 .. Cardinality(S) -> S] : IsInjective(f)
  BY <1>1 DEF ExistsBijection, Bijection, Injection, Surjection, IsInjective
<1>3. SetToSeq(S) \in [1 .. Cardinality(S) -> S]
  BY <1>2 DEF SetToSeq
<1> QED
  BY <1>1, <1>3

(* A page that is turned to, and one that is dropped. *)
LEMMA TurningTypes ==
  ASSUME ListTypes, NEW n \in Int, index' = Turned(n, pages), UNCHANGED <<pages, kind>>
  PROVE  ListTypes'
<1>1. pages = <<>> => Len(pages) = 0
  OBVIOUS
<1> QED
  BY <1>1, TurnedIsListed DEF ListTypes, PageIndexIsValid, Turned

LEMMA RemovalTypes ==
  ASSUME ListTypes, NEW p \in Presses, pages # <<>>, RemoveCurrentPage(p), kind' = kind
  PROVE  ListTypes'
<1>1. index \in 0 .. Len(pages) - 1 /\ pages \in Seq(Page) /\ Len(pages) \in Nat
  BY DEF ListTypes, PageIndexIsValid
<1>2. pages' = Dropped(pages, index) /\ index' = IndexAfterDrop(pages, index)
  BY DEF RemoveCurrentPage
<1>3. pages' \in Seq(Page) /\ Len(pages') = Len(pages) - 1
  BY <1>1, <1>2, DroppedIsShorter
<1>4. kind' = "queue" => pages' \in Seq(Sids)
  BY <1>1, <1>2, DroppedIsShorter DEF ListTypes
<1>5. index' \in Int /\ (pages' # <<>> => index' \in 0 .. Len(pages') - 1)
  BY <1>1, <1>2, IndexAfterDropIsListed
<1>6. ASSUME pages' = <<>>
      PROVE  index' = 0
  <2>0. Len(pages') = 0
    BY <1>6
  <2>1. Len(pages) = 1
    <3>1. Len(pages) - 1 = 0
      BY <1>3, <2>0, Zenon
    <3> QED
      BY <1>1, <3>1
  <2>2. index' = Turned(1, pages')
    <3>1. index + 1 = Len(pages)
      BY <1>1, <2>1
    <3> QED
      BY <1>2, <3>1, Zenon DEF IndexAfterDrop
  <2> QED
    BY <2>0, <2>2 DEF Turned
<1>7. Cardinality(Sids) + MaxVoters \in Nat
  BY QueuePagesAssumption, FS_CardinalityType
<1> QED
  BY <1>1, <1>3, <1>4, <1>5, <1>6, <1>7 DEF ListTypes, PageIndexIsValid

(* What a press has in hand after each of the steps it shares. *)
LEMMA FinishTypes ==
  ASSUME HandTypes, NEW p \in Presses, Finish(p)
  PROVE  HandTypes' /\ \A q \in Presses : at'[q] = "pressed" => at[q] = "pressed" /\ button'[q] = button[q]
BY DEF HandTypes, Finish

LEMMA FormatTypes ==
  ASSUME HandTypes, NEW p \in Presses, NEW list \in Seq(Page), NEW i, NEW d \in Nat,
         Format(p, list, i, d)
  PROVE  HandTypes' /\ \A q \in Presses : at'[q] = "pressed" => at[q] = "pressed" /\ button'[q] = button[q]
<1>1. CASE i + 1 \in DOMAIN list
  <2>1. list[i + 1] \in Page
    BY <1>1
  <2> QED
    BY <1>1, <2>1 DEF HandTypes, Format
<1>2. CASE i + 1 \notin DOMAIN list
  BY <1>2, FinishTypes DEF Format
<1> QED
  BY <1>1, <1>2

LEMMA RemovalHands ==
  ASSUME HandTypes, ListTypes', NEW p \in Presses, RemoveCurrentPage(p)
  PROVE  HandTypes' /\ \A q \in Presses : at'[q] = "pressed" => at[q] = "pressed" /\ button'[q] = button[q]
<1>1. CASE pages' = <<>>
  <2>1. depth[p] + 1 \in Nat
    BY DEF HandTypes
  <2>2. /\ got' = [got EXCEPT ![p] = Expired] /\ at' = [at EXCEPT ![p] = "editing"]
        /\ depth' = [depth EXCEPT ![p] = depth[p] + 1] /\ UNCHANGED <<button, target>>
    BY <1>1 DEF RemoveCurrentPage
  <2> QED
    BY <2>1, <2>2 DEF HandTypes
<1>2. CASE pages' # <<>>
  <2>1. depth[p] + 1 \in Nat /\ pages' \in Seq(Page)
    BY DEF HandTypes, ListTypes
  <2> QED
    BY <1>2, <2>1, FormatTypes DEF RemoveCurrentPage
<1> QED
  BY <1>1, <1>2

(* Nothing is open at the start. *)
LEMMA PagesInitially == PagesInit => PagesInv
<1> SUFFICES ASSUME PagesInit PROVE PagesInv
  OBVIOUS
<1>1. HandTypes /\ ResolvesQueue
  BY DEF PagesInit, HandTypes, ResolvesQueue
<1>2. ListTypes
  <2>1. Cardinality(Sids) + MaxVoters \in Nat /\ Len(<<>>) = 0
    BY QueuePagesAssumption, FS_CardinalityType
  <2> QED
    BY <2>1 DEF PagesInit, ListTypes, PageIndexIsValid
<1> QED
  BY <1>1, <1>2, DropsInit DEF PagesInit, PagesInv, DropsInv

(* The paginator opens on the first of its pages. *)
LEMMA OpenPagesStep ==
  ASSUME PagesInv, OpenInv', ViewQueue \/ \E n \in 1 .. MaxVoters : ViewVoters(n)
  PROVE  PagesInv'
<1> USE DEF PagesInv
<1>1. ListTypes' /\ pages' # <<>>
  <2>0. Cardinality(Sids) \in Nat /\ MaxVoters \in Nat
    BY QueuePagesAssumption, FS_CardinalityType
  <2>1. CASE ViewQueue
    <3>1. /\ kind' = "queue" /\ pages' = SetToSeq(waiting) /\ index' = 0
          /\ waiting \subseteq Sids /\ waiting # {}
      BY <2>1 DEF ViewQueue
    <3>2. /\ IsFiniteSet(waiting) /\ Cardinality(waiting) <= Cardinality(Sids)
          /\ Cardinality(waiting) \in Nat /\ Cardinality(waiting) # 0
      BY <3>1, QueuePagesAssumption, FS_Subset, FS_CardinalityType, FS_EmptySet
    <3>3. pages' \in Seq(waiting) /\ Len(pages') = Cardinality(waiting)
      BY <3>1, <3>2, ListOfWaiting, ListOfWaitingLength
    <3>4. pages' \in Seq(Sids) /\ pages' \in Seq(Page)
      BY <3>1, <3>3, SeqMonotonic DEF Page
    <3> QED
      BY <2>0, <3>1, <3>2, <3>3, <3>4 DEF ListTypes, PageIndexIsValid
  <2>2. ASSUME NEW n \in 1 .. MaxVoters, ViewVoters(n)
        PROVE  ListTypes' /\ pages' # <<>>
    <3>1. /\ kind' = "voters" /\ index' = 0
          /\ pages' \in Seq(Page) /\ Len(pages') \in 1 .. n
      BY <2>2, BatchedIsPages DEF ViewVoters
    <3> QED
      BY <2>0, <3>1 DEF ListTypes, PageIndexIsValid
  <2> QED
    BY <2>1, <2>2
<1>2. pages'[1] \in Page /\ kind' \in {"queue", "voters"}
  <2>1. pages' \in Seq(Page) /\ pages' # <<>>
    BY <1>1 DEF ListTypes
  <2>2. pages'[1] \in Page
    BY <2>1
  <2> QED
    BY <2>2 DEF ViewQueue, ViewVoters
<1>3. HandTypes' /\ \A p \in Presses : at'[p] # "pressed"
  <2>1. Opener \in Presses /\ Busy = {}
    BY QueuePagesAssumption DEF OpenInv, ViewQueue, ViewVoters
  <2>2. PICK point \in {"loading", "editing"} :
          /\ at' = [at EXCEPT ![Opener] = point]
          /\ button' = [button EXCEPT ![Opener] = "view"]
          /\ got' = [got EXCEPT ![Opener] = pages'[1]]
          /\ UNCHANGED <<target, depth>>
    BY DEF ViewQueue, ViewVoters
  <2>3. HandTypes'
    BY <1>2, <2>1, <2>2 DEF HandTypes
  <2>4. \A p \in Presses : at'[p] # "pressed"
    BY <2>1, <2>2 DEF HandTypes, Busy
  <2> QED
    BY <2>3, <2>4
<1> QED
  BY <1>1, <1>2, <1>3 DEF ViewQueue, ViewVoters, pageHistory, ResolvesQueue

(* A button is pressed on what is shown. *)
LEMMA PressTypes ==
  ASSUME PagesInv, OpenInv', NEW p \in Presses, NEW b \in {"back", "next", "stop", "resolve"},
         Press(p, b)
  PROVE  PagesInv'
<1>1. ListTypes'
  BY DEF PagesInv, Press, book, ListTypes, PageIndexIsValid
<1>2. HandTypes'
  BY DEF PagesInv, Press, HandTypes
<1>3. ResolvesQueue'
  BY DEF PagesInv, Press, book, HandTypes, ResolvesQueue
<1> QED
  BY <1>1, <1>2, <1>3 DEF PagesInv, Press, book

(* Every other step is one of a press that has begun: it leaves what is    *)
(* pressed as it was, and its list and its hands keep their types.         *)
LEMMA GoingOnTypes ==
  ASSUME PagesInv, OpenInv', ListTypes', HandTypes',
         \A q \in Presses : at'[q] = "pressed" => at[q] = "pressed" /\ button'[q] = button[q],
         UNCHANGED <<kind, waiting>>, entry' \in BOOLEAN, crowded' = crowded,
         failed' \in BOOLEAN, opened' \subseteq Sids, message' \in Page \cup {Expired, Blank}
  PROVE  PagesInv'
BY DEF PagesInv, ResolvesQueue

LEMMA PressStepTypes ==
  ASSUME PagesInv, OpenInv', NEW p \in Presses,
         \/ FindNoEntry(p) \/ DeferPress(p) \/ TurnPage(p) \/ StopPages(p) \/ PressResolved(p)
         \/ PressResolve(p) \/ LoadPending(p) \/ LoadGone(p) \/ LoadGoneLast(p)
         \/ Edit(p) \/ EditNone(p) \/ FailPress(p)
  PROVE  PagesInv'
<1>0. ListTypes /\ HandTypes
  BY DEF PagesInv
<1>1. CASE FindNoEntry(p) \/ PressResolved(p) \/ LoadGoneLast(p) \/ EditNone(p) \/ FailPress(p)
  <2>1. Finish(p) /\ UNCHANGED <<kind, waiting, pages, index, entry, crowded, opened>>
        /\ message' \in {message, Blank} /\ failed' \in {failed, TRUE}
    BY <1>1 DEF FindNoEntry, PressResolved, LoadGoneLast, EditNone, FailPress, book, pageHistory
  <2>2. ListTypes'
    BY <1>0, <2>1 DEF ListTypes, PageIndexIsValid
  <2> QED
    BY <1>0, <2>1, <2>2, FinishTypes, GoingOnTypes DEF PagesInv
<1>2. CASE DeferPress(p) \/ LoadPending(p) \/ StopPages(p) \/ Edit(p)
  <2>1. UNCHANGED <<kind, waiting, pages, index, crowded, opened, failed>> /\ entry' \in {entry, FALSE}
    BY <1>2 DEF DeferPress, LoadPending, StopPages, Edit, book, pageHistory
  <2>2. message' \in {message, got[p]}
    BY <1>2 DEF DeferPress, LoadPending, StopPages, Edit
  <2>3. ListTypes'
    BY <1>0, <2>1 DEF ListTypes, PageIndexIsValid
  <2>4. HandTypes' /\ \A q \in Presses : at'[q] = "pressed" => at[q] = "pressed" /\ button'[q] = button[q]
    <3>1. CASE Finish(p)
      BY <1>0, <3>1, FinishTypes
    <3>2. CASE ~Finish(p)
      <4>1. /\ \E point \in {"deferred", "editing", "blanking"} : at' = [at EXCEPT ![p] = point]
            /\ UNCHANGED <<button, target, depth>>
            /\ got' = got \/ got' = [got EXCEPT ![p] = Expired]
        BY <1>2, <3>2 DEF DeferPress, LoadPending, StopPages, Edit
      <4> QED
        BY <1>0, <4>1 DEF HandTypes
    <3> QED
      BY <3>1, <3>2
  <2> QED
    BY <1>0, <2>1, <2>2, <2>3, <2>4, GoingOnTypes DEF PagesInv, HandTypes
<1>3. CASE TurnPage(p)
  <2>1. /\ UNCHANGED <<kind, waiting, pages, entry, message, crowded, opened, failed>>
        /\ Format(p, pages, index', depth[p])
        /\ \E d \in {-1, 1} : index' = Turned(index + 1 + d, pages)
    BY <1>3 DEF TurnPage, pageHistory
  <2>2. ListTypes'
    <3>1. PICK n \in Int : index' = Turned(n, pages)
      <4>1. \A d \in {-1, 1} : index + 1 + d \in Int
        BY <1>0 DEF ListTypes
      <4> QED
        BY <2>1, <4>1
    <3> QED
      BY <1>0, <2>1, <3>1, TurningTypes
  <2>3. depth[p] \in Nat /\ pages \in Seq(Page)
    BY <1>0 DEF HandTypes, ListTypes
  <2> QED
    BY <1>0, <2>1, <2>2, <2>3, FormatTypes, GoingOnTypes DEF PagesInv
<1>4. CASE PressResolve(p) \/ LoadGone(p)
  <2>1. /\ UNCHANGED <<kind, waiting, entry, message, crowded, failed>>
        /\ RemoveCurrentPage(p)
    BY <1>4 DEF PressResolve, LoadGone, pageHistory
  <2>2. pages # <<>>
    BY <1>4 DEF PressResolve, LoadGone, Contains
  <2>3. ListTypes'
    BY <1>0, <2>1, <2>2, RemovalTypes
  <2>4. opened' \subseteq Sids
    <3>1. CASE PressResolve(p)
      <4>1. kind = "queue" /\ Contains(pages, target[p])
        BY <3>1 DEF PressResolve, PagesInv, ResolvesQueue
      <4>2. target[p] \in Sids
        BY <1>0, <4>1 DEF ListTypes, Contains
      <4> QED
        BY <3>1, <4>2 DEF PressResolve, PagesInv
    <3>2. CASE LoadGone(p)
      BY <3>2 DEF LoadGone, pageHistory, PagesInv
    <3> QED
      BY <1>4, <3>1, <3>2
  <2> QED
    BY <1>0, <2>1, <2>3, <2>4, RemovalHands, GoingOnTypes DEF PagesInv
<1> QED
  BY <1>1, <1>2, <1>3, <1>4

LEMMA PagesStep == PagesInv /\ [PagesNext]_pageVars => PagesInv'
<1> SUFFICES ASSUME PagesInv, [PagesNext]_pageVars PROVE PagesInv'
  OBVIOUS
<1>1. OpenInv'
  <2>1. PressesOK
    BY DEF PagesInv, HandTypes, PressesOK
  <2> QED
    BY <2>1, OpenStep DEF PagesInv
<1>2. CASE ExpireEntry \/ (\E s \in Sids : ResolveElsewhere(s)) \/ UNCHANGED pageVars
  <2>1. /\ UNCHANGED <<kind, pages, index, message, at, button, target, got, depth, opened, crowded, failed>>
        /\ waiting' \subseteq waiting /\ entry' \in {entry, FALSE}
    BY <1>2 DEF ExpireEntry, ResolveElsewhere, pageVars, book, presses, pageHistory
  <2> QED
    BY <1>1, <2>1 DEF PagesInv, ListTypes, PageIndexIsValid, HandTypes, ResolvesQueue
<1>3. CASE ViewQueue \/ \E n \in 1 .. MaxVoters : ViewVoters(n)
  BY <1>1, <1>3, OpenPagesStep
<1> QED
  BY <1>1, <1>2, <1>3, PressTypes, PressStepTypes DEF PagesNext

(* The list, the index and what the presses have in hand have their types; *)
(* the index is never further than the list was long.                      *)
THEOREM PagesTypeCorrect == PagesSpec => []PagesTypeOK
<1>1. PagesInv => PagesTypeOK
  BY IndexIsBounded DEF PagesInv, ListTypes, HandTypes, PagesTypeOK
<1> QED
  BY <1>1, PagesInitially, PagesStep, PTL DEF PagesSpec
-----------------------------------------------------------------------------
(* The settings of a guild. *)

(* A handler that is past its insert has a row to work on, and one that    *)
(* is about to answer has a copy of it.                                    *)
Prepared ==
  /\ \A h \in Handlers : stage[h] # "idle" => answer[h] \in Answers
  /\ \A h \in Handlers : stage[h] \in {"fetch", "answer"} => guild_row \in GuildRow
  /\ \A h \in Handlers : stage[h] = "answer" => config[h] \in GuildRow

(* A copy that was fetched since the last save is the row, and the row is  *)
(* what the answers make of a new one, while nobody was overtaken.         *)
CopiesAreCurrent ==
  /\ guild_row = None => intended = NewRow
  /\ \A h \in Handlers : seen[h] <= saves
  /\ \A h \in Handlers :
       stage[h] = "answer" /\ seen[h] = saves => config[h] = guild_row

(* The types, and that a handler under way has the row in its hands. *)
ConfigInv == ConfigTypeOK /\ Prepared
(* The answers stand when the copies in use are the row as it is. *)
AnswersInv == ConfigInv /\ CopiesAreCurrent /\ AnswersStand
-----------------------------------------------------------------------------
(* A row with every default, and a row with one setting changed, is a row. *)
LEMMA NewRowIsRow == NewRow \in GuildRow
  BY UserConfigAssumption DEF NewRow, GuildRow

(* The answers of a kind keep the row a row. *)
LEMMA SetChannelIsRow ==
  ASSUME NEW cfg \in GuildRow, NEW id \in ChannelSettings, NEW c \in Channels
  PROVE  SetChannel(cfg, id, c) \in GuildRow
<1> DEFINE set == [cfg EXCEPT !.channel[id] = c]
<1>1. c # None
  BY GuildConfigAssumption
<1>2. set \in GuildRow
  BY DEF GuildRow
<1>3. CASE id = "log_channel_id"
  BY <1>1, <1>2, <1>3 DEF SetChannel, GuildRow
<1>4. CASE id = "queued_suggestion_channel_id"
  BY <1>1, <1>2, <1>4 DEF SetChannel, GuildRow
<1>5. CASE id \notin {"log_channel_id", "queued_suggestion_channel_id"}
  BY <1>1, <1>2, <1>5 DEF SetChannel
<1> QED
  BY <1>3, <1>4, <1>5

LEMMA SetQueueIsRow ==
  ASSUME NEW cfg \in GuildRow, NEW v \in {"none", "virtual", "channel"}
  PROVE  SetQueue(cfg, v) \in GuildRow
<1>1. CASE v = "none"
  BY <1>1 DEF SetQueue, GuildRow
<1>2. CASE v = "virtual"
  <2>1. [cfg EXCEPT !.channel["queued_suggestion_channel_id"] = None] \in GuildRow
    BY DEF GuildRow, ChannelSettings
  <2> QED
    BY <1>2, <2>1 DEF SetQueue, GuildRow
<1>3. CASE v = "channel"
  BY <1>3 DEF SetQueue
<1> QED
  BY <1>1, <1>2, <1>3

LEMMA SetBoolIsRow ==
  ASSUME NEW cfg \in GuildRow,
         NEW id \in BoolSettings \cup {"generic_dm_messages_disabled"}, NEW v
  PROVE  SetBool(cfg, id, v) \in GuildRow
<1>1. CASE id = "generic_dm_messages_disabled"
  BY <1>1 DEF SetBool, GuildRow
<1>2. CASE id # "generic_dm_messages_disabled"
  <2>1. (v = "yes") \in BOOLEAN
    OBVIOUS
  <2>2. [cfg.bool EXCEPT ![id] = (v = "yes")] \in [BoolSettings -> BOOLEAN]
    BY <2>1 DEF GuildRow
  <2> QED
    BY <1>2, <2>2 DEF SetBool, GuildRow
<1> QED
  BY <1>1, <1>2

(* What an answer that is saved does to a row, menu by menu. *)
LEMMA AnsweredCases ==
  ASSUME NEW cfg, NEW other, NEW a \in Answers, ~OnlyAnswers(other, a)
  PROVE  \/ \E id \in ChannelSettings, c \in Channels :
              Answered(cfg, a) = SetChannel(cfg, id, c)
         \/ \E id \in BoolSettings \cup {"generic_dm_messages_disabled"}, v \in {"yes", "no"} :
              Answered(cfg, a) = SetBool(cfg, id, v)
         \/ \E l \in Languages : Answered(cfg, a) = [cfg EXCEPT !.primary_language_raw = l]
         \/ \E v \in {"same_channel", "dedicated_channel"} : Answered(cfg, a) = SetLog(cfg, v)
         \/ \E v \in {"none", "virtual", "channel"} : Answered(cfg, a) = SetQueue(cfg, v)
         \/ \E u \in Authors : Answered(cfg, a) \in {Block(cfg, u), Unblock(cfg, u)}
<1> DEFINE Others == {"primary_language", "log_channel", "suggestions_queue", "block",
                      "unblock", "send_suggestions_button", "view"}
           Bools == BoolSettings \cup {"generic_dm_messages_disabled"}
<1>1. ASSUME NEW id \in ChannelSettings, NEW c \in Channels, a = Chosen(id, c)
      PROVE  Answered(cfg, a) = SetChannel(cfg, id, c)
  <2>1. a.menu = id /\ a.value = c /\ id \notin Bools
    BY <1>1, GuildConfigAssumption DEF Chosen, ChannelSettings, AllBoolSettings
  <2>2. id \notin Others
    BY DEF ChannelSettings
  <2> QED
    BY <2>1, <2>2 DEF Answered
<1>2. a # Chosen("update_channel_id", None)
  BY DEF OnlyAnswers, Chosen
<1>3. ASSUME NEW id \in Bools, NEW v \in {"yes", "no"}, a = Chosen(id, v)
      PROVE  Answered(cfg, a) = SetBool(cfg, id, v)
  <2>1. a.menu = id /\ a.value = v /\ id \notin ChannelSettings
    BY <1>3, GuildConfigAssumption DEF Chosen, ChannelSettings, AllBoolSettings
  <2>2. id \notin Others
    BY GuildConfigAssumption DEF AllBoolSettings
  <2> QED
    BY <2>1, <2>2 DEF Answered
<1>4. \A id \in ChannelSettings \cup Bools : id \notin Others
  BY GuildConfigAssumption DEF ChannelSettings, AllBoolSettings
<1>5. ASSUME NEW l \in Languages, a = Chosen("primary_language", l)
      PROVE  Answered(cfg, a) = [cfg EXCEPT !.primary_language_raw = l]
  BY <1>4, <1>5 DEF Answered, Chosen
<1>6. ASSUME NEW v \in {"same_channel", "dedicated_channel"}, a = Chosen("log_channel", v)
      PROVE  Answered(cfg, a) = SetLog(cfg, v)
  BY <1>4, <1>6 DEF Answered, Chosen
<1>7. ASSUME NEW v \in {"none", "virtual", "channel"}, a = Chosen("suggestions_queue", v)
      PROVE  Answered(cfg, a) = SetQueue(cfg, v)
  BY <1>4, <1>7 DEF Answered, Chosen
<1>8. ASSUME NEW u \in Authors, a = Chosen("block", u)
      PROVE  Answered(cfg, a) = Block(cfg, u)
  BY <1>4, <1>8 DEF Answered, Chosen
<1>9. ASSUME NEW u \in Authors, a = Chosen("unblock", u)
      PROVE  Answered(cfg, a) = Unblock(cfg, u)
  BY <1>4, <1>9 DEF Answered, Chosen
<1>10. a.menu \notin {"send_suggestions_button", "view"}
  BY DEF OnlyAnswers
<1> QED
  BY <1>1, <1>2, <1>3, <1>5, <1>6, <1>7, <1>8, <1>9, <1>10
     DEF Answers, SettingAnswers, ViewAnswers, BlocklistAnswers, Chosen

(* What a handler saves is a row.  (That an answer is saved depends on the *)
(* handler's own copy, "other" here.)                                      *)
LEMMA AnsweredIsRow ==
  ASSUME NEW cfg \in GuildRow, NEW other, NEW a \in Answers, ~OnlyAnswers(other, a)
  PROVE  Answered(cfg, a) \in GuildRow
<1>1. ASSUME NEW l \in Languages
      PROVE  [cfg EXCEPT !.primary_language_raw = l] \in GuildRow
  BY DEF GuildRow
<1>2. ASSUME NEW v
      PROVE  SetLog(cfg, v) \in GuildRow
  BY DEF SetLog, GuildRow
<1>3. ASSUME NEW u \in Authors
      PROVE  Block(cfg, u) \in GuildRow /\ Unblock(cfg, u) \in GuildRow
  BY DEF Block, Unblock, GuildRow
<1> QED
  BY AnsweredCases, SetChannelIsRow, SetBoolIsRow, SetQueueIsRow, <1>1, <1>2, <1>3

(* The missing row is none of the rows. *)
LEMMA NoneIsNoRow == None \notin GuildRow
  BY GuildConfigAssumption
-----------------------------------------------------------------------------
(* Returning leaves the other handlers as they are, and this one idle. *)
LEMMA ReturnKeeps ==
  ASSUME ConfigInv, NEW h \in Handlers, Return(h)
  PROVE  /\ stage' \in [Handlers -> Stages]
         /\ answer' \in [Handlers -> Answers \cup {None}]
         /\ config' \in [Handlers -> GuildRow \cup {None}]
         /\ seen' \in [Handlers -> Nat]
         /\ stage'[h] = "idle" /\ seen'[h] = 0
         /\ \A i \in Handlers \ {h} :
              /\ stage'[i] = stage[i] /\ answer'[i] = answer[i]
              /\ config'[i] = config[i] /\ seen'[i] = seen[i]
  BY DEF ConfigInv, ConfigTypeOK, Return, Move, Stages

(* No handler has begun. *)
LEMMA ConfigInitially == ConfigInit => ConfigInv
<1> SUFFICES ASSUME ConfigInit PROVE ConfigInv
  OBVIOUS
<1>1. intended \in GuildRow
  BY NewRowIsRow DEF ConfigInit
<1>2. /\ stage \in [Handlers -> Stages] /\ answer \in [Handlers -> Answers \cup {None}]
      /\ config \in [Handlers -> GuildRow \cup {None}] /\ seen \in [Handlers -> Nat]
  BY DEF ConfigInit, Stages
<1>3. Prepared
  BY DEF ConfigInit, Prepared
<1> QED
  BY <1>1, <1>2, <1>3 DEF ConfigInit, ConfigInv, ConfigTypeOK

(* One case per action. *)
LEMMA ConfigStep == ConfigInv /\ [ConfigNext]_configVars => ConfigInv'
<1> SUFFICES ASSUME ConfigInv, [ConfigNext]_configVars
             PROVE  ConfigInv'
  OBVIOUS
<1> USE DEF ConfigInv
<1>1. ASSUME NEW h \in Handlers, NEW a \in Answers, EnsurePremium(h, a)
      PROVE  ConfigInv'
  BY <1>1 DEF EnsurePremium, ConfigTypeOK, Prepared, Move, Stages, configHistory
<1>2. ASSUME NEW h \in Handlers, EnsureGuild(h)
      PROVE  ConfigInv'
  BY <1>2, NewRowIsRow, NoneIsNoRow
     DEF EnsureGuild, ConfigTypeOK, Prepared, Move, Stages, configHistory
<1>3. ASSUME NEW h \in Handlers, FetchGuild(h)
      PROVE  ConfigInv'
  BY <1>3, NoneIsNoRow DEF FetchGuild, ConfigTypeOK, Prepared, Move, Stages
<1>4. ASSUME NEW h \in Handlers, SaveAnswer(h)
      PROVE  ConfigInv'
  <2>1. config[h] \in GuildRow /\ answer[h] \in Answers
    BY <1>4 DEF SaveAnswer, Prepared
  <2>2. guild_row' \in GuildRow
    BY <1>4, <2>1, AnsweredIsRow DEF SaveAnswer
  <2>3. intended' \in GuildRow
    BY <1>4, <2>1, AnsweredIsRow DEF SaveAnswer, ConfigTypeOK
  <2>4. Return(h) /\ premium_row' = premium_row /\ saves' \in Nat /\ overtaken' \in BOOLEAN
    BY <1>4 DEF SaveAnswer, ConfigTypeOK
  <2> QED
    BY <2>2, <2>3, <2>4, ReturnKeeps DEF ConfigTypeOK, Prepared
<1>5. ASSUME NEW h \in Handlers, OnlyRespond(h) \/ Abandon(h)
      PROVE  ConfigInv'
  <2>1. Return(h) /\ UNCHANGED <<premium_row, guild_row, saves, intended, overtaken>>
    BY <1>5 DEF OnlyRespond, Abandon
  <2> QED
    BY <2>1, ReturnKeeps DEF ConfigTypeOK, Prepared
<1>6. CASE UNCHANGED configVars
  BY <1>6 DEF configVars, configHistory, ConfigTypeOK, Prepared
<1> QED
  BY <1>1, <1>2, <1>3, <1>4, <1>5, <1>6 DEF ConfigNext

(* The settings' variables have their types: whatever was fetched before,  *)
(* what a handler saves is a row.                                          *)
THEOREM ConfigTypeCorrect == ConfigSpec => []ConfigTypeOK
<1>1. ConfigInv => ConfigTypeOK
  BY DEF ConfigInv
<1> QED
  BY ConfigInitially, ConfigStep, <1>1, PTL DEF ConfigSpec
-----------------------------------------------------------------------------
(* A queue that is a channel has one: every answer keeps this true. *)
LEMMA NewRowHasQueueChannel == HasQueueChannel(NewRow)
  BY DEF HasQueueChannel, NewRow

(* What is reachable by the menus stays reachable when a channel, the      *)
(* queue's kind or an answer is set.                                       *)
LEMMA SetChannelReaches ==
  ASSUME NEW cfg \in GuildRow, HasQueueChannel(cfg),
         NEW id \in ChannelSettings, NEW c \in Channels
  PROVE  HasQueueChannel(SetChannel(cfg, id, c))
<1> DEFINE set == [cfg EXCEPT !.channel[id] = c]
<1>1. c # None
  BY GuildConfigAssumption
<1>2. /\ set \in GuildRow
      /\ set.uses_suggestion_queue = cfg.uses_suggestion_queue
      /\ set.virtual_suggestions_queue = cfg.virtual_suggestions_queue
      /\ set.channel["queued_suggestion_channel_id"]
           \in {cfg.channel["queued_suggestion_channel_id"], c}
      /\ id = "queued_suggestion_channel_id" =>
           set.channel["queued_suggestion_channel_id"] = c
  BY DEF GuildRow, ChannelSettings
<1>3. CASE id = "log_channel_id"
  <2>1. SetChannel(cfg, id, c) = [set EXCEPT !.keep_logs = FALSE]
    BY <1>1, <1>3 DEF SetChannel
  <2> QED
    BY <1>1, <1>2, <2>1 DEF HasQueueChannel, GuildRow
<1>4. CASE id = "queued_suggestion_channel_id"
  <2>1. SetChannel(cfg, id, c) = [set EXCEPT !.uses_suggestion_queue = TRUE,
                                             !.virtual_suggestions_queue = FALSE]
    BY <1>1, <1>4 DEF SetChannel
  <2>2. SetChannel(cfg, id, c).channel = set.channel
    BY <1>2, <2>1 DEF GuildRow
  <2> QED
    BY <1>1, <1>2, <1>4, <2>2 DEF HasQueueChannel
<1>5. CASE id \notin {"log_channel_id", "queued_suggestion_channel_id"}
  <2>1. SetChannel(cfg, id, c) = set
    BY <1>1, <1>5 DEF SetChannel
  <2> QED
    BY <1>1, <1>2, <2>1 DEF HasQueueChannel
<1> QED
  BY <1>3, <1>4, <1>5

LEMMA SetQueueReaches ==
  ASSUME NEW cfg \in GuildRow, HasQueueChannel(cfg),
         NEW v \in {"none", "virtual", "channel"}
  PROVE  HasQueueChannel(SetQueue(cfg, v))
<1>1. CASE v = "none"
  BY <1>1 DEF SetQueue, GuildRow, HasQueueChannel
<1>2. CASE v = "virtual"
  <2>1. SetQueue(cfg, v).virtual_suggestions_queue = TRUE
    BY <1>2 DEF SetQueue, GuildRow
  <2> QED
    BY <2>1 DEF HasQueueChannel
<1>3. CASE v = "channel"
  BY <1>3 DEF SetQueue
<1> QED
  BY <1>1, <1>2, <1>3

LEMMA AnsweredReaches ==
  ASSUME NEW cfg \in GuildRow, HasQueueChannel(cfg),
         NEW a \in Answers, ~OnlyAnswers(cfg, a)
  PROVE  HasQueueChannel(Answered(cfg, a))
<1>1. ASSUME NEW id \in BoolSettings \cup {"generic_dm_messages_disabled"}, NEW v
      PROVE  HasQueueChannel(SetBool(cfg, id, v))
  <2> DEFINE r == SetBool(cfg, id, v)
  <2>1. /\ r.uses_suggestion_queue = cfg.uses_suggestion_queue
        /\ r.virtual_suggestions_queue = cfg.virtual_suggestions_queue
        /\ r.channel = cfg.channel
    BY DEF SetBool, GuildRow
  <2> QED
    BY <2>1 DEF HasQueueChannel
<1>2. ASSUME NEW l \in Languages
      PROVE  HasQueueChannel([cfg EXCEPT !.primary_language_raw = l])
  BY DEF HasQueueChannel, GuildRow
<1>3. ASSUME NEW v
      PROVE  HasQueueChannel(SetLog(cfg, v))
  BY DEF SetLog, HasQueueChannel, GuildRow
<1>4. ASSUME NEW u \in Authors
      PROVE  HasQueueChannel(Block(cfg, u)) /\ HasQueueChannel(Unblock(cfg, u))
  BY DEF Block, Unblock, HasQueueChannel, GuildRow
<1> QED
  BY AnsweredCases, SetChannelReaches, SetQueueReaches, <1>1, <1>2, <1>3, <1>4

(* So every save writes a reachable row. *)
LEMMA ReachableStep ==
  ConfigInv /\ QueueIsReachable /\ [ConfigNext]_configVars => QueueIsReachable'
<1> SUFFICES ASSUME ConfigInv, QueueIsReachable, [ConfigNext]_configVars
             PROVE  QueueIsReachable'
  OBVIOUS
<1>1. ASSUME NEW h \in Handlers, NEW a \in Answers, EnsurePremium(h, a)
      PROVE  QueueIsReachable'
  BY <1>1 DEF EnsurePremium, QueueIsReachable
<1>2. ASSUME NEW h \in Handlers, EnsureGuild(h)
      PROVE  QueueIsReachable'
  <2>1. guild_row' \in {guild_row, NewRow} /\ config' = config
    BY <1>2 DEF EnsureGuild
  <2> QED
    BY <1>2, <2>1, NewRowHasQueueChannel DEF EnsureGuild, QueueIsReachable
<1>3. ASSUME NEW h \in Handlers, FetchGuild(h)
      PROVE  QueueIsReachable'
  BY <1>3 DEF FetchGuild, QueueIsReachable, ConfigInv, ConfigTypeOK
<1>4. ASSUME NEW h \in Handlers, Return(h)
      PROVE  \A i \in Handlers : config'[i] # None => HasQueueChannel(config'[i])
  BY <1>4 DEF Return, QueueIsReachable, ConfigInv, ConfigTypeOK
<1>5. ASSUME NEW h \in Handlers, SaveAnswer(h)
      PROVE  QueueIsReachable'
  <2>1. config[h] \in GuildRow /\ answer[h] \in Answers
    BY <1>5 DEF SaveAnswer, ConfigInv, Prepared
  <2>2. HasQueueChannel(config[h])
    BY <2>1, NoneIsNoRow DEF QueueIsReachable
  <2>3. HasQueueChannel(guild_row')
    BY <1>5, <2>1, <2>2, AnsweredReaches DEF SaveAnswer
  <2> QED
    BY <1>4, <1>5, <2>3 DEF SaveAnswer, QueueIsReachable
<1>6. ASSUME NEW h \in Handlers, OnlyRespond(h) \/ Abandon(h)
      PROVE  QueueIsReachable'
  <2>1. Return(h) /\ guild_row' = guild_row
    BY <1>6 DEF OnlyRespond, Abandon
  <2> QED
    BY <1>4, <2>1 DEF QueueIsReachable
<1>7. CASE UNCHANGED configVars
  BY <1>7 DEF configVars, QueueIsReachable
<1> QED
  BY <1>1, <1>2, <1>3, <1>5, <1>6, <1>7 DEF ConfigNext

(* However many moderators answer menus at once and in whatever order,     *)
(* neither the row nor a copy has a queue that is a channel without one.   *)
THEOREM QueueStaysReachable == ConfigSpec => []QueueIsReachable
<1>1. ConfigInit => QueueIsReachable
  BY DEF ConfigInit, QueueIsReachable
<1> QED
  BY ConfigInitially, ConfigStep, ReachableStep, <1>1, PTL DEF ConfigSpec
-----------------------------------------------------------------------------
(* Nothing is answered yet. *)
LEMMA AnswersInitially == ConfigInit => AnswersInv
  BY ConfigInitially DEF ConfigInit, AnswersInv, CopiesAreCurrent, AnswersStand

(* A save writes the copy it was answered on, which is current. *)
LEMMA AnswersStep == AnswersInv /\ [ConfigNext]_configVars => AnswersInv'
<1> SUFFICES ASSUME AnswersInv, [ConfigNext]_configVars
             PROVE  AnswersInv'
  OBVIOUS
<1>1. ConfigInv /\ ConfigInv' /\ CopiesAreCurrent /\ AnswersStand
  BY ConfigStep DEF AnswersInv
<1> SUFFICES CopiesAreCurrent' /\ AnswersStand'
  BY <1>1 DEF AnswersInv
<1> USE <1>1
<1>2. /\ saves \in Nat /\ seen \in [Handlers -> Nat] /\ guild_row \in GuildRow \cup {None}
      /\ stage \in [Handlers -> Stages] /\ config \in [Handlers -> GuildRow \cup {None}]
  BY DEF ConfigInv, ConfigTypeOK
<1>3. ASSUME NEW h \in Handlers, NEW a \in Answers, EnsurePremium(h, a)
      PROVE  CopiesAreCurrent' /\ AnswersStand'
  BY <1>2, <1>3
     DEF EnsurePremium, Move, configHistory, CopiesAreCurrent, AnswersStand, Stages
<1>4. ASSUME NEW h \in Handlers, EnsureGuild(h)
      PROVE  CopiesAreCurrent' /\ AnswersStand'
  <2>1. \A i \in Handlers : stage'[i] = "answer" => stage[i] = "answer"
    BY <1>2, <1>4 DEF EnsureGuild, Move
  <2>2. CASE guild_row = None
    <3>1. guild_row' = NewRow /\ intended' = NewRow /\ seen' = seen /\ saves' = saves
      BY <1>4, <2>2 DEF EnsureGuild, configHistory, CopiesAreCurrent
    <3>2. \A i \in Handlers : stage[i] # "answer"
      BY <2>2, NoneIsNoRow DEF ConfigInv, Prepared
    <3> QED
      BY <2>1, <3>1, <3>2 DEF CopiesAreCurrent, AnswersStand
  <2>3. CASE guild_row # None
    BY <1>4, <2>1, <2>3 DEF EnsureGuild, configHistory, CopiesAreCurrent, AnswersStand
  <2> QED
    BY <2>2, <2>3
<1>5. ASSUME NEW h \in Handlers, FetchGuild(h)
      PROVE  CopiesAreCurrent' /\ AnswersStand'
  BY <1>2, <1>5 DEF FetchGuild, Move, CopiesAreCurrent, AnswersStand, Stages
<1>6. ASSUME NEW h \in Handlers, SaveAnswer(h)
      PROVE  CopiesAreCurrent' /\ AnswersStand'
  <2>1. Return(h) /\ saves' = saves + 1 /\ stage[h] = "answer"
    BY <1>6 DEF SaveAnswer
  <2>2. guild_row \in GuildRow /\ guild_row' \in GuildRow
    <3>1. config[h] \in GuildRow /\ answer[h] \in Answers /\ guild_row \in GuildRow
      BY <2>1 DEF ConfigInv, Prepared
    <3> QED
      BY <1>6, <3>1, AnsweredIsRow DEF SaveAnswer
  <2>3. \A i \in Handlers : seen'[i] <= saves' /\ (stage'[i] = "answer" => seen'[i] # saves')
    <3>1. stage'[h] = "idle" /\ seen'[h] = 0
      BY <2>1, ReturnKeeps
    <3>2. \A i \in Handlers \ {h} : seen'[i] = seen[i] /\ seen[i] <= saves
      BY <2>1, ReturnKeeps DEF CopiesAreCurrent
    <3> QED
      BY <1>2, <2>1, <3>1, <3>2
  <2>4. ~overtaken' => guild_row' = intended'
    <3> SUFFICES ASSUME ~overtaken'
                 PROVE  guild_row' = intended'
      OBVIOUS
    <3>1. ~overtaken /\ seen[h] = saves
      BY <1>6 DEF SaveAnswer
    <3>2. config[h] = guild_row /\ guild_row = intended
      BY <2>1, <2>2, <3>1, NoneIsNoRow DEF CopiesAreCurrent, AnswersStand
    <3> QED
      BY <1>6, <3>2 DEF SaveAnswer
  <2> QED
    BY <2>2, <2>3, <2>4, NoneIsNoRow DEF CopiesAreCurrent, AnswersStand
<1>7. ASSUME NEW h \in Handlers, OnlyRespond(h) \/ Abandon(h)
      PROVE  CopiesAreCurrent' /\ AnswersStand'
  <2>1. Return(h) /\ UNCHANGED <<premium_row, guild_row, saves, intended, overtaken>>
    BY <1>7 DEF OnlyRespond, Abandon
  <2>2. /\ stage'[h] = "idle" /\ seen'[h] = 0
        /\ \A i \in Handlers \ {h} :
             stage'[i] = stage[i] /\ config'[i] = config[i] /\ seen'[i] = seen[i]
    BY <2>1, ReturnKeeps
  <2> QED
    BY <1>2, <2>1, <2>2 DEF CopiesAreCurrent, AnswersStand
<1>8. CASE UNCHANGED configVars
  BY <1>8 DEF configVars, configHistory, CopiesAreCurrent, AnswersStand
<1> QED
  BY <1>3, <1>4, <1>5, <1>6, <1>7, <1>8 DEF ConfigNext

(* Unless a handler saved a copy that another had outdated, every answer   *)
(* stands: overlapping inserts, views and handlers that broke off take     *)
(* nothing back.                                                           *)
THEOREM AnswersStandThroughout == ConfigSpec => []AnswersStand
<1>1. AnswersInv => AnswersStand
  BY DEF AnswersInv
<1> QED
  BY AnswersInitially, AnswersStep, <1>1, PTL DEF ConfigSpec
-----------------------------------------------------------------------------
(* The menus that are chosen from again. *)

(* A row whose queue was made virtual has no channel for it any more, so   *)
(* that the answer "virtual", which takes the channel away, changes        *)
(* nothing a second time.                                                  *)
VirtualHasNoChannel(cfg) ==
  cfg.virtual_suggestions_queue => cfg.channel["queued_suggestion_channel_id"] = None

(* So it is in the table, and in every copy a menu is answered on. *)
VirtualInv ==
  /\ guild_row # None => VirtualHasNoChannel(guild_row)
  /\ \A h \in Handlers : config[h] # None => VirtualHasNoChannel(config[h])

(* An answer of the user that is under way is one of the menus', and what  *)
(* is saved is made of a copy of the row.                                  *)
UserInv ==
  /\ UserTypeOK
  /\ \A i \in Devices : user_stage[i] # "idle" => user_answer[i] \in UserAnswers /\ user_row # None
  /\ \A i \in Devices : user_stage[i] = "save" => user_config[i] \in UserRow
-----------------------------------------------------------------------------
(* What each answer of the menus does to a row. *)
LEMMA AnsweredBy ==
  ASSUME NEW cfg
  PROVE  /\ \A id \in BoolSettings \cup {"generic_dm_messages_disabled"}, v \in {"yes", "no"} :
              Answered(cfg, Chosen(id, v)) = SetBool(cfg, id, v)
         /\ \A l \in Languages : Answered(cfg, Chosen("primary_language", l))
                                   = [cfg EXCEPT !.primary_language_raw = l]
         /\ \A v \in {"same_channel", "dedicated_channel"} :
              Answered(cfg, Chosen("log_channel", v)) = SetLog(cfg, v)
         /\ \A v \in {"none", "virtual", "channel"} :
              Answered(cfg, Chosen("suggestions_queue", v)) = SetQueue(cfg, v)
<1> DEFINE Others == {"primary_language", "log_channel", "suggestions_queue", "block",
                      "unblock", "send_suggestions_button", "view"}
           Bools == BoolSettings \cup {"generic_dm_messages_disabled"}
<1>1. ASSUME NEW id \in Bools, NEW v \in {"yes", "no"}
      PROVE  Answered(cfg, Chosen(id, v)) = SetBool(cfg, id, v)
  <2>1. id \notin ChannelSettings /\ id \notin Others
    BY GuildConfigAssumption DEF ChannelSettings, AllBoolSettings
  <2> QED
    BY <2>1 DEF Answered, Chosen
<1>2. \A id \in ChannelSettings \cup Bools : id \notin Others
  BY GuildConfigAssumption DEF ChannelSettings, AllBoolSettings
<1>3. ASSUME NEW l \in Languages
      PROVE  Answered(cfg, Chosen("primary_language", l))
               = [cfg EXCEPT !.primary_language_raw = l]
  BY <1>2 DEF Answered, Chosen
<1>4. ASSUME NEW v \in {"same_channel", "dedicated_channel"}
      PROVE  Answered(cfg, Chosen("log_channel", v)) = SetLog(cfg, v)
  BY <1>2 DEF Answered, Chosen
<1>5. ASSUME NEW v \in {"none", "virtual", "channel"}
      PROVE  Answered(cfg, Chosen("suggestions_queue", v)) = SetQueue(cfg, v)
  BY <1>2 DEF Answered, Chosen
<1> QED
  BY <1>1, <1>3, <1>4, <1>5

(* Choosing what a menu shows as chosen changes nothing. *)
Stable(cfg, m) ==
  \A o, p \in m.options :
    o.is_default => /\ p.is_default => p = o
                    /\ Answered(cfg, Chosen(m.menu, o.value)) = cfg

(* Each menu shows as chosen what, chosen again, leaves the row as it is.  *)
(* Of a channel, of a question and of the language this follows from what  *)
(* the menu shows; of the queue it needs the row above.                    *)
LEMMA ChannelMenuStable ==
  ASSUME NEW cfg, NEW id
  PROVE  Stable(cfg, ChannelMenu(id))
<1>1. ChannelMenu(id).options = {Option(c, FALSE) : c \in Channels}
  BY DEF ChannelMenu, Select
<1>2. \A o \in ChannelMenu(id).options : ~o.is_default
  BY <1>1 DEF Option
<1> QED
  BY <1>2 DEF Stable

LEMMA YesNoStable ==
  ASSUME NEW cfg, NEW id, NEW is \in BOOLEAN,
         is => Answered(cfg, Chosen(id, "yes")) = cfg,
         ~is => Answered(cfg, Chosen(id, "no")) = cfg
  PROVE  Stable(cfg, YesNo(id, is))
<1>1. /\ YesNo(id, is).menu = id
      /\ YesNo(id, is).options = {Option("yes", is), Option("no", ~is)}
  BY DEF YesNo, Select
<1>2. /\ Option("yes", is).is_default = is /\ Option("no", ~is).is_default = ~is
      /\ Option("yes", is).value = "yes" /\ Option("no", ~is).value = "no"
  BY DEF Option
<1> QED
  BY <1>1, <1>2 DEF Stable

LEMMA LanguageMenuStable ==
  ASSUME NEW cfg \in GuildRow
  PROVE  Stable(cfg, LanguageMenu(cfg))
<1>1. /\ LanguageMenu(cfg).menu = "primary_language"
      /\ LanguageMenu(cfg).options
           = {Option(l, cfg.primary_language_raw = l) : l \in Languages}
  BY DEF LanguageMenu, Select
<1>2. ASSUME NEW o \in LanguageMenu(cfg).options, o.is_default
      PROVE  /\ o.value = cfg.primary_language_raw /\ o = Option(cfg.primary_language_raw, TRUE)
             /\ o.value \in Languages
  <2>1. PICK l \in Languages : o = Option(l, cfg.primary_language_raw = l)
    BY <1>1
  <2>2. cfg.primary_language_raw = l
    BY <1>2, <2>1 DEF Option
  <2> QED
    BY <2>1, <2>2 DEF Option
<1>3. [cfg EXCEPT !.primary_language_raw = cfg.primary_language_raw] = cfg
  BY DEF GuildRow
<1>4. ASSUME NEW o \in LanguageMenu(cfg).options, o.is_default
      PROVE  Answered(cfg, Chosen("primary_language", o.value)) = cfg
  <2>1. Answered(cfg, Chosen("primary_language", o.value))
          = [cfg EXCEPT !.primary_language_raw = o.value]
    BY <1>2, <1>4, AnsweredBy
  <2> QED
    BY <1>2, <1>3, <1>4, <2>1
<1>5. ASSUME NEW o \in LanguageMenu(cfg).options, NEW q \in LanguageMenu(cfg).options,
             o.is_default, q.is_default
      PROVE  q = o
  BY <1>2, <1>5
<1> QED
  BY <1>1, <1>4, <1>5 DEF Stable

LEMMA QueueMenuStable ==
  ASSUME NEW cfg \in GuildRow, VirtualHasNoChannel(cfg)
  PROVE  Stable(cfg, QueueMenu(cfg))
<1> DEFINE uses == cfg.uses_suggestion_queue
           virtual == cfg.virtual_suggestions_queue
<1>1. uses \in BOOLEAN /\ virtual \in BOOLEAN
  BY DEF GuildRow
<1>2. /\ QueueMenu(cfg).menu = "suggestions_queue"
      /\ QueueMenu(cfg).options = {Option("none", ~uses), Option("virtual", uses /\ virtual),
                                   Option("channel", uses /\ ~virtual)}
  BY DEF QueueMenu, Select
<1>3. /\ Option("none", ~uses).is_default = ~uses
      /\ Option("virtual", uses /\ virtual).is_default = (uses /\ virtual)
      /\ Option("channel", uses /\ ~virtual).is_default = (uses /\ ~virtual)
      /\ Option("none", ~uses).value = "none"
      /\ Option("virtual", uses /\ virtual).value = "virtual"
      /\ Option("channel", uses /\ ~virtual).value = "channel"
  BY DEF Option
<1>4. ~uses => SetQueue(cfg, "none") = cfg
  BY DEF SetQueue, GuildRow
<1>5. uses /\ virtual => SetQueue(cfg, "virtual") = cfg
  <2> HAVE uses /\ virtual
  <2>1. cfg.channel["queued_suggestion_channel_id"] = None
    BY DEF VirtualHasNoChannel
  <2>2. [cfg.channel EXCEPT !["queued_suggestion_channel_id"] = None] = cfg.channel
    BY <2>1 DEF GuildRow
  <2>3. SetQueue(cfg, "virtual")
          = [cfg EXCEPT !.uses_suggestion_queue = TRUE,
                        !.virtual_suggestions_queue = TRUE,
                        !.channel["queued_suggestion_channel_id"] = None]
    BY DEF SetQueue
  <2>4. SetQueue(cfg, "virtual")
          = [cfg EXCEPT !.uses_suggestion_queue = TRUE,
                        !.virtual_suggestions_queue = TRUE,
                        !.channel = cfg.channel]
    BY <2>2, <2>3 DEF GuildRow
  <2> QED
    BY <2>4 DEF GuildRow
<1>6. SetQueue(cfg, "channel") = cfg
  BY DEF SetQueue
<1>7. \A o \in QueueMenu(cfg).options : o.is_default =>
        /\ Answered(cfg, Chosen("suggestions_queue", o.value)) = cfg
        /\ o = IF ~uses THEN Option("none", ~uses)
               ELSE IF virtual THEN Option("virtual", uses /\ virtual)
               ELSE Option("channel", uses /\ ~virtual)
  <2> TAKE o \in QueueMenu(cfg).options
  <2> HAVE o.is_default
  <2>1. CASE o = Option("none", ~uses)
    BY <1>1, <1>3, <1>4, <2>1, AnsweredBy
  <2>2. CASE o = Option("virtual", uses /\ virtual)
    BY <1>1, <1>3, <1>5, <2>2, AnsweredBy
  <2>3. CASE o = Option("channel", uses /\ ~virtual)
    BY <1>1, <1>3, <1>6, <2>3, AnsweredBy
  <2> QED
    BY <1>2, <2>1, <2>2, <2>3
<1> QED
  BY <1>2, <1>7 DEF Stable

LEMMA LogMenuStable ==
  ASSUME NEW cfg \in GuildRow
  PROVE  Stable(cfg, LogMenu(cfg))
<1> DEFINE keep == cfg.keep_logs
           dedicated == ~keep /\ cfg.channel["log_channel_id"] # None
<1>1. keep \in BOOLEAN
  BY DEF GuildRow
<1>2. /\ LogMenu(cfg).menu = "log_channel"
      /\ LogMenu(cfg).options = {Option("same_channel", keep),
                                 Option("dedicated_channel", dedicated)}
  BY DEF LogMenu, Select
<1>3. /\ Option("same_channel", keep).is_default = keep
      /\ Option("dedicated_channel", dedicated).is_default = dedicated
      /\ Option("same_channel", keep).value = "same_channel"
      /\ Option("dedicated_channel", dedicated).value = "dedicated_channel"
  BY DEF Option
<1>4. keep => SetLog(cfg, "same_channel") = cfg
  BY DEF SetLog, GuildRow
<1>5. SetLog(cfg, "dedicated_channel") = cfg
  BY DEF SetLog
<1>6. /\ Answered(cfg, Chosen("log_channel", "same_channel")) = SetLog(cfg, "same_channel")
      /\ Answered(cfg, Chosen("log_channel", "dedicated_channel")) = SetLog(cfg, "dedicated_channel")
  BY AnsweredBy
<1> HIDE DEF keep, dedicated
<1>7. ~(keep /\ dedicated)
  BY DEF keep, dedicated
<1> QED
  BY <1>1, <1>2, <1>3, <1>4, <1>5, <1>6, <1>7 DEF Stable

(* So do all the menus of a configuration. *)
LEMMA MenusStable ==
  ASSUME NEW cfg \in GuildRow, VirtualHasNoChannel(cfg)
  PROVE  \A m \in Menus(cfg) : Stable(cfg, m)
<1>1. ASSUME NEW id \in BoolSettings
      PROVE  Stable(cfg, YesNo(id, cfg.bool[id]))
  <2>1. id # "generic_dm_messages_disabled"
    BY GuildConfigAssumption DEF AllBoolSettings
  <2>2. cfg.bool \in [BoolSettings -> BOOLEAN]
    BY DEF GuildRow
  <2>3. ASSUME NEW v, (v = "yes") = cfg.bool[id]
        PROVE  SetBool(cfg, id, v) = cfg
    <3>1. SetBool(cfg, id, v) = [cfg EXCEPT !.bool[id] = (v = "yes")]
      BY <2>1 DEF SetBool
    <3>2. [cfg.bool EXCEPT ![id] = cfg.bool[id]] = cfg.bool
      BY <2>2
    <3> QED
      BY <2>3, <3>1, <3>2 DEF GuildRow
  <2>4. /\ cfg.bool[id] => Answered(cfg, Chosen(id, "yes")) = cfg
        /\ ~cfg.bool[id] => Answered(cfg, Chosen(id, "no")) = cfg
    BY <2>2, <2>3, AnsweredBy
  <2> QED
    BY <2>2, <2>4, YesNoStable
<1>2. Stable(cfg, YesNo("generic_dm_messages_disabled", ~cfg.generic_dm_messages_disabled))
  <2>1. cfg.generic_dm_messages_disabled \in BOOLEAN
    BY DEF GuildRow
  <2>2. /\ cfg.generic_dm_messages_disabled =>
             SetBool(cfg, "generic_dm_messages_disabled", "no") = cfg
        /\ ~cfg.generic_dm_messages_disabled =>
             SetBool(cfg, "generic_dm_messages_disabled", "yes") = cfg
    BY <2>1 DEF SetBool, GuildRow
  <2>3. PICK is : is = ~cfg.generic_dm_messages_disabled
    OBVIOUS
  <2> QED
    BY <2>1, <2>2, <2>3, AnsweredBy, YesNoStable
<1>3. \A ids : \A m \in BoolMenus(cfg, ids) : Stable(cfg, m)
  BY <1>1 DEF BoolMenus
<1>4. \A m \in build_queue_components(cfg) \cup build_log_channel_components(cfg) : Stable(cfg, m)
  BY ChannelMenuStable DEF build_queue_components, build_log_channel_components
<1>5. \A m \in build_setup_components(cfg) : Stable(cfg, m)
  BY <1>3, ChannelMenuStable, QueueMenuStable DEF build_setup_components
<1>6. \A m \in build_base_components_page_1(cfg) : Stable(cfg, m)
  BY <1>3, ChannelMenuStable DEF build_base_components_page_1
<1>7. \A m \in build_base_components_page_2(cfg) : Stable(cfg, m)
  BY <1>2, <1>3, ChannelMenuStable, QueueMenuStable, LogMenuStable, LanguageMenuStable
     DEF build_base_components_page_2
<1> QED
  BY <1>4, <1>5, <1>6, <1>7 DEF Menus

-----------------------------------------------------------------------------
(* Every answer keeps a virtual queue without a channel. *)
LEMMA AnsweredHasNoChannel ==
  ASSUME NEW cfg \in GuildRow, VirtualHasNoChannel(cfg),
         NEW a \in Answers, ~OnlyAnswers(cfg, a)
  PROVE  VirtualHasNoChannel(Answered(cfg, a))
<1>1. ASSUME NEW id \in ChannelSettings, NEW c \in Channels
      PROVE  VirtualHasNoChannel(SetChannel(cfg, id, c))
  <2>1. PICK set : set = [cfg EXCEPT !.channel[id] = c]
    OBVIOUS
  <2>2. /\ set \in GuildRow
        /\ set.virtual_suggestions_queue = cfg.virtual_suggestions_queue
        /\ id # "queued_suggestion_channel_id" =>
             set.channel["queued_suggestion_channel_id"]
               = cfg.channel["queued_suggestion_channel_id"]
    BY <2>1 DEF GuildRow, ChannelSettings
  <2>3. c # None
    BY GuildConfigAssumption
  <2>4. CASE id = "log_channel_id"
    <3>1. SetChannel(cfg, id, c) = [set EXCEPT !.keep_logs = FALSE]
      BY <2>1, <2>3, <2>4 DEF SetChannel
    <3> QED
      BY <2>2, <2>4, <3>1 DEF VirtualHasNoChannel, GuildRow
  <2>5. CASE id = "queued_suggestion_channel_id"
    <3>1. SetChannel(cfg, id, c) = [set EXCEPT !.uses_suggestion_queue = TRUE,
                                               !.virtual_suggestions_queue = FALSE]
      BY <2>1, <2>3, <2>5 DEF SetChannel
    <3>2. SetChannel(cfg, id, c).virtual_suggestions_queue = FALSE
      BY <2>2, <3>1 DEF GuildRow
    <3> QED
      BY <3>2 DEF VirtualHasNoChannel
  <2>6. CASE id \notin {"log_channel_id", "queued_suggestion_channel_id"}
    <3>1. SetChannel(cfg, id, c) = set
      BY <2>1, <2>3, <2>6 DEF SetChannel
    <3> QED
      BY <2>2, <2>6, <3>1 DEF VirtualHasNoChannel
  <2> QED
    BY <2>4, <2>5, <2>6
<1>2. ASSUME NEW id \in BoolSettings \cup {"generic_dm_messages_disabled"}, NEW v
      PROVE  VirtualHasNoChannel(SetBool(cfg, id, v))
  <2>1. /\ SetBool(cfg, id, v).virtual_suggestions_queue = cfg.virtual_suggestions_queue
        /\ SetBool(cfg, id, v).channel = cfg.channel
    BY DEF SetBool, GuildRow
  <2> QED
    BY <2>1 DEF VirtualHasNoChannel
<1>3. ASSUME NEW l \in Languages
      PROVE  VirtualHasNoChannel([cfg EXCEPT !.primary_language_raw = l])
  BY DEF VirtualHasNoChannel, GuildRow
<1>4. ASSUME NEW v
      PROVE  VirtualHasNoChannel(SetLog(cfg, v))
  BY DEF SetLog, VirtualHasNoChannel, GuildRow
<1>5. ASSUME NEW v \in {"none", "virtual", "channel"}
      PROVE  VirtualHasNoChannel(SetQueue(cfg, v))
  <2>1. CASE v = "none"
    BY <2>1 DEF SetQueue, GuildRow, VirtualHasNoChannel
  <2>2. CASE v = "virtual"
    <3>1. SetQueue(cfg, v) = [cfg EXCEPT !.uses_suggestion_queue = TRUE,
                                !.virtual_suggestions_queue = TRUE,
                                !.channel["queued_suggestion_channel_id"] = None]
      BY <2>2 DEF SetQueue
    <3>2. SetQueue(cfg, v).channel
            = [cfg.channel EXCEPT !["queued_suggestion_channel_id"] = None]
      BY <3>1 DEF GuildRow
    <3>3. SetQueue(cfg, v).channel["queued_suggestion_channel_id"] = None
      BY <3>2 DEF GuildRow, ChannelSettings
    <3> QED
      BY <3>3 DEF VirtualHasNoChannel
  <2>3. CASE v = "channel"
    BY <2>3 DEF SetQueue
  <2> QED
    BY <2>1, <2>2, <2>3
<1>6. ASSUME NEW u \in Authors
      PROVE  VirtualHasNoChannel(Block(cfg, u)) /\ VirtualHasNoChannel(Unblock(cfg, u))
  BY DEF Block, Unblock, VirtualHasNoChannel, GuildRow
<1> QED
  BY AnsweredCases, <1>1, <1>2, <1>3, <1>4, <1>5, <1>6

(* The answer "virtual" takes the channel away, and only an answer that    *)
(* names a channel sets it, and makes the queue a channel.                 *)
LEMMA VirtualStep ==
  ConfigInv /\ VirtualInv /\ [ConfigNext]_configVars => VirtualInv'
<1> SUFFICES ASSUME ConfigInv, VirtualInv, [ConfigNext]_configVars
             PROVE  VirtualInv'
  OBVIOUS
<1>1. ASSUME NEW h \in Handlers, NEW a \in Answers, EnsurePremium(h, a)
      PROVE  VirtualInv'
  BY <1>1 DEF EnsurePremium, VirtualInv
<1>2. ASSUME NEW h \in Handlers, EnsureGuild(h)
      PROVE  VirtualInv'
  <2>1. guild_row' \in {guild_row, NewRow} /\ config' = config
    BY <1>2 DEF EnsureGuild
  <2>2. VirtualHasNoChannel(NewRow)
    BY DEF VirtualHasNoChannel, NewRow, ChannelSettings
  <2> QED
    BY <1>2, <2>1, <2>2 DEF EnsureGuild, VirtualInv
<1>3. ASSUME NEW h \in Handlers, FetchGuild(h)
      PROVE  VirtualInv'
  BY <1>3 DEF FetchGuild, VirtualInv, ConfigInv, ConfigTypeOK
<1>4. ASSUME NEW h \in Handlers, Return(h)
      PROVE  \A i \in Handlers : config'[i] # None => VirtualHasNoChannel(config'[i])
  BY <1>4 DEF Return, VirtualInv, ConfigInv, ConfigTypeOK
<1>5. ASSUME NEW h \in Handlers, SaveAnswer(h)
      PROVE  VirtualInv'
  <2>1. config[h] \in GuildRow /\ answer[h] \in Answers
    BY <1>5 DEF SaveAnswer, ConfigInv, Prepared
  <2>2. VirtualHasNoChannel(config[h])
    BY <2>1, NoneIsNoRow DEF VirtualInv
  <2>3. VirtualHasNoChannel(guild_row')
    BY <1>5, <2>1, <2>2, AnsweredHasNoChannel DEF SaveAnswer
  <2> QED
    BY <1>4, <1>5, <2>3 DEF SaveAnswer, VirtualInv
<1>6. ASSUME NEW h \in Handlers, OnlyRespond(h) \/ Abandon(h)
      PROVE  VirtualInv'
  <2>1. Return(h) /\ guild_row' = guild_row
    BY <1>6 DEF OnlyRespond, Abandon
  <2> QED
    BY <1>4, <2>1 DEF VirtualInv
<1>7. CASE UNCHANGED configVars
  BY <1>7 DEF configVars, VirtualInv
<1> QED
  BY <1>1, <1>2, <1>3, <1>5, <1>6, <1>7 DEF ConfigNext
-----------------------------------------------------------------------------
(* The user's menu. *)

(* The same for the menus of a user: what each answer sets. *)
LEMMA UserAnsweredBy ==
  ASSUME NEW cfg
  PROVE  /\ \A v : UserAnswered(cfg, Chosen("ping_on_thread_creation", v))
                     = [cfg EXCEPT !.ping_on_thread_creation = (v = "yes")]
         /\ \A v : UserAnswered(cfg, Chosen("generic_dm_messages_disabled", v))
                     = [cfg EXCEPT !.generic_dm_messages_disabled = (v = "no")]
         /\ \A l : UserAnswered(cfg, Chosen("primary_language", l))
                     = [cfg EXCEPT !.primary_language_raw = l]
  BY DEF UserAnswered, Chosen

(* The rows of the users stay rows. *)
LEMMA UserAnsweredIsRow ==
  ASSUME NEW cfg \in UserRow, NEW a \in UserAnswers
  PROVE  UserAnswered(cfg, a) \in UserRow
<1>1. \A v : /\ [cfg EXCEPT !.ping_on_thread_creation = (v = "yes")] \in UserRow
             /\ [cfg EXCEPT !.generic_dm_messages_disabled = (v = "no")] \in UserRow
  <2> TAKE v
  <2>1. (v = "yes") \in BOOLEAN /\ (v = "no") \in BOOLEAN
    OBVIOUS
  <2> QED
    BY <2>1 DEF UserRow
<1>2. \A l \in Languages : [cfg EXCEPT !.primary_language_raw = l] \in UserRow
  BY DEF UserRow
<1>3. \/ \E v : a \in {Chosen("ping_on_thread_creation", v), Chosen("generic_dm_messages_disabled", v)}
      \/ \E l \in Languages : a = Chosen("primary_language", l)
  BY DEF UserAnswers
<1>4. ASSUME NEW v, a \in {Chosen("ping_on_thread_creation", v),
                           Chosen("generic_dm_messages_disabled", v)}
      PROVE  UserAnswered(cfg, a) \in UserRow
  <2>1. CASE a = Chosen("ping_on_thread_creation", v)
    <3>1. UserAnswered(cfg, a) = [cfg EXCEPT !.ping_on_thread_creation = (v = "yes")]
      BY <2>1, UserAnsweredBy
    <3> QED
      BY <1>1, <3>1
  <2>2. CASE a = Chosen("generic_dm_messages_disabled", v)
    <3>1. UserAnswered(cfg, a) = [cfg EXCEPT !.generic_dm_messages_disabled = (v = "no")]
      BY <2>2, UserAnsweredBy
    <3> QED
      BY <1>1, <3>1
  <2> QED
    BY <1>4, <2>1, <2>2
<1>5. ASSUME NEW l \in Languages, a = Chosen("primary_language", l)
      PROVE  UserAnswered(cfg, a) \in UserRow
  <2>1. UserAnswered(cfg, a) = [cfg EXCEPT !.primary_language_raw = l]
    BY <1>5, UserAnsweredBy
  <2> QED
    BY <1>2, <2>1
<1> QED
  BY <1>3, <1>4, <1>5

LEMMA NewUserRowIsRow ==
  ASSUME NEW l \in Languages
  PROVE  NewUserRow(l) \in UserRow
  BY DEF NewUserRow, UserRow

LEMMA UserInvariant == UserSpec => []UserInv
<1>1. UserInit => UserInv
  BY DEF UserInit, UserInv, UserTypeOK
<1>2. UserInv /\ [UserNext]_userVars => UserInv'
  <2> SUFFICES ASSUME UserInv, [UserNext]_userVars
               PROVE  UserInv'
    OBVIOUS
  <2>1. DefaultLanguage \in Languages /\ None \notin UserRow
    BY UserConfigAssumption
  <2>2. ASSUME NEW l \in Languages, EnsureUser(l)
        PROVE  UserInv'
    BY <2>1, <2>2, NewUserRowIsRow DEF EnsureUser, UserInv, UserTypeOK
  <2>3. ASSUME NEW i \in Devices, NEW a \in UserAnswers, AnswerUserMenu(i, a)
        PROVE  UserInv'
    <3>1. CASE user_row = None
      <4>1. /\ user_row' = NewUserRow(DefaultLanguage) /\ user_row' \in UserRow
            /\ user_answer' = [user_answer EXCEPT ![i] = a]
            /\ user_config' = [user_config EXCEPT ![i] = user_row']
            /\ user_stage' = [user_stage EXCEPT ![i] = "save"]
        BY <2>1, <2>3, <3>1, NewUserRowIsRow DEF AnswerUserMenu, UserStep
      <4> QED
        BY <2>1, <4>1 DEF UserInv, UserTypeOK
    <3>2. CASE user_row # None
      <4>1. /\ user_answer' = [user_answer EXCEPT ![i] = a]
            /\ user_stage' = [user_stage EXCEPT ![i] = "fetch"]
            /\ UNCHANGED <<user_row, user_config>>
        BY <2>3, <3>2 DEF AnswerUserMenu, UserStep
      <4> QED
        BY <3>2, <4>1 DEF UserInv, UserTypeOK
    <3> QED
      BY <3>1, <3>2
  <2>4. ASSUME NEW i \in Devices, FetchUser(i)
        PROVE  UserInv'
    BY <2>1, <2>4 DEF FetchUser, UserStep, UserInv, UserTypeOK
  <2>5. ASSUME NEW i \in Devices, EndUser(i), user_row' \in UserRow
        PROVE  UserInv'
    BY <2>1, <2>5 DEF EndUser, UserStep, UserInv, UserTypeOK
  <2>6. ASSUME NEW i \in Devices, SaveUser(i) \/ AbandonUser(i)
        PROVE  UserInv'
    <3>1. EndUser(i)
      BY <2>6 DEF SaveUser, AbandonUser
    <3>2. user_row' \in UserRow
      <4>1. CASE SaveUser(i)
        BY <4>1, UserAnsweredIsRow DEF SaveUser, UserInv
      <4>2. CASE AbandonUser(i)
        BY <4>2 DEF AbandonUser, UserInv, UserTypeOK
      <4> QED
        BY <2>6, <4>1, <4>2
    <3> QED
      BY <2>5, <3>1, <3>2
  <2>7. CASE UNCHANGED userVars
    BY <2>7 DEF userVars, UserInv, UserTypeOK
  <2> QED
    BY <2>2, <2>3, <2>4, <2>6, <2>7 DEF UserNext
<1> QED
  BY <1>1, <1>2, PTL DEF UserSpec

(* And their menus show what they set. *)
LEMMA UserMenusStable ==
  ASSUME UserInv
  PROVE  UserChosenAgain
<1> SUFFICES ASSUME NEW cfg \in UserRow, cfg = user_row, NEW m \in UserMenus(cfg),
                    NEW o \in m.options, NEW q \in m.options, o.is_default
             PROVE  /\ q.is_default => q = o
                    /\ UserAnswered(cfg, Chosen(m.menu, o.value)) = cfg
  BY DEF UserInv, UserTypeOK, UserChosenAgain
<1>1. /\ cfg.generic_dm_messages_disabled \in BOOLEAN /\ cfg.ping_on_thread_creation \in BOOLEAN
      /\ cfg.primary_language_raw \in Languages
  BY DEF UserRow
<1>2. ASSUME NEW id, NEW is \in BOOLEAN, m = YesNo(id, is)
      PROVE  /\ q.is_default => q = o
             /\ m.menu = id /\ o.value = IF is THEN "yes" ELSE "no"
  <2>1. /\ m.menu = id /\ m.options = {Option("yes", is), Option("no", ~is)}
    BY <1>2 DEF YesNo, Select
  <2>2. /\ Option("yes", is).is_default = is /\ Option("no", ~is).is_default = ~is
        /\ Option("yes", is).value = "yes" /\ Option("no", ~is).value = "no"
    BY DEF Option
  <2> QED
    BY <2>1, <2>2
<1>3. CASE m = YesNo("generic_dm_messages_disabled", ~cfg.generic_dm_messages_disabled)
  <2>1. PICK is \in BOOLEAN : is = ~cfg.generic_dm_messages_disabled
    BY <1>1
  <2>2. /\ q.is_default => q = o
        /\ m.menu = "generic_dm_messages_disabled" /\ o.value = IF is THEN "yes" ELSE "no"
    BY <1>2, <1>3, <2>1
  <2>3. UserAnswered(cfg, Chosen(m.menu, o.value))
          = [cfg EXCEPT !.generic_dm_messages_disabled = (o.value = "no")]
    BY <2>2, UserAnsweredBy
  <2>4. (o.value = "no") = cfg.generic_dm_messages_disabled
    BY <1>1, <2>1, <2>2
  <2> QED
    BY <2>2, <2>3, <2>4 DEF UserRow
<1>4. CASE m = YesNo("ping_on_thread_creation", cfg.ping_on_thread_creation)
  <2>2. /\ q.is_default => q = o
        /\ m.menu = "ping_on_thread_creation"
        /\ o.value = IF cfg.ping_on_thread_creation THEN "yes" ELSE "no"
    BY <1>1, <1>2, <1>4
  <2>3. UserAnswered(cfg, Chosen(m.menu, o.value))
          = [cfg EXCEPT !.ping_on_thread_creation = (o.value = "yes")]
    BY <2>2, UserAnsweredBy
  <2>4. (o.value = "yes") = cfg.ping_on_thread_creation
    BY <1>1, <2>2
  <2> QED
    BY <2>2, <2>3, <2>4 DEF UserRow
<1>5. CASE m = LanguageMenu(cfg)
  <2>1. /\ m.menu = "primary_language"
        /\ m.options = {Option(l, cfg.primary_language_raw = l) : l \in Languages}
    BY <1>5 DEF LanguageMenu, Select
  <2>2. ASSUME NEW x \in m.options, x.is_default
        PROVE  x = Option(cfg.primary_language_raw, TRUE) /\ x.value = cfg.primary_language_raw
    <3>1. PICK l \in Languages : x = Option(l, cfg.primary_language_raw = l)
      BY <2>1
    <3>2. cfg.primary_language_raw = l
      BY <2>2, <3>1 DEF Option
    <3> QED
      BY <3>1, <3>2 DEF Option
  <2>3. UserAnswered(cfg, Chosen(m.menu, o.value)) = [cfg EXCEPT !.primary_language_raw = o.value]
    BY <2>1, UserAnsweredBy
  <2> QED
    BY <2>2, <2>3 DEF UserRow
<1> QED
  BY <1>3, <1>4, <1>5 DEF UserMenus

(* In every menu of the guild and of the user at most one option is shown  *)
(* as chosen, and choosing it again changes nothing, whatever was answered *)
(* before and however the answers overlapped.                              *)
THEOREM MenusShowWhatIsSet == ConfigSpec /\ UserSpec => []ChosenAgainChangesNothing
<1>1. ConfigInit => VirtualInv
  BY DEF ConfigInit, VirtualInv
<1>2. ConfigInv /\ VirtualInv /\ UserInv => ChosenAgainChangesNothing
  <2> SUFFICES ASSUME ConfigInv, VirtualInv, UserInv
               PROVE  ChosenAgainChangesNothing
    OBVIOUS
  <2>1. UserChosenAgain
    BY UserMenusStable
  <2>2. ASSUME guild_row # None
        PROVE  \A m \in Menus(guild_row) : Stable(guild_row, m)
    BY <2>2, MenusStable DEF ConfigInv, ConfigTypeOK, VirtualInv
  <2> QED
    BY <2>1, <2>2 DEF ChosenAgainChangesNothing, Stable
<1> QED
  BY <1>1, <1>2, ConfigInitially, ConfigStep, VirtualStep, UserInvariant, PTL DEF ConfigSpec

(* The settings of a member and what their commands hold have their types. *)
THEOREM UserTypeCorrect == UserSpec => []UserTypeOK
<1>1. UserInv => UserTypeOK
  BY DEF UserInv
<1>2. QED
  BY <1>1, UserInvariant, PTL

-----------------------------------------------------------------------------
(* Components and modals. *)

(* The names of the queue's buttons in the messages of the earlier         *)
(* versions.                                                               *)
LegacyNames == {"queue_approve", "queue_reject"}

(* The parts of a component. *)
LEMMA ComponentParts ==
  ASSUME NEW id, NEW meaning
  PROVE  Component(id, meaning).id = id /\ Component(id, meaning).meaning = meaning
  BY DEF Component

(* What on_component_interaction makes of each name, case by case. *)
LEMMA MenuRoutes ==
  ASSUME NEW id
  PROVE  /\ id.name = "gcm" => Routed(id) = Meaning("GuildConfigurationMenus", id.fields[2], NoEntry)
         /\ id.name = "ucm" => Routed(id) = Meaning("UserConfigurationMenus", id.fields[2], NoEntry)
         /\ id.name = "v4_suggest_button" =>
              Routed(id) = Meaning("handle_embedded_button", "", NoEntry)
  BY Zenon DEF Routed

(* How the names of the queue's buttons and of the votes are routed. *)
LEMMA QueueRoutes ==
  ASSUME NEW id
  PROVE  /\ id.name \in LegacyNames =>
              Routed(id) = IF id.odd
                           THEN Meaning("handle_physical_interaction",
                                        IF id.name = "queue_approve" THEN "approve" ELSE "reject", NoEntry)
                           ELSE Meaning("Unknown Component Key", "", NoEntry)
         /\ id.name = "v4_queued_suggestion" =>
              Routed(id) = Meaning("handle_physical_interaction",
                                   IF id.fields[1] = "approve" THEN "approve" ELSE "reject",
                                   id.fields[2])
         /\ id.name = "v4_queue" =>
              Routed(id) = Meaning("handle_paginator_interaction", id.fields[1], id.fields[3])
  BY Zenon DEF Routed, LegacyNames

LEMMA VoteRoutes ==
  ASSUME NEW id
  PROVE  /\ id.name \in {"suggestion_up_vote", "suggestion_down_vote"} =>
              Routed(id) = Vote(id.fields[1], IF id.name = "suggestion_up_vote" THEN "UpVote" ELSE "DownVote")
         /\ id.name \in {"SuggestionUpVote", "SuggestionDownVote"} =>
              Routed(id) = Vote(id.fields[1], IF id.name = "SuggestionUpVote" THEN "UpVote" ELSE "DownVote")
         /\ id.name \in {"v4_suggestions_up_vote", "v4_suggestions_down_vote"} =>
              Routed(id) = Vote(id.fields[1], IF id.name = "v4_suggestions_up_vote" THEN "UpVote" ELSE "DownVote")
  BY Zenon DEF Routed

(* The ids of each kind, under names of their own: below it does not matter *)
(* how their fields are laid out.                                          *)
MenuId(name, m) == Plain(name, <<TraceLink, m>>)
(* The ids each kind of component is made with, by name. *)
ButtonId == Plain("v4_suggest_button", <<>>)
QueuedId(how, e) == Plain("v4_queued_suggestion", <<how, e>>)
PageButtonId(how, e) == Plain("v4_queue", <<how, PageId, e, TraceLink>>)
NewVoteId(name, e) == Plain(name, <<e>>)
OldVoteId(name, odd, e) == Id(name, odd, <<e>>)
LegacyName(how) == IF how = "approve" THEN "queue_approve" ELSE "queue_reject"
LegacyId(how, odd) == Id(LegacyName(how), odd, <<>>)

(* The names under which a vote was sent out, newest version first. *)
NewVoteName(t) == IF t = "UpVote" THEN "v4_suggestions_up_vote" ELSE "v4_suggestions_down_vote"
OldVoteName(t) == IF t = "UpVote" THEN "suggestion_up_vote" ELSE "suggestion_down_vote"
OlderVoteName(t) == IF t = "UpVote" THEN "SuggestionUpVote" ELSE "SuggestionDownVote"

(* Each set of components, with the ids and meanings named above. *)
LEMMA SettingMenusAre ==
  SettingMenus =
    {Component(MenuId("gcm", m), Meaning("GuildConfigurationMenus", m, NoEntry)) : m \in MenuSettings}
    \cup {Component(MenuId("ucm", "primary_language"),
                    Meaning("UserConfigurationMenus", "primary_language", NoEntry))}
  BY DEF SettingMenus, MenuId

LEMMA SuggestButtonIs ==
  SuggestButton = Component(ButtonId, Meaning("handle_embedded_button", "", NoEntry))
  BY DEF SuggestButton, ButtonId

LEMMA QueueButtonsAre ==
  QueueButtons =
    {Component(QueuedId(how, e), Meaning("handle_physical_interaction", how, e))
       : how \in {"approve", "reject"}, e \in Entries}
  BY DEF QueueButtons, QueuedId

LEMMA PageButtonsAre ==
  PageButtons =
    {Component(PageButtonId(how, e), Meaning("handle_paginator_interaction", how, e))
       : how \in {"approve", "reject"}, e \in Entries}
    \cup {Component(PageButtonId(how, NoEntry), Meaning("handle_paginator_interaction", how, NoEntry))
            : how \in {"back", "next", "stop"}}
  BY DEF PageButtons, PageButtonId

LEMMA VoteButtonsAre ==
  VoteButtons =
    {Component(NewVoteId(NewVoteName(t), e), Vote(e, t)) : e \in Entries, t \in VoteTypes}
  BY DEF VoteButtons, NewVoteId, NewVoteName

LEMMA LegacyButtonsAre ==
  LegacyButtons =
    {Component(OldVoteId(OldVoteName(t), odd, e), Vote(e, t))
       : e \in Entries, t \in VoteTypes, odd \in BOOLEAN}
    \cup {Component(OldVoteId(OlderVoteName(t), odd, e), Vote(e, t))
            : e \in Entries, t \in VoteTypes, odd \in BOOLEAN}
    \cup {Component(LegacyId(how, odd), Meaning("handle_physical_interaction", how, NoEntry))
            : how \in {"approve", "reject"}, odd \in BOOLEAN}
  BY DEF LegacyButtons, OldVoteId, LegacyId, LegacyName, OldVoteName, OlderVoteName

(* An id and its meaning agree: it is routed there, or to nobody if it is  *)
(* that of an old queue button without its odd character.                  *)
AsMeant(id, meaning) ==
  /\ \/ Routed(id) = meaning
     \/ /\ id.name \in LegacyNames /\ ~id.odd
        /\ Routed(id) = Meaning("Unknown Component Key", "", NoEntry) /\ meaning.about = NoEntry
  /\ meaning.about \in Entries \cup {NoEntry}
  /\ meaning.handler = "handle_embedded_button" => meaning.about = NoEntry

(* Each kind of id is routed to what its component was made for. *)
LEMMA MenuAsMeant ==
  ASSUME NEW m
  PROVE  /\ AsMeant(MenuId("gcm", m), Meaning("GuildConfigurationMenus", m, NoEntry))
         /\ AsMeant(MenuId("ucm", m), Meaning("UserConfigurationMenus", m, NoEntry))
<1>1. /\ MenuId("gcm", m).name = "gcm" /\ MenuId("gcm", m).fields[2] = m
      /\ MenuId("ucm", m).name = "ucm" /\ MenuId("ucm", m).fields[2] = m
  BY DEF MenuId, Plain, Id
<1>2. /\ Routed(MenuId("gcm", m)) = Meaning("GuildConfigurationMenus", m, NoEntry)
      /\ Routed(MenuId("ucm", m)) = Meaning("UserConfigurationMenus", m, NoEntry)
  BY <1>1, MenuRoutes
<1>3. /\ Meaning("GuildConfigurationMenus", m, NoEntry).about = NoEntry
      /\ Meaning("UserConfigurationMenus", m, NoEntry).about = NoEntry
      /\ Meaning("GuildConfigurationMenus", m, NoEntry).handler = "GuildConfigurationMenus"
      /\ Meaning("UserConfigurationMenus", m, NoEntry).handler = "UserConfigurationMenus"
  BY DEF Meaning
<1> QED
  BY <1>2, <1>3 DEF AsMeant

LEMMA ButtonAsMeant == AsMeant(ButtonId, Meaning("handle_embedded_button", "", NoEntry))
<1>1. ButtonId.name = "v4_suggest_button"
  BY DEF ButtonId, Plain, Id
<1>2. Routed(ButtonId) = Meaning("handle_embedded_button", "", NoEntry)
  BY <1>1, MenuRoutes
<1>3. Meaning("handle_embedded_button", "", NoEntry).about = NoEntry
  BY DEF Meaning
<1> QED
  BY <1>2, <1>3 DEF AsMeant

LEMMA QueueAsMeant ==
  ASSUME NEW e \in Entries, NEW how \in {"approve", "reject"}
  PROVE  AsMeant(QueuedId(how, e), Meaning("handle_physical_interaction", how, e))
<1>1. /\ QueuedId(how, e).name = "v4_queued_suggestion"
      /\ QueuedId(how, e).fields[1] = how /\ QueuedId(how, e).fields[2] = e
  BY DEF QueuedId, Plain, Id
<1>2. how = IF QueuedId(how, e).fields[1] = "approve" THEN "approve" ELSE "reject"
  BY <1>1
<1>3. Routed(QueuedId(how, e)) = Meaning("handle_physical_interaction", how, e)
  BY <1>1, <1>2, QueueRoutes
<1>4. /\ Meaning("handle_physical_interaction", how, e).about = e
      /\ Meaning("handle_physical_interaction", how, e).handler = "handle_physical_interaction"
  BY DEF Meaning
<1> QED
  BY <1>3, <1>4 DEF AsMeant

LEMMA PageAsMeant ==
  ASSUME NEW e \in Entries \cup {NoEntry}, NEW how
  PROVE  AsMeant(PageButtonId(how, e), Meaning("handle_paginator_interaction", how, e))
<1>1. /\ PageButtonId(how, e).name = "v4_queue"
      /\ PageButtonId(how, e).fields[1] = how /\ PageButtonId(how, e).fields[3] = e
  BY DEF PageButtonId, Plain, Id
<1>2. Routed(PageButtonId(how, e)) = Meaning("handle_paginator_interaction", how, e)
  BY <1>1, QueueRoutes
<1>3. /\ Meaning("handle_paginator_interaction", how, e).about = e
      /\ Meaning("handle_paginator_interaction", how, e).handler = "handle_paginator_interaction"
  BY DEF Meaning
<1> QED
  BY <1>2, <1>3 DEF AsMeant

(* A name of an up vote is none of a down vote. *)
VoteNames(t) == {NewVoteName(t), OldVoteName(t), OlderVoteName(t)}

LEMMA VoteRouted ==
  ASSUME NEW id, NEW e \in Entries, NEW t \in VoteTypes, id.name \in VoteNames(t), id.fields[1] = e
  PROVE  AsMeant(id, Vote(e, t))
<1>1. Routed(id) = Vote(e, t)
  BY VoteRoutes DEF VoteNames, NewVoteName, OldVoteName, OlderVoteName, VoteTypes
<1>2. Vote(e, t).about = e /\ Vote(e, t).handler = "handle_vote"
  BY DEF Meaning, Vote
<1> QED
  BY <1>1, <1>2 DEF AsMeant

LEMMA VoteAsMeant ==
  ASSUME NEW e \in Entries, NEW t \in VoteTypes, NEW odd
  PROVE  /\ AsMeant(NewVoteId(NewVoteName(t), e), Vote(e, t))
         /\ AsMeant(OldVoteId(OldVoteName(t), odd, e), Vote(e, t))
         /\ AsMeant(OldVoteId(OlderVoteName(t), odd, e), Vote(e, t))
<1>1. /\ NewVoteId(NewVoteName(t), e).name = NewVoteName(t)
      /\ NewVoteId(NewVoteName(t), e).fields[1] = e
      /\ OldVoteId(OldVoteName(t), odd, e).name = OldVoteName(t)
      /\ OldVoteId(OldVoteName(t), odd, e).fields[1] = e
      /\ OldVoteId(OlderVoteName(t), odd, e).name = OlderVoteName(t)
      /\ OldVoteId(OlderVoteName(t), odd, e).fields[1] = e
  BY DEF NewVoteId, OldVoteId, Plain, Id
<1>2. NewVoteName(t) \in VoteNames(t) /\ OldVoteName(t) \in VoteNames(t) /\ OlderVoteName(t) \in VoteNames(t)
  BY DEF VoteNames
<1> QED
  BY <1>1, <1>2, VoteRouted

LEMMA LegacyAsMeant ==
  ASSUME NEW how \in {"approve", "reject"}, NEW odd \in BOOLEAN
  PROVE  AsMeant(LegacyId(how, odd), Meaning("handle_physical_interaction", how, NoEntry))
<1> DEFINE id == LegacyId(how, odd)
<1>1. id.name = LegacyName(how) /\ id.odd = odd
  BY DEF LegacyId, Id
<1>2. id.name \in LegacyNames /\ how = IF id.name = "queue_approve" THEN "approve" ELSE "reject"
  BY <1>1 DEF LegacyName, LegacyNames
<1> HIDE DEF id
<1>3. Routed(id) = IF odd THEN Meaning("handle_physical_interaction", how, NoEntry)
                   ELSE Meaning("Unknown Component Key", "", NoEntry)
  BY <1>1, <1>2, QueueRoutes
<1>4. /\ Meaning("handle_physical_interaction", how, NoEntry).about = NoEntry
      /\ Meaning("handle_physical_interaction", how, NoEntry).handler = "handle_physical_interaction"
  BY DEF Meaning
<1>5. AsMeant(id, Meaning("handle_physical_interaction", how, NoEntry))
  BY <1>1, <1>2, <1>3, <1>4 DEF AsMeant
<1> QED
  BY <1>5 DEF id

(* So is every component: the five kinds have no name in common that is    *)
(* routed apart.                                                           *)
LEMMA EachAsMeant ==
  ASSUME NEW w \in Components
  PROVE  AsMeant(w.id, w.meaning)
<1>1. SUFFICES \E id, meaning : w = Component(id, meaning) /\ AsMeant(id, meaning)
  BY ComponentParts
<1>2. CASE w \in SettingMenus
  <2>1. \/ \E m \in MenuSettings :
             w = Component(MenuId("gcm", m), Meaning("GuildConfigurationMenus", m, NoEntry))
        \/ w = Component(MenuId("ucm", "primary_language"),
                         Meaning("UserConfigurationMenus", "primary_language", NoEntry))
    BY <1>2, SettingMenusAre
  <2> QED
    BY <2>1, MenuAsMeant, Zenon
<1>3. CASE w = SuggestButton
  BY <1>3, SuggestButtonIs, ButtonAsMeant, Zenon
<1>4. CASE w \in QueueButtons
  <2>1. \E how \in {"approve", "reject"}, e \in Entries :
          w = Component(QueuedId(how, e), Meaning("handle_physical_interaction", how, e))
    BY <1>4, QueueButtonsAre
  <2> QED
    BY <2>1, QueueAsMeant, Zenon
<1>5. CASE w \in PageButtons
  <2>1. \/ \E how \in {"approve", "reject"}, e \in Entries :
             w = Component(PageButtonId(how, e), Meaning("handle_paginator_interaction", how, e))
        \/ \E how \in {"back", "next", "stop"} :
             w = Component(PageButtonId(how, NoEntry),
                           Meaning("handle_paginator_interaction", how, NoEntry))
    BY <1>5, PageButtonsAre
  <2>2. NoEntry \in Entries \cup {NoEntry} /\ \A e \in Entries : e \in Entries \cup {NoEntry}
    OBVIOUS
  <2> QED
    BY <2>1, <2>2, PageAsMeant, Zenon
<1>6. CASE w \in VoteButtons
  <2>1. \E e \in Entries, t \in VoteTypes : w = Component(NewVoteId(NewVoteName(t), e), Vote(e, t))
    BY <1>6, VoteButtonsAre
  <2> QED
    BY <2>1, VoteAsMeant, Zenon
<1>7. CASE w \in LegacyButtons
  <2>1. \/ \E e \in Entries, t \in VoteTypes, odd \in BOOLEAN :
             \/ w = Component(OldVoteId(OldVoteName(t), odd, e), Vote(e, t))
             \/ w = Component(OldVoteId(OlderVoteName(t), odd, e), Vote(e, t))
        \/ \E how \in {"approve", "reject"}, odd \in BOOLEAN :
             w = Component(LegacyId(how, odd), Meaning("handle_physical_interaction", how, NoEntry))
    BY <1>7, LegacyButtonsAre
  <2> QED
    BY <2>1, VoteAsMeant, LegacyAsMeant, Zenon
<1> QED
  BY <1>2, <1>3, <1>4, <1>5, <1>6, <1>7 DEF Components

(* The handler that opens the modal to suggest is about no suggestion.     *)
LEMMA RoutedAbout ==
  ASSUME NEW w \in Components
  PROVE  /\ Routed(w.id).about \in Entries \cup {NoEntry}
         /\ Routed(w.id).about = w.meaning.about
         /\ Routed(w.id).handler = "handle_embedded_button" => Routed(w.id).about = NoEntry
<1>1. AsMeant(w.id, w.meaning)
  BY EachAsMeant
<1>2. /\ Meaning("Unknown Component Key", "", NoEntry).about = NoEntry
      /\ Meaning("Unknown Component Key", "", NoEntry).handler = "Unknown Component Key"
  BY DEF Meaning
<1> QED
  BY <1>1, <1>2 DEF AsMeant

-----------------------------------------------------------------------------
(* What a submitted modal makes, and the modals there are.                 *)
MadeRecord ==
  [what : Outcomes, about : Entries \cup {NoEntry}, under : [Settings -> BOOLEAN],
   images : BOOLEAN, anonymous : BOOLEAN]

(* The types of the clicks. *)
ClickTypes ==
  /\ on \in [Settings -> BOOLEAN]
  /\ progress \in [Clicks -> {"idle", "open", "done"}]
  /\ DOMAIN pressed = Clicks /\ DOMAIN routed = Clicks
  /\ modal \in [Clicks -> Modals \cup {NoClick}]
  /\ made \in [Clicks -> MadeRecord \cup {NoClick}]

(* Before it is pressed a component is not known, and before its modal is  *)
(* submitted a click has made nothing; the modal that is open is about     *)
(* what the component was routed to, which is what its id says.            *)
ClickOK(c) ==
  /\ progress[c] = "idle" => pressed[c] = NoClick
  /\ progress[c] # "done" => made[c] = NoClick
  /\ progress[c] = "open" => modal[c] \in Modals
  /\ progress[c] = "open" /\ pressed[c] # NoClick =>
       /\ modal[c].id.name \in {"suggest_modal", "queue_resolve_modal"}
       /\ modal[c].id.fields[2] = routed[c].about
       /\ modal[c].id.name = "suggest_modal" => routed[c].about = NoEntry
  /\ pressed[c] # NoClick => pressed[c] \in Components /\ routed[c] = Routed(pressed[c].id)

(* What DoesWhatWasMeant says of one click.                                *)
MadeAsMeant(c) ==
  /\ pressed[c] # NoClick /\ (pressed[c].id.name \in LegacyNames => pressed[c].id.odd) =>
       (made[c] # NoClick => made[c].about = pressed[c].meaning.about)
  /\ made[c] # NoClick /\ made[c].what \in {"suggestion", "queued"} =>
       /\ made[c].images => made[c].under["can_have_images_in_suggestions"]
       /\ made[c].anonymous => made[c].under["can_have_anonymous_suggestions"]
       /\ (made[c].what = "queued") = made[c].under["uses_suggestion_queue"]
  /\ made[c] # NoClick /\ modal[c].id.name = "resolve_modal" /\ made[c].anonymous =>
       made[c].under["allow_anonymous_moderators"]

(* The inductive invariant. What was made is right because the modal's id  *)
(* still carries what was pressed, and the modal only offers what the      *)
(* settings allowed when it was opened; a setting may be switched between  *)
(* the two.                                                                *)
ClickInv == ClickTypes /\ \A c \in Clicks : ClickOK(c) /\ MadeAsMeant(c)

(* Nobody has clicked at the start. *)
LEMMA ClickInit ==
  ASSUME InteractionsInit
  PROVE  ClickInv
  BY DEF InteractionsInit, ClickInv, ClickTypes, ClickOK, MadeAsMeant, Settings

(* The settings may change: what was made remembers those of its moment.   *)
LEMMA ClicksStay ==
  ASSUME ClickInv, UNCHANGED clickVars, on' \in [Settings -> BOOLEAN]
  PROVE  ClickInv'
  BY DEF ClickInv, ClickTypes, ClickOK, MadeAsMeant, clickVars

(* Modals have the id they are built with, and one of the three names.     *)
LEMMA ModalParts ==
  ASSUME NEW name, NEW about, NEW offers
  PROVE  /\ Modal(name, about, offers).id.name = name
         /\ Modal(name, about, offers).id.fields[2] = about
         /\ Modal(name, about, offers).offers = offers
  BY DEF Modal, Plain, Id

(* The modals that are opened are modals, and what a modal's id can carry. *)
LEMMA ModalsBuilt ==
  ASSUME ClickTypes, NEW e \in Entries \cup {NoEntry}
  PROVE  build_suggest_modal \in Modals /\ build_queue_modal(e) \in Modals /\ build_resolve_modal(e) \in Modals
<1>1. ASSUME NEW field \in {"files", "anonymously", "thread_name"}, NEW s
      PROVE  Offered(field, s) \subseteq {"files", "anonymously", "thread_name"}
  BY DEF Offered
<1>2. NoEntry \in Entries \cup {NoEntry}
  OBVIOUS
<1>3. ASSUME NEW name \in ModalNames, NEW about \in Entries \cup {NoEntry},
             NEW offers \in SUBSET {"files", "anonymously", "thread_name"}
      PROVE  Modal(name, about, offers) \in Modals
  BY DEF Modals
<1> QED
  BY <1>1, <1>2, <1>3 DEF build_suggest_modal, build_queue_modal, build_resolve_modal, ModalNames

LEMMA ModalKinds ==
  ASSUME NEW m \in Modals
  PROVE  /\ m.id.name \in ModalNames /\ m.id.fields[2] \in Entries \cup {NoEntry}
         /\ m.offers \subseteq {"files", "anonymously", "thread_name"}
<1>1. PICK name \in ModalNames, about \in Entries \cup {NoEntry},
           offers \in SUBSET {"files", "anonymously", "thread_name"} : m = Modal(name, about, offers)
  BY DEF Modals
<1>2. /\ Modal(name, about, offers).id.name = name
      /\ Modal(name, about, offers).id.fields[2] = about
      /\ Modal(name, about, offers).offers = offers
  BY DEF Modal, Plain, Id
<1> QED
  BY <1>1, <1>2

(* A click that begins has made nothing yet and makes nothing at once.     *)
LEMMA BeginStep ==
  ASSUME ClickInv, NEW c \in Clicks, NEW u, Begin(c, u),
         \/ End(c)
         \/ \E m \in Modals : Open(c, m),
         DOMAIN pressed' = Clicks, DOMAIN routed' = Clicks,
         \A d \in Clicks \ {c} : pressed'[d] = pressed[d] /\ routed'[d] = routed[d],
         ClickOK(c)'
  PROVE  ClickInv'
<1>1. ClickTypes'
  BY DEF ClickInv, ClickTypes, Begin, End, Open
<1>2. made[c] = NoClick /\ made' = made
  BY DEF ClickInv, ClickOK, Begin
<1>3. MadeAsMeant(c)'
  BY <1>2 DEF MadeAsMeant
<1>4. ASSUME NEW d \in Clicks \ {c}
      PROVE  ClickOK(d)' /\ MadeAsMeant(d)'
  <2>1. /\ progress'[d] = progress[d] /\ modal'[d] = modal[d] /\ made'[d] = made[d]
        /\ pressed'[d] = pressed[d] /\ routed'[d] = routed[d]
    BY <1>2, <1>4 DEF Begin, End, Open, ClickInv, ClickTypes
  <2>2. ClickOK(d) /\ MadeAsMeant(d)
    BY DEF ClickInv
  <2> QED
    BY <2>1, <2>2 DEF ClickOK, MadeAsMeant
<1> QED
  BY <1>1, <1>3, <1>4 DEF ClickInv

(* What is pressed may open the modal of its handler.                      *)
LEMMA PressOpens ==
  ASSUME NEW c \in Clicks, NEW u, NEW w, PressComponent(c, u, w)
  PROVE  /\ Begin(c, u)
         /\ pressed' = [pressed EXCEPT ![c] = w]
         /\ routed' = [routed EXCEPT ![c] = Routed(w.id)]
         /\ \/ End(c)
            \/ /\ Routed(w.id).handler = "handle_embedded_button"
               /\ Open(c, build_suggest_modal)
            \/ Open(c, build_queue_modal(Routed(w.id).about))
  BY Zenon DEF PressComponent

(* The steps that open a modal or answer at once. *)
LEMMA PressStep ==
  ASSUME ClickInv, NEW c \in Clicks, NEW u, NEW w \in Components, PressComponent(c, u, w)
  PROVE  ClickInv'
<1> DEFINE r == Routed(w.id)
<1>1. /\ r.about \in Entries \cup {NoEntry}
      /\ r.handler = "handle_embedded_button" => r.about = NoEntry
  BY RoutedAbout
<1> HIDE DEF r
<1>2. /\ Begin(c, u)
      /\ pressed' = [pressed EXCEPT ![c] = w]
      /\ routed' = [routed EXCEPT ![c] = r]
      /\ \/ End(c)
         \/ r.handler = "handle_embedded_button" /\ Open(c, build_suggest_modal)
         \/ Open(c, build_queue_modal(r.about))
  BY PressOpens DEF r
<1>3. build_suggest_modal \in Modals /\ build_queue_modal(r.about) \in Modals
  BY <1>1, ModalsBuilt DEF ClickInv
<1>4. /\ build_suggest_modal.id.name = "suggest_modal" /\ build_suggest_modal.id.fields[2] = NoEntry
      /\ build_queue_modal(r.about).id.name = "queue_resolve_modal"
      /\ build_queue_modal(r.about).id.fields[2] = r.about
  BY ModalParts DEF build_suggest_modal, build_queue_modal
<1>5. /\ pressed'[c] = w /\ routed'[c] = r /\ made'[c] = NoClick
      /\ \A d \in Clicks \ {c} : pressed'[d] = pressed[d] /\ routed'[d] = routed[d]
      /\ DOMAIN pressed' = Clicks /\ DOMAIN routed' = Clicks
  BY <1>2 DEF ClickInv, ClickTypes, ClickOK, Begin
<1>6. \/ progress'[c] = "done"
      \/ /\ progress'[c] = "open"
         /\ \/ modal'[c] = build_suggest_modal /\ r.about = NoEntry
            \/ modal'[c] = build_queue_modal(r.about)
  BY <1>1, <1>2 DEF ClickInv, ClickTypes, End, Open
<1>7. ClickOK(c)'
  BY <1>3, <1>4, <1>5, <1>6 DEF ClickOK, r
<1> QED
  BY <1>2, <1>3, <1>5, <1>7, BeginStep

LEMMA SlashStep ==
  ASSUME ClickInv, NEW c \in Clicks, NEW u,
         \/ SlashSuggest(c, u)
         \/ \E e \in Entries : ResolveMessage(c, u, e)
  PROVE  ClickInv'
<1>1. build_suggest_modal \in Modals /\ \A e \in Entries : build_resolve_modal(e) \in Modals
  BY ModalsBuilt DEF ClickInv
<1>2. /\ Begin(c, u) /\ UNCHANGED <<pressed, routed>>
      /\ End(c) \/ \E m \in Modals : Open(c, m)
  BY <1>1 DEF SlashSuggest, ResolveMessage
<1>3. pressed[c] = NoClick /\ made[c] = NoClick /\ made' = made
  BY <1>2 DEF Begin, ClickInv, ClickOK
<1>4. progress'[c] # "idle" /\ (progress'[c] = "open" => modal'[c] \in Modals)
  BY <1>2 DEF End, Open, ClickInv, ClickTypes
<1>5. ClickOK(c)'
  BY <1>2, <1>3, <1>4 DEF ClickOK
<1> QED
  BY <1>2, <1>5, BeginStep DEF ClickInv, ClickTypes

-----------------------------------------------------------------------------
(* What each modal makes, under the settings of the moment.                *)
LEMMA OutcomeParts ==
  ASSUME NEW what, NEW input, NEW about
  PROVE  /\ Outcome(what, input, about).what = what
         /\ Outcome(what, input, about).about = about
         /\ Outcome(what, input, about).under = on
         /\ Outcome(what, input, about).images = ("files" \in input)
         /\ Outcome(what, input, about).anonymous = ("anonymously" \in input)
  BY DEF Outcome

(* What is made of a modal's input, by the modal. *)
LEMMA OutcomeType ==
  ASSUME on \in [Settings -> BOOLEAN], NEW what \in Outcomes, NEW input,
         NEW about \in Entries \cup {NoEntry}
  PROVE  Outcome(what, input, about) \in MadeRecord
  BY DEF Outcome, MadeRecord

LEMMA SuggestOutcome ==
  ASSUME on \in [Settings -> BOOLEAN], NEW m \in Modals, NEW input \in Inputs(m),
         NEW x, x = handle_interaction(m, input)
  PROVE  /\ x \in MadeRecord /\ x.about = NoEntry
         /\ x.what \in {"suggestion", "queued"} =>
              /\ x.images => x.under["can_have_images_in_suggestions"]
              /\ x.anonymous => x.under["can_have_anonymous_suggestions"]
              /\ (x.what = "queued") = x.under["uses_suggestion_queue"]
<1>1. CASE x = Outcome("refused", {}, NoEntry)
  <2>1. x.what = "refused" /\ x.about = NoEntry
    BY <1>1, OutcomeParts
  <2>2. x \in MadeRecord
    BY <1>1, OutcomeType DEF Outcomes
  <2> QED
    BY <2>1, <2>2
<1>2. CASE /\ ~("files" \in m.offers /\ ~on["can_have_images_in_suggestions"])
           /\ ~("anonymously" \in input /\ ~on["can_have_anonymous_suggestions"])
           /\ \E what \in {"suggestion", "queued"} :
                /\ x = Outcome(what, input, NoEntry)
                /\ (what = "queued") = on["uses_suggestion_queue"]
  <2>1. PICK what \in {"suggestion", "queued"} :
          x = Outcome(what, input, NoEntry) /\ (what = "queued") = on["uses_suggestion_queue"]
    BY <1>2
  <2>2. /\ x.what = what /\ x.about = NoEntry /\ x.under = on
        /\ x.images = ("files" \in input) /\ x.anonymous = ("anonymously" \in input)
    BY <2>1, OutcomeParts
  <2>3. x \in MadeRecord
    BY <2>1, OutcomeType DEF Outcomes
  <2>4. "files" \in input => "files" \in m.offers
    BY DEF Inputs
  <2> QED
    BY <1>2, <2>1, <2>2, <2>3, <2>4
<1>3. \/ x = Outcome("refused", {}, NoEntry)
      \/ /\ ~("files" \in m.offers /\ ~on["can_have_images_in_suggestions"])
         /\ ~("anonymously" \in input /\ ~on["can_have_anonymous_suggestions"])
         /\ \E what \in {"suggestion", "queued"} :
              /\ x = Outcome(what, input, NoEntry)
              /\ (what = "queued") = on["uses_suggestion_queue"]
  <2>1. on["uses_suggestion_queue"] \in BOOLEAN
    BY DEF Settings
  <2> QED
    BY <2>1 DEF handle_interaction
<1> QED
  BY <1>1, <1>2, <1>3

LEMMA ResolveOutcome ==
  ASSUME on \in [Settings -> BOOLEAN], NEW m \in Modals, NEW input, NEW x,
         x = resolve_suggestion(m, input) \/ x = handle_modal_interaction(m, input)
  PROVE  /\ x \in MadeRecord /\ x.about = m.id.fields[2]
         /\ x.what \notin {"suggestion", "queued"}
         /\ x = resolve_suggestion(m, input) /\ x.anonymous =>
              x.under["allow_anonymous_moderators"]
<1> DEFINE about == m.id.fields[2]
<1>1. about \in Entries \cup {NoEntry}
  BY ModalKinds
<1> HIDE DEF about
<1>2. \/ x = Outcome("refused", {}, about)
      \/ /\ x = Outcome("resolved", input, about)
         /\ x = resolve_suggestion(m, input) =>
              ~("anonymously" \in input /\ ~on["allow_anonymous_moderators"])
  BY DEF resolve_suggestion, handle_modal_interaction, about
<1>3. CASE x = Outcome("refused", {}, about)
  <2>1. /\ x.what = "refused" /\ x.about = about
        /\ x.anonymous = ("anonymously" \in {})
    BY <1>3, OutcomeParts
  <2>2. x \in MadeRecord
    BY <1>1, <1>3, OutcomeType DEF Outcomes
  <2> QED
    BY <2>1, <2>2 DEF about
<1>4. CASE /\ x = Outcome("resolved", input, about)
           /\ x = resolve_suggestion(m, input) =>
                ~("anonymously" \in input /\ ~on["allow_anonymous_moderators"])
  <2>1. /\ x.what = "resolved" /\ x.about = about /\ x.under = on
        /\ x.anonymous = ("anonymously" \in input)
    BY <1>4, OutcomeParts
  <2>2. x \in MadeRecord
    BY <1>1, <1>4, OutcomeType DEF Outcomes
  <2> QED
    BY <1>4, <2>1, <2>2 DEF about
<1> QED
  BY <1>2, <1>3, <1>4

(* What the submission of each modal makes. *)
LEMMA SubmitMakes ==
  ASSUME NEW c, NEW input, SubmitModal(c, input)
  PROVE  /\ progress[c] = "open" /\ End(c)
         /\ UNCHANGED <<on, pressed, routed>>
         /\ \E x : /\ made' = [made EXCEPT ![c] = x]
                   /\ modal[c].id.name = "suggest_modal" =>
                        x = handle_interaction(modal[c], input)
                   /\ modal[c].id.name = "queue_resolve_modal" =>
                        x = handle_modal_interaction(modal[c], input)
                   /\ modal[c].id.name = "resolve_modal" =>
                        x = resolve_suggestion(modal[c], input)
  BY Zenon DEF SubmitModal

(* The steps that end a click. *)
LEMMA SubmitStep ==
  ASSUME ClickInv, NEW c \in Clicks, NEW input \in Inputs(modal[c]), SubmitModal(c, input)
  PROVE  ClickInv'
<1> DEFINE m == modal[c]
<1>1. progress[c] = "open" /\ End(c) /\ UNCHANGED <<on, pressed, routed>>
  BY SubmitMakes
<1>2. PICK x : /\ made' = [made EXCEPT ![c] = x]
               /\ m.id.name = "suggest_modal" => x = handle_interaction(m, input)
               /\ m.id.name = "queue_resolve_modal" => x = handle_modal_interaction(m, input)
               /\ m.id.name = "resolve_modal" => x = resolve_suggestion(m, input)
  BY SubmitMakes
<1>3. m \in Modals /\ ClickOK(c) /\ on \in [Settings -> BOOLEAN]
  BY <1>1 DEF ClickInv, ClickOK, ClickTypes
<1>4. m.id.name \in ModalNames
  BY <1>3, ModalKinds
<1> HIDE DEF m
<1>5. /\ x \in MadeRecord
      /\ x.about = IF m.id.name = "suggest_modal" THEN NoEntry ELSE m.id.fields[2]
      /\ x.what \in {"suggestion", "queued"} =>
           /\ x.images => x.under["can_have_images_in_suggestions"]
           /\ x.anonymous => x.under["can_have_anonymous_suggestions"]
           /\ (x.what = "queued") = x.under["uses_suggestion_queue"]
      /\ m.id.name = "resolve_modal" /\ x.anonymous => x.under["allow_anonymous_moderators"]
  <2>0. input \in Inputs(m)
    BY DEF m
  <2>1. CASE m.id.name = "suggest_modal"
    BY <1>2, <1>3, <2>0, <2>1, SuggestOutcome
  <2>2. CASE m.id.name = "queue_resolve_modal"
    BY <1>2, <1>3, <2>2, ResolveOutcome
  <2>3. CASE m.id.name = "resolve_modal"
    BY <1>2, <1>3, <2>3, ResolveOutcome
  <2> QED
    BY <1>4, <2>1, <2>2, <2>3 DEF ModalNames
<1>6. /\ progress' = [progress EXCEPT ![c] = "done"] /\ modal' = modal
      /\ pressed' = pressed /\ routed' = routed /\ on' = on
  BY <1>1 DEF End
<1>7. ClickTypes'
  BY <1>2, <1>5, <1>6 DEF ClickInv, ClickTypes
<1>8. progress'[c] = "done" /\ made'[c] = x /\ modal'[c] = m
  BY <1>2, <1>6 DEF ClickInv, ClickTypes, m
<1>9. ClickOK(c)'
  BY <1>3, <1>6, <1>8 DEF ClickOK
<1>10. pressed[c] # NoClick => x.about = pressed[c].meaning.about
  <2>1. pressed[c] # NoClick =>
          /\ pressed[c] \in Components /\ routed[c] = Routed(pressed[c].id)
          /\ m.id.name \in {"suggest_modal", "queue_resolve_modal"}
          /\ m.id.fields[2] = routed[c].about
          /\ m.id.name = "suggest_modal" => routed[c].about = NoEntry
    BY <1>1, <1>3 DEF ClickOK, m
  <2>2. pressed[c] # NoClick => routed[c].about = pressed[c].meaning.about
    BY <2>1, RoutedAbout
  <2> QED
    BY <1>5, <2>1, <2>2
<1>11. MadeAsMeant(c)'
  BY <1>5, <1>6, <1>8, <1>10 DEF MadeAsMeant
<1>12. ASSUME NEW d \in Clicks \ {c}
       PROVE  ClickOK(d)' /\ MadeAsMeant(d)'
  <2>1. progress'[d] = progress[d] /\ made'[d] = made[d]
    BY <1>2, <1>6 DEF ClickInv, ClickTypes
  <2>2. ClickOK(d) /\ MadeAsMeant(d)
    BY DEF ClickInv
  <2> QED
    BY <1>6, <2>1, <2>2 DEF ClickOK, MadeAsMeant
<1> QED
  BY <1>7, <1>9, <1>11, <1>12 DEF ClickInv

LEMMA CloseStep ==
  ASSUME ClickInv, NEW c \in Clicks, CloseModal(c)
  PROVE  ClickInv'
<1>1. /\ progress[c] = "open" /\ progress' = [progress EXCEPT ![c] = "done"]
      /\ UNCHANGED <<on, modal, pressed, routed, made>>
  BY DEF CloseModal, End
<1>2. ClickTypes'
  BY <1>1 DEF ClickInv, ClickTypes
<1>3. ASSUME NEW d \in Clicks
      PROVE  ClickOK(d)' /\ MadeAsMeant(d)'
  <2>1. progress'[d] = progress[d] \/ (progress[d] = "open" /\ progress'[d] = "done")
    BY <1>1 DEF ClickInv, ClickTypes
  <2>2. ClickOK(d) /\ MadeAsMeant(d)
    BY DEF ClickInv
  <2> QED
    BY <1>1, <2>1, <2>2 DEF ClickOK, MadeAsMeant
<1> QED
  BY <1>2, <1>3 DEF ClickInv

(* The step of the invariant, from the lemmas above. *)
LEMMA ClickStep ==
  ASSUME ClickInv, [InteractionsNext]_interactionVars
  PROVE  ClickInv'
<1>1. ASSUME NEW s \in Settings, Switch(s)
      PROVE  ClickInv'
  <2>1. on' \in [Settings -> BOOLEAN] /\ UNCHANGED clickVars
    BY <1>1 DEF Switch, ClickInv, ClickTypes
  <2> QED
    BY <2>1, ClicksStay
<1>2. ASSUME NEW u \in Clickers, ChangeBlocklist(u)
      PROVE  ClickInv'
  <2>1. on' \in [Settings -> BOOLEAN] /\ UNCHANGED clickVars
    BY <1>2 DEF ChangeBlocklist, ClickInv, ClickTypes
  <2> QED
    BY <2>1, ClicksStay
<1>3. ASSUME NEW c \in Clicks, NEW u \in Clickers,
             \/ \E w \in Components : PressComponent(c, u, w)
             \/ SlashSuggest(c, u)
             \/ \E e \in Entries : ResolveMessage(c, u, e)
      PROVE  ClickInv'
  BY <1>3, PressStep, SlashStep
<1>4. ASSUME NEW c \in Clicks, NEW input \in Inputs(modal[c]), SubmitModal(c, input)
      PROVE  ClickInv'
  BY <1>4, SubmitStep
<1>5. ASSUME NEW c \in Clicks, CloseModal(c)
      PROVE  ClickInv'
  BY <1>5, CloseStep
<1>6. CASE UNCHANGED interactionVars
  <2>1. on' \in [Settings -> BOOLEAN] /\ UNCHANGED clickVars
    BY <1>6 DEF interactionVars, ClickInv, ClickTypes
  <2> QED
    BY <2>1, ClicksStay
<1> QED
  BY <1>1, <1>2, <1>3, <1>4, <1>5, <1>6 DEF InteractionsNext

(* And the invariant of every behaviour. *)
LEMMA ClickInvariant == InteractionsSpec => []ClickInv
  BY ClickInit, ClickStep, PTL DEF InteractionsSpec

(* A press does what was put on the screen, about the suggestion it was put *)
(* there for, and what a modal makes keeps to the settings of the moment it *)
(* is submitted: for any number of interactions at once, of suggestions,    *)
(* menus and changes of the settings.                                       *)
THEOREM PressesDoWhatWasMeant == InteractionsSpec => []DoesWhatWasMeant
<1>1. ASSUME ClickInv PROVE DoesWhatWasMeant
  <2>1. ASSUME NEW c \in Clicks, pressed[c] # NoClick, pressed[c].id.name \in LegacyNames => pressed[c].id.odd
        PROVE  routed[c] = pressed[c].meaning
    <3>1. pressed[c] \in Components /\ routed[c] = Routed(pressed[c].id)
      BY <1>1, <2>1 DEF ClickInv, ClickOK
    <3> QED
      BY <2>1, <3>1, EachAsMeant DEF AsMeant
  <2>2. ASSUME NEW c \in Clicks
        PROVE  MadeAsMeant(c)
    BY <1>1 DEF ClickInv
  <2> QED
    BY <2>1, <2>2 DEF DoesWhatWasMeant, MadeAsMeant, LegacyNames
<1> QED
  BY <1>1, ClickInvariant, PTL

(* Where a press can be routed. *)
Routes == {c.meaning : c \in Components} \cup {Meaning("Unknown Component Key", "", NoEntry)}

LEMMA RoutedTo == \A w \in Components : Routed(w.id) \in Routes
<1> TAKE w \in Components
<1>1. AsMeant(w.id, w.meaning)
  BY EachAsMeant
<1>2. w.meaning \in Routes
  BY Zenon DEF Routes
<1> QED
  BY <1>1, <1>2, Zenon DEF AsMeant, Routes

(* The types of what ClickInv does not speak of. *)
ClickData ==
  /\ blocked \subseteq Clickers /\ switches \in 0 .. MaxSwitches /\ unwelcome \subseteq Clicks
  /\ by \in [Clicks -> Clickers \cup {NoClick}]
  /\ pressed \in [Clicks -> Components \cup {NoClick}]
  /\ routed \in [Clicks -> Routes \cup {NoClick}]

LEMMA ClickDataStep ==
  ASSUME ClickData, [InteractionsNext]_interactionVars
  PROVE  ClickData'
<1> USE DEF ClickData
<1>1. ASSUME NEW s \in Settings, Switch(s)
      PROVE  ClickData'
  BY <1>1, InteractionsAssumption DEF Switch, clickVars
<1>2. ASSUME NEW u \in Clickers, ChangeBlocklist(u)
      PROVE  ClickData'
  <2>1. blocked' \subseteq Clickers /\ switches' \in 0 .. MaxSwitches /\ UNCHANGED clickVars
    BY <1>2, InteractionsAssumption DEF ChangeBlocklist
  <2> QED
    BY <2>1 DEF clickVars
<1>3. ASSUME NEW c \in Clicks, NEW u \in Clickers, Begin(c, u)
      PROVE  /\ blocked' \subseteq Clickers /\ switches' \in 0 .. MaxSwitches
             /\ unwelcome' \subseteq Clicks /\ by' \in [Clicks -> Clickers \cup {NoClick}]
  BY <1>3 DEF Begin
<1>4. ASSUME NEW c \in Clicks, NEW u \in Clickers, NEW w \in Components, PressComponent(c, u, w)
      PROVE  ClickData'
  <2>1. /\ Begin(c, u) /\ pressed' = [pressed EXCEPT ![c] = w]
        /\ routed' = [routed EXCEPT ![c] = Routed(w.id)]
    BY <1>4, PressOpens
  <2>2. Routed(w.id) \in Routes
    BY RoutedTo
  <2>3. pressed' \in [Clicks -> Components \cup {NoClick}]
    BY <2>1
  <2>4. routed' \in [Clicks -> Routes \cup {NoClick}]
    BY <2>1, <2>2, Zenon
  <2> QED
    BY <1>3, <2>1, <2>3, <2>4
<1>5. ASSUME NEW c \in Clicks, NEW u \in Clickers,
             \/ SlashSuggest(c, u)
             \/ \E e \in Entries : ResolveMessage(c, u, e)
      PROVE  ClickData'
  <2>1. Begin(c, u) /\ UNCHANGED <<pressed, routed>>
    BY <1>5 DEF SlashSuggest, ResolveMessage
  <2> QED
    BY <1>3, <2>1
<1>6. ASSUME NEW c \in Clicks, (\E input : SubmitModal(c, input)) \/ CloseModal(c)
      PROVE  ClickData'
  <2>1. UNCHANGED <<blocked, switches, by, pressed, routed, unwelcome>>
    BY <1>6, Zenon DEF SubmitModal, CloseModal
  <2> QED
    BY <2>1
<1>7. CASE UNCHANGED interactionVars
  BY <1>7 DEF interactionVars, clickVars
<1> QED
  BY <1>1, <1>2, <1>4, <1>5, <1>6, <1>7 DEF InteractionsNext

(* What is pressed, where it is routed and what it opens have their types: *)
(* no id that the bot ever sent is routed anywhere but to a handler of one *)
(* of its components, or reported as an unknown key.                       *)
THEOREM InteractionsTypeCorrect == InteractionsSpec => []InteractionsTypeOK
<1>1. InteractionsInit => ClickData
  BY InteractionsAssumption DEF InteractionsInit, ClickData
<1>2. ClickInv /\ ClickData => InteractionsTypeOK
  <2> SUFFICES ASSUME ClickInv, ClickData PROVE InteractionsTypeOK
    OBVIOUS
  <2>1. \A c \in Clicks : made[c] # NoClick => made[c].what \in Outcomes
    BY DEF ClickInv, ClickTypes, MadeRecord
  <2>2. Routes \cup {NoClick} = {c.meaning : c \in Components}
                   \cup {Meaning("Unknown Component Key", "", NoEntry), NoClick}
    BY Zenon DEF Routes
  <2>3. routed \in [Clicks -> {c.meaning : c \in Components}
                   \cup {Meaning("Unknown Component Key", "", NoEntry), NoClick}]
    BY <2>2, Zenon DEF ClickData
  <2> QED
    BY <2>1, <2>3 DEF ClickInv, ClickTypes, ClickData, InteractionsTypeOK
<1> QED
  BY <1>1, <1>2, ClickInvariant, ClickDataStep, PTL DEF InteractionsSpec
-----------------------------------------------------------------------------
(* The parts side by side.  Whatever part runs, a step is a step of that    *)
(* part and a stutter of every other one.                                   *)
LEMMA BotStepOfParts ==
  ASSUME [BotNext]_botVars
  PROVE  /\ [EditNext]_editVars /\ [Next]_vars /\ [PagesNext]_pageVars
         /\ [ConfigNext]_configVars /\ [UserNext]_userVars
         /\ [InteractionsNext]_interactionVars
         /\ part' = part
<1> USE DEF In
<1>1. CASE InEdit /\ EditNext
  BY <1>1 DEF InEdit
<1>2. CASE InQueue /\ Next
  BY <1>2 DEF InQueue
<1>3. CASE InPages /\ PagesNext
  BY <1>3 DEF InPages
<1>4. CASE InGuild /\ ConfigNext
  BY <1>4 DEF InGuild
<1>5. CASE InUser /\ UserNext
  BY <1>5 DEF InUser
<1>6. CASE InPress /\ InteractionsNext
  BY <1>6 DEF InPress
<1>7. CASE UNCHANGED botVars
  BY <1>7 DEF botVars
<1> QED
  BY <1>1, <1>2, <1>3, <1>4, <1>5, <1>6, <1>7 DEF BotNext

(* So the parts side by side are each of the parts on its own: what is     *)
(* proved of the parts holds of what the model checker runs.               *)
THEOREM BotIsItsParts ==
  BotSpec => /\ EditSpec /\ Spec /\ PagesSpec /\ ConfigSpec /\ UserSpec
             /\ InteractionsSpec
             /\ [](part \in Parts)
<1>1. BotInit => /\ EditInit /\ Init /\ PagesInit /\ ConfigInit /\ UserInit
                 /\ InteractionsInit /\ part \in Parts
  BY DEF BotInit
<1>2. [BotNext]_botVars /\ part \in Parts => (part \in Parts)'
  BY BotStepOfParts
<1>3. [BotNext]_botVars =>
        /\ [EditNext]_editVars /\ [Next]_vars /\ [PagesNext]_pageVars
        /\ [ConfigNext]_configVars /\ [UserNext]_userVars
        /\ [InteractionsNext]_interactionVars
  BY BotStepOfParts
<1> QED
  BY <1>1, <1>2, <1>3, PTL
     DEF BotSpec, EditSpec, Spec, PagesSpec, ConfigSpec, UserSpec, InteractionsSpec

(* The type of every variable of the part that runs.                       *)
THEOREM BotTypeCorrect == BotSpec => []BotTypeOK
  BY BotIsItsParts, EditTypeCorrect, TypeCorrect, PagesTypeCorrect, ConfigTypeCorrect,
     UserTypeCorrect, InteractionsTypeCorrect, PTL DEF BotTypeOK

(* All that the parts of the bot promise holds of the whole: an edit that  *)
(* was asked for is not lost, what is public is stored, a settled entry    *)
(* has left the queue and stays settled, the queue is reachable, the menus *)
(* show what is set, pages are valid, and a press does what was meant.     *)
THEOREM BotKeepsItsPromises ==
  BotSpec => /\ []KeyIsCovered /\ []NoLostEdit /\ DropIsCovered
             /\ []LinkIsStored /\ []PublishedIsStored
             /\ []ResolvedLeavesQueue /\ ResolvedStays
             /\ []QueueIsReachable /\ []AnswersStand /\ []ChosenAgainChangesNothing
             /\ []PageIndexIsValid /\ []DropsTheRightPage
             /\ []DoesWhatWasMeant
  BY BotIsItsParts, KeysAreCovered, EditsAreNotLost, DropsAreCovered, LinksStayStored,
     WhatIsPublicIsStored, ResolvedHaveLeft, ResolvedStaysResolved, QueueStaysReachable,
     AnswersStandThroughout, MenusShowWhatIsSet, PageIndexStaysValid,
     RightPagesAreDropped, PressesDoWhatWasMeant, PTL
=============================================================================
