----------------------------- MODULE Porcupine -----------------------------
(***************************************************************************)
(* porcupine/checker.go, bitset.go and the part of visualization.go that    *)
(* computes: is a history of concurrent operations linearizable?            *)
(* checkParallel starts one goroutine per partition of the history; each    *)
(* searches for a linearization in checkSingle, trying calls depth first    *)
(* over a doubly linked list of the entries, from which it takes the        *)
(* operations it has linearized and to which it returns them when it goes   *)
(* back.  An iteration of the search is one step; goroutines interleave.    *)
(***************************************************************************)
EXTENDS KvModel, Integers, TLC

CONSTANTS
  Checks,       \* the calls of porcupine that are made, see Init
  WordBits      \* bits in a word of a bitset (64 in the code)

ASSUME PorcupineAssumption == WordBits \in Nat \ {0}

VARIABLES
  history,      \* the history under check
  entries,      \* for each partition, its entries in the order of time
  computeInfo,  \* the verbose argument
  timeout,      \* timeout > 0
  single,       \* the goroutine of each partition: the variables of checkSingle
  longest,      \* longest[i], as the goroutine has left it in checkParallel
  results,      \* the buffered channel of the answers
  kill, ok, timedOut, count,   \* variables of checkParallel
  main,         \* where checkParallel and its caller are
  result, info, \* what checkParallel returns
  visual        \* what computeVisualizationData makes of info

arguments == <<history, entries, computeInfo, timeout>>
vars == <<arguments, single, longest, results, kill, ok, timedOut, count,
          main, result, info, visual>>

-----------------------------------------------------------------------------
(* Entries.                                                                 *)

\* byTime.Less: at equal times calls come before returns.
Less(a, b) ==
  \/ a.time < b.time
  \/ a.time = b.time /\ a.kind = "call" /\ b.kind = "return"

Entry(k, v, i, t) == [kind |-> k, value |-> v, id |-> i, time |-> t]

\* sort.Sort is not stable: tie says in which order it happens to leave two
\* calls, or two returns, of equal times (1 for the given order, -1 reversed).
makeEntries(operations, tie) ==
  LET pairs == [i \in DOMAIN operations |->
                 <<Entry("call", operations[i].input, i - 1, operations[i].call),
                   Entry("return", operations[i].output, i - 1, operations[i].return)>>]
      Before(a, b) == Less(a, b) \/ (~Less(b, a) /\ tie[a.kind] * a.id < tie[b.kind] * b.id)
  IN  SortSeq(FlattenSeq(pairs), Before)

\* Events in the order in which they were recorded, under the identifiers
\* that the recorder gave to the operations.
EventsOf(operations, tie) ==
  [i \in 1 .. 2 * Len(operations) |->
    LET e == makeEntries(operations, tie)[i] IN [kind |-> e.kind, value |-> e.value, id |-> 9 - 3 * e.id]]

\* renumber: identifiers become 0, 1, ... in the order of first appearance.
renumber(events) ==
  LET First(i) == CHOOSE j \in 1 .. i : /\ events[j].id = events[i].id
                                        /\ \A k \in 1 .. j - 1 : events[k].id # events[i].id
  IN  [i \in DOMAIN events |->
        [events[i] EXCEPT !.id = Cardinality({events[j].id : j \in 1 .. First(i) - 1})]]

\* convertEntries: the index serves as the time.
convertEntries(events) ==
  [i \in DOMAIN events |-> Entry(events[i].kind, events[i].value, events[i].id, i)]

NoPartitionEvent(events) == <<events>>

\* checkOperations and checkEvents.  The model has a Partition function, but no
\* PartitionEvent: fillDefault gives it the one that leaves the events together.
Entries(c) ==
  IF c.events
  THEN LET parts == NoPartitionEvent(EventsOf(c.history, c.tie))
       IN  [p \in DOMAIN parts |-> convertEntries(renumber(parts[p]))]
  ELSE LET parts == Partition(c.history)
       IN  [p \in DOMAIN parts |-> makeEntries(parts[p], c.tie)]

Partitions == DOMAIN entries
N(p) == Len(entries[p]) \div 2

-----------------------------------------------------------------------------
(* The linked list.  Node 0 is headEntry, node i the i-th entry.            *)

Nil == -1

\* node.match: the return of a call, nil for a return.
match(p, i) ==
  IF entries[p][i].kind = "return" THEN Nil
  ELSE CHOOSE j \in DOMAIN entries[p] : /\ entries[p][j].kind = "return"
                                        /\ entries[p][j].id = entries[p][i].id

\* makeLinkedEntries, with headEntry inserted before the first entry.
Next0(es) == [i \in 0 .. Len(es) |-> IF i = Len(es) THEN Nil ELSE i + 1]
Prev0(es) == [i \in 0 .. Len(es) |-> i - 1]

Unlink(list, x) ==
  [next |-> [list.next EXCEPT ![list.prev[x]] = list.next[x]],
   prev |-> IF list.next[x] = Nil THEN list.prev
            ELSE [list.prev EXCEPT ![list.next[x]] = list.prev[x]]]

\* An unlinked node still knows its neighbours: it links itself back.
Relink(list, x) ==
  [next |-> [list.next EXCEPT ![list.prev[x]] = x],
   prev |-> IF list.next[x] = Nil THEN list.prev
            ELSE [list.prev EXCEPT ![list.next[x]] = x]]

lift(list, entry, return) == Unlink(Unlink(list, entry), return)

\* Seeded fault: the node after the return is not told.
UnliftOneWay(list, entry, return) ==
  Relink([list EXCEPT !.next[list.prev[return]] = return], entry)

unlift(list, entry, return) == Relink(Relink(list, return), entry)

-----------------------------------------------------------------------------
(* Bitsets: words of WordBits bits, a word being the set of its set bits.   *)

newBitset(bits) ==
  LET extra == IF bits % WordBits # 0 THEN 1 ELSE 0
  IN  [w \in 0 .. bits \div WordBits + extra - 1 |-> {}]

set(b, pos) == [b EXCEPT ![pos \div WordBits] = @ \cup {pos % WordBits}]
clear(b, pos) == [b EXCEPT ![pos \div WordBits] = @ \ {pos % WordBits}]

\* The identifiers whose bit is set.
Linearized(p) ==
  {i \in 0 .. N(p) - 1 : i % WordBits \in single[p].linearized[i \div WordBits]}
-----------------------------------------------------------------------------
(* checkSingle.                                                             *)

\* A check is [history, events, verbose, timeout, tie].  Events are left in one
\* partition, so that they must be about one key.
Init ==
  /\ \E c \in Checks :
       /\ history = c.history
       /\ entries = Entries(c)
       /\ computeInfo = c.verbose
       /\ timeout = c.timeout
  /\ single = [p \in Partitions |->
       [at |-> "search", ok |-> FALSE, entry |-> 1,
        list |-> [next |-> Next0(entries[p]), prev |-> Prev0(entries[p])],
        calls |-> <<>>, state |-> InitState, linearized |-> newBitset(N(p)), cache |-> {},
        longest |-> [i \in 0 .. N(p) - 1 |-> <<>>]]]  \* <<>> is a nil pointer
  /\ longest = [p \in Partitions |-> <<>>]
  /\ results = <<>>
  /\ kill = FALSE /\ ok = TRUE /\ timedOut = FALSE /\ count = 0
  /\ main = "loop"
  /\ result = "none" /\ info = <<>> /\ visual = <<>>

mainVars == <<kill, ok, timedOut, count, main, result, info, visual>>

\* A step of p's search; only kill is shared.
Local(p, new) ==
  /\ single' = [single EXCEPT ![p] = new]
  /\ UNCHANGED <<arguments, longest, results, mainVars>>

\* The loop goes on with an iteration: there are entries left.
Searching(p) == single[p].at = "search" /\ single[p].list.next[0] # Nil /\ ~kill

Killed(p) ==
  /\ single[p].at = "search" /\ single[p].list.next[0] # Nil /\ kill
  /\ Local(p, [single[p] EXCEPT !.at = "assign", !.ok = FALSE])

\* The cache maps a hash to the entries with that hash, which are compared as
\* bitsets and as states.
cacheContains(cache, new) == new \in cache

\* entry is a call.  Taken if the model allows it and the cache has not seen
\* the same operations leading to the same state.
Call(p) ==
  LET s == single[p]
      e == s.entry
      m == match(p, e)
      step == Step(s.state, entries[p][e].value, entries[p][m].value)
      id == entries[p][e].id
      new == [linearized |-> set(s.linearized, id), state |-> step.state]
      list == lift(s.list, e, m)
  IN  /\ Searching(p)
      /\ m # Nil
      /\ Local(p, IF step.ok /\ ~cacheContains(s.cache, new)
                  THEN [s EXCEPT !.cache = @ \cup {new},
                                 !.calls = Append(@, [entry |-> e, state |-> s.state]),
                                 !.state = step.state,
                                 !.linearized = new.linearized,
                                 !.list = list,
                                 !.entry = list.next[0]]
                  ELSE [s EXCEPT !.entry = s.list.next[e]])

Ids(p, calls) == [i \in DOMAIN calls |-> entries[p][calls[i].entry].id]

\* Seeded fault: the last call is taken back before the sequence is recorded.
LongerAfterPop(old, seq) ==
  [i \in DOMAIN old |->
    IF Contains(Front(seq), i) /\ Len(Front(seq)) > Len(old[i]) THEN Front(seq) ELSE old[i]]

\* The longest linearization found so far with each of the operations of seq.
Longer(old, seq) ==
  [i \in DOMAIN old |-> IF Contains(seq, i) /\ Len(seq) > Len(old[i]) THEN seq ELSE old[i]]

\* entry is a return: what was called before it must be linearized before it.
GiveUp(p) ==
  /\ Searching(p)
  /\ match(p, single[p].entry) = Nil
  /\ single[p].calls = <<>>
  /\ Local(p, [single[p] EXCEPT !.at = "assign", !.ok = FALSE])

Backtrack(p) ==
  LET s == single[p]
      top == Last(s.calls)
      e == top.entry
      list == unlift(s.list, e, match(p, e))
  IN  /\ Searching(p)
      /\ match(p, s.entry) = Nil
      /\ s.calls # <<>>
      /\ Local(p, [s EXCEPT !.longest = IF computeInfo THEN Longer(@, Ids(p, s.calls)) ELSE @,
                            !.state = top.state,
                            !.linearized = clear(@, entries[p][e].id),
                            !.calls = Front(@),
                            !.list = list,
                            !.entry = list.next[e]])

Complete(p) ==
  /\ single[p].at = "search" /\ single[p].list.next[0] = Nil
  /\ Local(p, [single[p] EXCEPT !.at = "assign", !.ok = TRUE,
                                !.longest = [i \in DOMAIN @ |-> Ids(p, single[p].calls)]])
-----------------------------------------------------------------------------
(* The goroutines of checkParallel, and checkParallel itself.               *)

\* longest[i] = l
Assign(p) ==
  /\ single[p].at = "assign"
  /\ longest' = [longest EXCEPT ![p] = single[p].longest]
  /\ single' = [single EXCEPT ![p].at = "send"]
  /\ UNCHANGED <<arguments, results, mainVars>>

\* Seeded fault: the channel has no buffer, a send waits for its receiver.
SendUnbuffered(p) ==
  /\ single[p].at = "send"
  /\ results = <<>> /\ (main = "loop" \/ (main = "collect" /\ computeInfo))
  /\ results' = Append(results, single[p].ok)
  /\ single' = [single EXCEPT ![p].at = "done"]
  /\ UNCHANGED <<arguments, longest, mainVars>>

\* results <- ok; the channel has room for the answer of every goroutine.
Send(p) ==
  /\ single[p].at = "send"
  /\ Len(results) < Len(entries)
  /\ results' = Append(results, single[p].ok)
  /\ single' = [single EXCEPT ![p].at = "done"]
  /\ UNCHANGED <<arguments, longest, mainVars>>

\* Seeded fault: the loop waits for one answer more than there are partitions.
ReceiveOneMore ==
  /\ main = "loop" /\ results # <<>>
  /\ count' = count + 1
  /\ ok' = (ok /\ Head(results))
  /\ results' = Tail(results)
  /\ kill' = (kill \/ (~ok' /\ ~computeInfo))
  /\ main' = IF (~ok' /\ ~computeInfo) \/ count' > Len(entries) THEN "collect" ELSE "loop"
  /\ UNCHANGED <<arguments, single, longest, timedOut, result, info, visual>>

\* case result := <-results
Receive ==
  /\ main = "loop" /\ results # <<>>
  /\ count' = count + 1
  /\ ok' = (ok /\ Head(results))
  /\ results' = Tail(results)
  /\ kill' = (kill \/ (~ok' /\ ~computeInfo))
  /\ main' = IF (~ok' /\ ~computeInfo) \/ count' >= Len(entries) THEN "collect" ELSE "loop"
  /\ UNCHANGED <<arguments, single, longest, timedOut, result, info, visual>>

\* Seeded fault: after a timeout the loop goes on to hear the answers.
TimeoutWithoutBreak ==
  /\ main = "loop" /\ timeout /\ ~timedOut
  /\ timedOut' = TRUE /\ kill' = TRUE
  /\ UNCHANGED <<arguments, single, longest, results, ok, count, main, result, info, visual>>

\* case <-timeoutChan
Timeout ==
  /\ main = "loop" /\ timeout
  /\ timedOut' = TRUE /\ kill' = TRUE
  /\ main' = "collect"
  /\ UNCHANGED <<arguments, single, longest, results, ok, count, result, info, visual>>

\* Every goroutine is waited for before longest is read.
Wait ==
  /\ main = "collect" /\ computeInfo /\ count < Len(entries)
  /\ results # <<>>
  /\ results' = Tail(results) /\ count' = count + 1
  /\ UNCHANGED <<arguments, single, longest, kill, ok, timedOut, main, result, info, visual>>

Verdict == IF ~ok THEN "Illegal" ELSE IF timedOut THEN "Unknown" ELSE "Ok"

\* Seeded fault: longest is read without waiting.
ReturnEarly ==
  /\ main = "collect"
  /\ result' = Verdict
  /\ info' = IF computeInfo THEN [p \in Partitions |-> Range(longest[p]) \ {<<>>}] ELSE info
  /\ main' = "returned"
  /\ UNCHANGED <<arguments, single, longest, results, kill, ok, timedOut, count, visual>>

Return ==
  /\ main = "collect"
  /\ computeInfo => count >= Len(entries)
  /\ result' = Verdict
  /\ info' = IF computeInfo THEN [p \in Partitions |-> Range(longest[p]) \ {<<>>}] ELSE info
  /\ main' = "returned"
  /\ UNCHANGED <<arguments, single, longest, results, kill, ok, timedOut, count, visual>>

-----------------------------------------------------------------------------
(* computeVisualizationData.                                                *)

Value(p, id, kind) ==
  (CHOOSE e \in Range(entries[p]) : e.id = id /\ e.kind = kind).value

\* The states along a partial linearization; ok is FALSE once Step refuses.
Replay(p, partial) ==
  LET Perform(at, id) ==
        LET step == Step(at.state, Value(p, id, "call"), Value(p, id, "return"))
        IN  [ok |-> at.ok /\ step.ok, state |-> step.state]
  IN  FoldLeft(Perform, [ok |-> TRUE, state |-> InitState], partial)

\* Longest first; Largest has the first of the longest with each operation.
PartitionData(p, partials) ==
  LET shown == SetToSortSeq(partials, LAMBDA a, b : Len(a) > Len(b))
      With(id) == {i \in DOMAIN shown : Contains(shown[i], id)}
      Largest(id) == CHOOSE i \in With(id) :
        \A j \in With(id) : \/ Len(shown[j]) < Len(shown[i])
                            \/ Len(shown[j]) = Len(shown[i]) /\ j >= i
  IN  [PartialLinearizations |-> shown,
       Largest |-> [id \in UNION {Range(s) : s \in partials} |-> Largest(id)]]

\* A partial linearization that the model refuses is a panic.
Visualize ==
  /\ main = "returned" /\ computeInfo
  /\ IF \A p \in Partitions : \A s \in info[p] : Replay(p, s).ok
     THEN main' = "shown" /\ visual' = [p \in Partitions |-> PartitionData(p, info[p])]
     ELSE main' = "panic" /\ UNCHANGED visual
  /\ UNCHANGED <<arguments, single, longest, results, kill, ok, timedOut, count, result, info>>

-----------------------------------------------------------------------------
Goroutine(p) ==
  Killed(p) \/ Call(p) \/ GiveUp(p) \/ Backtrack(p) \/ Complete(p) \/ Assign(p) \/ Send(p)

checkParallel == Receive \/ Timeout \/ Wait \/ Return \/ Visualize

Next == checkParallel \/ \E p \in Partitions : Goroutine(p)

\* Goroutines are scheduled, and so is their caller; a timer fires.
Spec == /\ Init /\ [][Next]_vars
        /\ WF_vars(checkParallel) /\ WF_vars(\E p \in Partitions : Goroutine(p))

-----------------------------------------------------------------------------
(* Properties.                                                              *)

\* checkSingle's list is at every iteration the entries that are not
\* linearized, in their order and linked both ways, however often operations
\* were lifted from it and put back; linearized has exactly the operations of
\* calls, and state is what the model makes of them.
ListIsWhatIsLeft ==
  \A p \in Partitions :
    LET s == single[p]
        left == {i \in DOMAIN entries[p] : entries[p][i].id \notin Linearized(p)}
    IN  s.at = "search" =>
          /\ \A i \in left \cup {0} :
               /\ LET after == {j \in left : j > i} IN
                  s.list.next[i] = IF after = {} THEN Nil
                                   ELSE CHOOSE j \in after : \A k \in after : j <= k
               /\ s.list.next[i] # Nil => s.list.prev[s.list.next[i]] = i
          /\ Linearized(p) = Range(Ids(p, s.calls))
          /\ Replay(p, Ids(p, s.calls)) = [ok |-> TRUE, state |-> s.state]

\* "Ok" and "Illegal" are right about the whole history, for every key and
\* whatever order the sort gave to entries of equal times; the false that a
\* killed search answers never becomes "Illegal".  (After a timeout the answer
\* is "Unknown", unless an illegal partition was heard of before.)
VerdictRight ==
  /\ result = "Ok" => Linearizable(history)
  /\ result = "Illegal" => ~Linearizable(history)

\* The operations of partition p, as its entries have them.
OperationsOf(p) ==
  [i \in 1 .. N(p) |->
    LET The(kind) == CHOOSE e \in Range(entries[p]) : e.id = i - 1 /\ e.kind = kind IN
    [input |-> The("call").value, output |-> The("return").value,
     call |-> The("call").time, return |-> The("return").time]]

\* computeVisualizationData never panics, and what it shows for an operation
\* is, unless the search was cut off, a longest of all partial linearizations
\* with that operation ("longest linearizable prefix that includes the given
\* entry"): the cache hides none.
LargestIsLongest ==
  /\ main # "panic"
  /\ main = "shown" /\ ~timedOut =>
       \A p \in Partitions :
         LET all == PartialLinearizations(OperationsOf(p)) IN
         \A id \in 0 .. N(p) - 1 :
           LET with == {s \in all : Contains(s, id + 1)} IN
           IF with = {} THEN id \notin DOMAIN visual[p].Largest
           ELSE /\ id \in DOMAIN visual[p].Largest
                /\ LET shown == visual[p].PartialLinearizations[visual[p].Largest[id]] IN
                   /\ Contains(shown, id)
                   /\ \A s \in with : Len(s) <= Len(shown)
                   /\ [i \in DOMAIN shown |-> shown[i] + 1] \in all

\* No goroutine writes longest once checkParallel has read it ("otherwise we
\* might race on access to longest[]").
NoLateWrite ==
  [][computeInfo /\ main \in {"returned", "shown"} => UNCHANGED longest]_vars

\* The check returns, with every answer, unless there is nothing to check and
\* no timeout: for an empty history checkParallel waits for ever.
CheckReturns ==
  (entries # <<>> \/ timeout) ~> (main \in {"returned", "shown"})

\* No goroutine is left behind, blocked in its send or searching on, when the
\* caller has lost interest.
GoroutinesEnd == <>[](\A p \in Partitions : single[p].at = "done")
=============================================================================
