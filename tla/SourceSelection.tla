---------------------------- MODULE SourceSelection ----------------------------
(***************************************************************************)
(* Market data from its sources to an analysis.  A monitor inspects        *)
(* batches and appends their issues to the quality log, one line at a time *)
(* (data/quality_store.py); a selection turns the log into an order of     *)
(* sources (module SourceHealth); clients fetch candles along that order,  *)
(* each source behind its cache file (data/sources.py, data/cache.py).     *)
(* Clients share the cache directory, write its files in place, and may    *)
(* die with the process at any point.                                      *)
(***************************************************************************)
EXTENDS CandleQuality, SourceHealth

CONSTANTS
  Clients,
  Worlds    \* what may happen in a behaviour:
            \* watched      <<provider, series>> the monitor inspects
            \* batches      what it may get to see
            \* references   what it may compare that with
            \* days         how many days pass, of Windows
            \* undated      windows of reports with an unreadable time
            \* records      bound of the model: lines in the log
            \* preferences  of selections
            \* sources      lists of sources selections are mapped to
            \* clients      of Clients, the ones that fetch
            \* queries      of Series, what they fetch
            \* answers      candles a source may answer a fetch with
            \* outages      whether it may raise instead
            \* disk         whether a write to the cache may fail
            \* crashes      whether the process may die

ASSUME WorldsAssumption ==
  \A w \in Worlds :
    /\ w.watched \subseteq Providers \X Series
    /\ \A b \in w.batches \cup w.references : IsBatch(b)
    /\ w.days \in Nat \ {0} /\ 1..w.days \subseteq Windows /\ w.undated \subseteq Windows
    /\ w.records \in Nat
    /\ \A r \in w.preferences : r.minimum \in Int /\ r.priority \in [Providers -> Int]
    /\ w.clients \subseteq Clients /\ w.queries \subseteq Series
    /\ {w.outages, w.disk, w.crashes} \subseteq BOOLEAN

VARIABLES
  world,      \* never changes
  today,      \* window of the clock
  log,        \* [Files -> severity counts] of the readable lines
  tail,       \* [Files -> how the file ends]
  monitor,    \* the report being saved, and what is left of it to save
  plan,       \* the router plan last made
  cache,      \* [Providers \X Series -> cache file]
  client      \* [Clients -> a call of MarketDataRouter.fetch_candles]

vars == <<world, today, log, tail, monitor, plan, cache, client>>

\* A file may lack its last line feed ("open"): it can be read until another
\* line is appended.  "mangled" has a line no reader can parse.
Tails == {"clean", "open", "mangled"}
Idle == [file |-> <<1, 1, 1>>, candles |-> << >>, left |-> << >>]
NoPlan == [entries |-> << >>, missing |-> {}, disabled |-> {}, ignored |-> {}]
NoBatch == [provider |-> 0, query |-> 0, candles |-> << >>]
NoFile == [state |-> "none", batch |-> NoBatch]
AtRest == [pc |-> "idle", route |-> << >>, at |-> 1, query |-> 0,
           batch |-> NoBatch, failed |-> << >>]

Busy == {"load", "ask", "open", "write", "judge"}
Places == Busy \cup {"idle", "returned", "raised"}
Readable == \A f \in Files : tail[f] # "mangled"
Lines == FoldSet(LAMBDA f, n : n + RecordCount(log[f]), 0, Files)

TypeOK ==
  /\ world \in Worlds
  /\ today \in 1..world.days
  /\ log \in [Files -> [Severities -> Nat]]
  /\ tail \in [Files -> Tails]
  /\ monitor.left # << >> => monitor.file \in Files
  /\ Range(monitor.left) \subseteq Severities
  /\ \A c \in Clients :
       /\ client[c].pc \in Places
       /\ client[c].pc \in Busy \cup {"returned"} => client[c].at \in DOMAIN client[c].route
       /\ Range(client[c].failed) \subseteq Range(client[c].route)
  /\ \A k \in DOMAIN cache : cache[k].state \in {"none", "torn", "whole"}

Init ==
  /\ world \in Worlds
  /\ today = 1
  /\ log = [f \in Files |-> NoIssues]
  /\ tail = [f \in Files |-> "clean"]
  /\ monitor = Idle
  /\ plan = NoPlan
  /\ cache = [k \in Providers \X Series |-> NoFile]
  /\ client = [c \in Clients |-> AtRest]

records == <<log, tail, monitor>>
routing == <<plan, cache, client>>

Tomorrow ==
  /\ today < world.days
  /\ today' = today + 1
  /\ UNCHANGED <<world, records, routing>>

-----------------------------------------------------------------------------
(* The monitor and the quality log *)

Report(p, s, candles, issues) ==
  /\ Lines + Len(issues) <= world.records
  /\ \E w \in {today} \cup world.undated :
       monitor' = [file |-> <<p, s, w>>, candles |-> candles, left |-> issues]
  /\ UNCHANGED <<world, today, log, tail, routing>>

Inspect(p, s) ==
  /\ monitor.left = << >>
  /\ \E candles \in world.batches : Report(p, s, candles, Issues(candles))

\* A deviation is charged to the primary, whichever of the two is wrong.
Compare(p, s) ==
  /\ monitor.left = << >>
  /\ \E candles \in world.batches, reference \in world.references :
       Report(p, s, candles, ComparisonIssues(candles, reference))

Added(f, severity) == [log EXCEPT ![f][severity] = @ + 1]

(* save_issue.  A line appended to an unfinished one is lost with it. *)
AppendIssue ==
  /\ monitor.left # << >>
  /\ LET f == monitor.file IN
     CASE tail[f] = "clean" ->
            log' = Added(f, Head(monitor.left)) /\ UNCHANGED tail
       [] OTHER ->
            UNCHANGED log /\ tail' = [tail EXCEPT ![f] = "mangled"]
  /\ monitor' = IF Len(monitor.left) = 1 THEN Idle ELSE [monitor EXCEPT !.left = Tail(@)]
  /\ UNCHANGED <<world, today, routing>>

-----------------------------------------------------------------------------
(* Selection *)

\* list_records parses every line of every file before it filters.
Select ==
  /\ Readable
  /\ \E preference \in world.preferences, sources \in world.sources :
       /\ Routable(sources)
       /\ plan' = RouterPlan(log, preference, sources)
  /\ UNCHANGED <<world, today, records, cache, client>>

SelectionRaises ==
  /\ \/ ~Readable
     \/ \E sources \in world.sources : ~Routable(sources)
  /\ plan' = NoPlan
  /\ UNCHANGED <<world, today, records, cache, client>>

-----------------------------------------------------------------------------
(* MarketDataRouter.fetch_candles over CachedCandleSource *)

\* to_router raises when the plan has no entries.
Fetch(c) ==
  /\ client[c].pc \notin Busy
  /\ plan.entries # << >>
  /\ \E q \in world.queries :
       client' = [client EXCEPT ![c] = [AtRest EXCEPT !.pc = "load",
                                          !.route = plan.entries, !.query = q]]
  /\ UNCHANGED <<world, today, records, plan, cache>>

Provider(c) == client[c].route[client[c].at]

FileOf(c) == <<Provider(c), client[c].query>>

Goto(c, place) == client' = [client EXCEPT ![c].pc = place]

(* The source's exception, or the faults of its batch: the next one's turn. *)
Fail(c) ==
  client' = IF client[c].at < Len(client[c].route)
            THEN [client EXCEPT ![c].failed = Append(@, Provider(c)),
                                ![c].at = @ + 1, ![c].pc = "load"]
            ELSE [client EXCEPT ![c].failed = Append(@, Provider(c)),
                                ![c].pc = "raised"]

Hold(c, place, batch) ==
  client' = [client EXCEPT ![c].pc = place, ![c].batch = batch]

(* Bug: a file that cannot be parsed is waited for. *)
LoadWhenReadable(c) ==
  /\ client[c].pc = "load"
  /\ CASE cache[FileOf(c)].state = "none"  -> Goto(c, "ask")
       [] cache[FileOf(c)].state = "whole" -> Hold(c, "judge", cache[FileOf(c)].batch)
       [] OTHER                            -> UNCHANGED client
  /\ UNCHANGED <<world, today, records, plan, cache>>

(* cache.load: whatever was stored once, however old, is the answer; a     *)
(* file that cannot be parsed raises.                                      *)
Load(c) ==
  /\ client[c].pc = "load"
  /\ CASE cache[FileOf(c)].state = "none"  -> Goto(c, "ask")
       [] cache[FileOf(c)].state = "whole" -> Hold(c, "judge", cache[FileOf(c)].batch)
       [] OTHER                            -> Fail(c)
  /\ UNCHANGED <<world, today, records, plan, cache>>

(* Bug: cached before it is inspected. *)
AskAndKeep(c) ==
  /\ client[c].pc = "ask"
  /\ \/ \E candles \in world.answers :
          Hold(c, "open", [provider |-> Provider(c), query |-> client[c].query,
                           candles |-> candles])
     \/ world.outages /\ Fail(c)
  /\ UNCHANGED <<world, today, records, plan, cache>>

(* Only a usable batch goes to the cache; the router judges either kind. *)
Ask(c) ==
  /\ client[c].pc = "ask"
  /\ \/ \E candles \in world.answers :
          Hold(c, IF Usable(candles) THEN "open" ELSE "judge",
               [provider |-> Provider(c), query |-> client[c].query,
                candles |-> candles])
     \/ world.outages /\ Fail(c)
  /\ UNCHANGED <<world, today, records, plan, cache>>

(* cache.save writes in place: an empty file first, its text after. *)
Open(c) ==
  /\ client[c].pc = "open"
  /\ \/ /\ cache' = [cache EXCEPT ![FileOf(c)] = [NoFile EXCEPT !.state = "torn"]]
        /\ Goto(c, "write")
     \/ /\ world.disk
        /\ Fail(c)
        /\ UNCHANGED cache
  /\ UNCHANGED <<world, today, records, plan>>

(* A text written over another client's leaves its own, or both mixed. *)
Write(c) ==
  /\ client[c].pc = "write"
  /\ \/ /\ cache' = [cache EXCEPT ![FileOf(c)] =
                       [state |-> "whole", batch |-> client[c].batch]]
        /\ Goto(c, "judge")
     \/ /\ cache[FileOf(c)].state = "whole"
        /\ cache' = [cache EXCEPT ![FileOf(c)] = [NoFile EXCEPT !.state = "torn"]]
        /\ Goto(c, "judge")
     \/ /\ world.disk
        /\ cache' = [cache EXCEPT ![FileOf(c)] = [NoFile EXCEPT !.state = "torn"]]
        /\ Fail(c)
  /\ UNCHANGED <<world, today, records, plan>>

Judge(c) ==
  /\ client[c].pc = "judge"
  /\ IF Usable(client[c].batch.candles) THEN Goto(c, "returned") ELSE Fail(c)
  /\ UNCHANGED <<world, today, records, plan, cache>>

-----------------------------------------------------------------------------
(* The process dies.  A line being appended is on disk, cut short, without *)
(* its line feed, or not at all.                                           *)
Crash ==
  /\ world.crashes
  /\ monitor.left # << >> \/ \E c \in Clients : client[c].pc \in Busy
  /\ IF monitor.left = << >> THEN UNCHANGED <<log, tail>>
     ELSE LET f == monitor.file IN
          \/ UNCHANGED <<log, tail>>
          \/ /\ tail' = [tail EXCEPT ![f] = "mangled"]
             /\ UNCHANGED log
          \/ /\ tail[f] = "clean"
             /\ tail' = [tail EXCEPT ![f] = "open"]
             /\ log' = Added(f, Head(monitor.left))
  /\ monitor' = Idle
  /\ plan' = NoPlan
  /\ client' = [c \in Clients |-> AtRest]
  /\ UNCHANGED <<world, today, cache>>

Work(c) == Load(c) \/ Ask(c) \/ Open(c) \/ Write(c) \/ Judge(c)

Next ==
  \/ Tomorrow \/ AppendIssue \/ Select \/ SelectionRaises \/ Crash
  \/ \E k \in world.watched : Inspect(k[1], k[2]) \/ Compare(k[1], k[2])
  \/ \E c \in world.clients : Fetch(c) \/ Work(c)

Spec == Init /\ [][Next]_vars
\* A client's thread is scheduled and every source answers or raises.
FairSpec == Spec /\ \A c \in Clients : WF_vars(Work(c))

-----------------------------------------------------------------------------
(* Properties *)

(* A batch the monitor finds nothing wrong with is a series a feature can  *)
(* be computed from: every timestamp is readable and, where texts and      *)
(* instants agree in order, the next is later and at most half an interval *)
(* late.                                                                   *)
CleanBatchIsContinuous ==
  LET b == monitor.candles
      step(i) == b[i + 1].at - b[i].at
  IN  /\ b # << >> /\ Issues(b) = << >> /\ Interval > 0 /\ Len(b) > 1
      /\ \A i \in 1..(Len(b) - 1) : b[i].text < b[i + 1].text => b[i].at < b[i + 1].at
      =>
        \A i \in 1..(Len(b) - 1) :
          /\ Unparsable \notin {b[i].at, b[i + 1].at}
          /\ step(i) > 0 /\ 2 * step(i) <= 3 * Interval

Newest(p) == LET points == Points(log, p) IN
             {x \in points : x[1] = Max({y[1] : y \in points})}
Selected(preference) == Range(Selection(log, preference))

(* "So that a source whose long-term average is still good but which has   *)
(* clearly deteriorated recently is not selected as primary any more"      *)
(* (provider_selection_policy.md section 4).  What the code keeps of it:   *)
(* however long and good its past, a provider is not selected once every   *)
(* series on record for the newest window is below the minimum.            *)
RecentCollapseDisables ==
  \A p \in Providers, preference \in world.preferences :
    /\ HasReliability(log, p)
    /\ \A x \in Newest(p) : PointScore(log, p, x) < preference.minimum
    => p \notin Selected(preference)

(* The sentence as it stands: one series that has fallen below the minimum *)
(* in the newest window, on however many records, is enough.               *)
RecentDegradationDisables ==
  \A preference \in world.preferences, p \in Providers :
    (\E x \in Newest(p) : PointScore(log, p, x) < preference.minimum)
      => p \notin Selected(preference)

(* More issues in a window and series that are on record already never     *)
(* move a provider up: not from disabled to selected, and not past another *)
(* provider.  (A first issue may: no record counts as a health of 80.)     *)
Ahead(order, p) ==
  {q \in Range(order) :
     \E i, j \in DOMAIN order : order[i] = q /\ order[j] = p /\ i < j}
MoreOfTheSameNeverHelps ==
  [][\A p \in {f[1] : f \in {g \in Files : log'[g] # log[g]}} :
       /\ \A f \in Files : f[1] # p => log'[f] = log[f]
       /\ Points(log', p) = Points(log, p)
       => \A preference \in world.preferences :
            LET before == Selection(log, preference)
                after == Selection(log', preference)
            IN  p \in Range(after) =>
                  p \in Range(before) /\ Ahead(before, p) \subseteq Ahead(after, p)]_log

(* The order respects the record: a selected provider that has, in the     *)
(* same windows and series, no issue more than another, and is no worse in *)
(* tier and wishes, is never behind it, unless by name alone.              *)
NoDirtier(p, q) ==
  \A s \in Series, w \in Windows, severity \in Severities :
    /\ log[<<p, s, w>>][severity] <= log[<<q, s, w>>][severity]
    /\ (RecordCount(log[<<p, s, w>>]) = 0) = (RecordCount(log[<<q, s, w>>]) = 0)
CleanerNeverTrails ==
  \A p, q \in Providers :
    /\ p < q
    /\ HasReliability(log, p)
    /\ NoDirtier(p, q)
    /\ TierBonus[Profiles[p].tier] >= TierBonus[Profiles[q].tier]
    => \A preference \in world.preferences :
         /\ {p, q} \subseteq Selected(preference)
         /\ preference.priority[p] >= preference.priority[q]
         /\ q \in preference.preferred => p \in preference.preferred
         => p \in Ahead(Selection(log, preference), q)

(* A fetch that returns has tried the sources in the order of the plan,    *)
(* each of those before has failed, and the batch is a usable answer of    *)
(* the one that did not, to this query; one that raises has tried them     *)
(* all.                                                                    *)
FirstUsableWins ==
  \A c \in Clients :
    /\ client[c].pc = "returned" =>
         /\ client[c].failed = SubSeq(client[c].route, 1, client[c].at - 1)
         /\ client[c].batch.provider = Provider(c)
         /\ client[c].batch.query = client[c].query
         /\ Usable(client[c].batch.candles)
    /\ client[c].pc = "raised" => client[c].failed = client[c].route

(* Whatever clients write at once, fail to write or leave half written,    *)
(* a cache file that can be read holds a usable batch of its own source    *)
(* and query.                                                              *)
CacheIsSound ==
  \A k \in DOMAIN cache : cache[k].state = "whole" =>
    /\ Usable(cache[k].batch.candles)
    /\ <<cache[k].batch.provider, cache[k].batch.query>> = k

(* What a client gets, and what it leaves for the clients after it, is a   *)
(* usable batch of the source and the query it stands for.                 *)
FetchInv == TypeOK /\ FirstUsableWins /\ CacheIsSound

(* Every fetch ends, whatever the sources answer and whatever a crash left *)
(* in the cache: a torn file costs its source, never the fetch.            *)
FetchEnds == \A c \in Clients : client[c].pc \in Busy ~> client[c].pc \notin Busy
=============================================================================
