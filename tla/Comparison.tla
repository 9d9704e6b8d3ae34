----------------------------- MODULE Comparison -----------------------------
(* bench/compare.py: the sweep of both servers over experiments and rates,   *)
(* and the summary that is made of its rows.                                 *)
(*                                                                           *)
(* A case is one call of benchmark.py (TrialProtocol is what happens in it): *)
(* it fails, or writes a file with one row, which is valid or not.  Others   *)
(* may create result directories meanwhile, and the user may interrupt.      *)
EXTENDS Integers, Sequences, FiniteSets, SequencesExt, Functions

CONSTANTS
  Arguments,       \* the command lines to consider
  MaxDirectories   \* directories of others

VARIABLES
  args,
  pc,              \* "naming", "creating", "sweeping", "running", "summarizing",
                   \* "done" or "raised"
  taken,           \* suffixes of the result directories of others
  suffix,          \* the suffix of the driver's own
  at,              \* the position in the four nested loops
  active_implementations,
  commands, skipped,
  files,           \* output path -> the row in it
  csv_paths,
  metadata,        \* metadata.json
  summary,         \* the headlines and summary.json
  outcome          \* history: case -> what became of it

directoryVars == <<taken, suffix>>
runVars == <<commands, files, csv_paths, outcome>>
sweepVars == <<at, active_implementations, skipped, runVars>>
vars == <<args, pc, directoryVars, sweepVars, metadata, summary>>

None == 0

-----------------------------------------------------------------------------
(* What is to be run.                                                        *)

Ascending(rates) == SortSeq(rates, LAMBDA r, s : r < s)

GroupsOf(experiment, tiers, rates) ==
  [i \in DOMAIN tiers |->
     [experiment |-> experiment, total |-> tiers[i], active |-> tiers[i], rates |-> rates]]

SparseGroups(a) ==
  FlattenSeq([i \in DOMAIN a.sparse_tiers |->
    LET total == a.sparse_tiers[i]
        fitting == SelectSeq(a.sparse_active, LAMBDA n : n <= total)
    IN  [j \in DOMAIN fitting |-> [experiment |-> "sparse", total |-> total,
                                   active |-> fitting[j], rates |-> <<a.sparse_rate>>]]])

experiment_groups(a) ==
  LET selected(experiment, list) == IF experiment \in a.experiments THEN list ELSE << >> IN
  selected("sparse", SparseGroups(a))
    \o selected("dense", GroupsOf("dense", a.dense_tiers, Ascending(a.dense_rates)))
    \o selected("broadcast",
                GroupsOf("broadcast", a.broadcast_tiers, Ascending(a.broadcast_rates)))

Groups == [a \in Arguments |-> experiment_groups(a)]
groups == Groups[args]

SameGroup(g, h) == g.experiment = h.experiment /\ g.total = h.total /\ g.active = h.active

(* What main lets pass: a tier, a rate or a server may be named twice.       *)
Accepted(a) ==
  LET list == experiment_groups(a) IN
  /\ a.runs \in Nat \ {0}
  /\ a.implementations \in Seq({"poll", "epoll"})
  /\ list \in Seq([experiment : {"sparse", "dense", "broadcast"}, total : Nat, active : Nat,
                   rates : Seq(Nat)])
  /\ \A g \in DOMAIN list :
       /\ list[g].experiment # "sparse" => list[g].active = list[g].total
       /\ \A i, j \in DOMAIN list[g].rates : i < j => list[g].rates[i] <= list[g].rates[j]

(* Nothing is named twice.                                                   *)
NoRepeats(a) ==
  LET list == experiment_groups(a) IN
  /\ IsInjective(a.implementations)
  /\ \A g, h \in DOMAIN list : SameGroup(list[g], list[h]) => g = h
  /\ \A g \in DOMAIN list : IsInjective(list[g].rates)

ASSUME ComparisonConstants ==
  /\ MaxDirectories \in Nat
  /\ \A a \in Arguments : Accepted(a)

execution_order(a, trial) ==
  IF trial % 2 = 1 THEN a.implementations ELSE Reverse(a.implementations)

(* The iterations of the loops: their cases, and their order.                *)
PositionsOf(a) ==
  UNION {[trial : 1 .. a.runs, group : {g}, rate : DOMAIN Groups[a][g].rates,
          turn : DOMAIN a.implementations] : g \in DOMAIN Groups[a]}

CaseOf(a, p) ==
  [trial |-> p.trial, experiment |-> Groups[a][p.group].experiment,
   total |-> Groups[a][p.group].total, active |-> Groups[a][p.group].active,
   rate |-> Groups[a][p.group].rates[p.rate], label |-> execution_order(a, p.trial)[p.turn]]

Plan == [a \in Arguments |-> [p \in PositionsOf(a) |-> CaseOf(a, p)]]

Positions == DOMAIN Plan[args]
CaseAt(p) == Plan[args][p]
Cases == Range(Plan[args])

Before(p, q) ==
  \/ p.trial < q.trial
  \/ p.trial = q.trial /\ p.group < q.group
  \/ p.trial = q.trial /\ p.group = q.group /\ p.rate < q.rate
  \/ p.trial = q.trial /\ p.group = q.group /\ p.rate = q.rate /\ p.turn < q.turn

Left == {p \in Positions : Before(at, p)}
NextPositions == LET left == Left IN {p \in left : \A q \in left : ~Before(q, p)}

-----------------------------------------------------------------------------
(* The result directory.                                                     *)

(* One look at whether a name is free.                                       *)
TryName ==
  /\ pc = "naming"
  /\ IF suffix \in taken
       THEN suffix' = suffix + 1 /\ UNCHANGED pc
       ELSE pc' = "creating" /\ UNCHANGED suffix
  /\ UNCHANGED <<args, taken, sweepVars, metadata, summary>>

(* Mutant: mkdir with exist_ok.                                              *)
MakeOrShareDirectory ==
  /\ pc = "creating"
  /\ pc' = "sweeping"
  /\ UNCHANGED <<args, directoryVars, sweepVars, metadata, summary>>

(* mkdir fails if somebody was faster.                                       *)
MakeDirectory ==
  /\ pc = "creating"
  /\ pc' = IF suffix \in taken THEN "raised" ELSE "sweeping"
  /\ UNCHANGED <<args, directoryVars, sweepVars, metadata, summary>>

(* Another driver, started in the same second.                               *)
OtherDirectory ==
  /\ pc \in {"naming", "creating"}
  /\ \E s \in (1 .. MaxDirectories) \ taken : taken' = taken \cup {s}
  /\ UNCHANGED <<args, pc, suffix, sweepVars, metadata, summary>>

-----------------------------------------------------------------------------
(* The sweep.                                                                *)

(* Mutant: an implementation that was invalid once is out for good.          *)
ActiveForGood(p) == active_implementations

(* The implementations still active at a position: all, in a new group.      *)
ActiveAt(p) ==
  IF <<p.trial, p.group>> = <<at.trial, at.group>>
    THEN active_implementations
    ELSE ToSet(args.implementations)

(* Mutant: a skipped case is not recorded.                                   *)
SkipSilently(p) ==
  /\ pc = "sweeping"
  /\ CaseAt(p).label \notin ActiveAt(p)
  /\ at' = p
  /\ active_implementations' = ActiveAt(p)
  /\ UNCHANGED <<args, pc, directoryVars, skipped, runVars, metadata, summary>>

Skip(p) ==
  /\ pc = "sweeping"
  /\ CaseAt(p).label \notin ActiveAt(p)
  /\ at' = p
  /\ active_implementations' = ActiveAt(p)
  /\ skipped' = Append(skipped, CaseAt(p))
  /\ UNCHANGED <<args, pc, directoryVars, runVars, metadata, summary>>

Start(p) ==
  /\ pc = "sweeping"
  /\ CaseAt(p).label \in ActiveAt(p)
  /\ pc' = "running"
  /\ at' = p
  /\ active_implementations' = ActiveAt(p)
  /\ commands' = Append(commands, CaseAt(p))
  /\ UNCHANGED <<args, directoryVars, skipped, files, csv_paths, outcome, metadata, summary>>

(* Mutant: a name without the active connections.                            *)
outputOfTier(c) == <<c.trial, c.experiment, c.total, c.rate, c.label>>

output(c) == <<c.trial, c.experiment, c.total, c.active, c.rate, c.label>>

(* What benchmark.main refuses at once.                                      *)
Refused(c) ==
  c.total < 1 \/ c.active < 1 \/ c.rate <= 0 \/ (c.experiment = "broadcast" /\ c.total < 2)

Row(c, valid) == [case |-> c, valid |-> valid]

(* benchmark.py ends with an error, or with a row in its file.               *)
Fail ==
  LET c == CaseAt(at) IN
  /\ pc = "running"
  /\ outcome' = [d \in DOMAIN outcome \cup {c} |-> IF d = c THEN "failed" ELSE outcome[d]]
  /\ active_implementations' = active_implementations \ {c.label}
  /\ pc' = "sweeping"
  /\ UNCHANGED <<args, directoryVars, at, skipped, commands, files, csv_paths, metadata, summary>>

Finish(valid) ==
  LET c == CaseAt(at) IN
  /\ pc = "running" /\ ~Refused(c)
  /\ outcome' = [d \in DOMAIN outcome \cup {c} |->
                   IF d # c THEN outcome[d] ELSE IF valid THEN "valid" ELSE "invalid"]
  /\ files' = [o \in DOMAIN files \cup {output(c)} |->
                 IF o = output(c) THEN Row(c, valid) ELSE files[o]]
  /\ csv_paths' = Append(csv_paths, output(c))
  /\ active_implementations' =
       IF valid THEN active_implementations ELSE active_implementations \ {c.label}
  /\ pc' = "sweeping"
  /\ UNCHANGED <<args, directoryVars, at, skipped, commands, metadata, summary>>

(* The finally block.                                                        *)
WriteMetadata == metadata' = [commands |-> commands, skipped |-> skipped]

EndSweep ==
  /\ pc = "sweeping" /\ NextPositions = {}
  /\ WriteMetadata
  /\ pc' = "summarizing"
  /\ UNCHANGED <<args, directoryVars, sweepVars, summary>>

Interrupt ==
  /\ \/ pc \in {"sweeping", "running"} /\ WriteMetadata
     \/ pc = "summarizing" /\ UNCHANGED metadata
  /\ pc' = "raised"
  /\ UNCHANGED <<args, directoryVars, sweepVars, summary>>

-----------------------------------------------------------------------------
(* The summary.                                                              *)

(* combine_csvs                                                              *)
rows == [i \in DOMAIN csv_paths |-> files[csv_paths[i]]]

KeyOf(c) == [experiment |-> c.experiment, label |-> c.label, total |-> c.total]
Keys == {k \in {KeyOf(rows[i].case) : i \in DOMAIN rows} : k.experiment # "sparse"}

rate_rows(k, rate) == {i \in DOMAIN rows : KeyOf(rows[i].case) = k /\ rows[i].case.rate = rate}
RatesOf(k) == {rows[i].case.rate : i \in {j \in DOMAIN rows : KeyOf(rows[j].case) = k}}

(* Mutant: trials without a row do not count.                                *)
candidateOfRows(k, rate) == \A i \in rate_rows(k, rate) : rows[i].valid

candidate(k, rate) ==
  /\ Cardinality(rate_rows(k, rate)) = args.runs
  /\ \A i \in rate_rows(k, rate) : rows[i].valid

candidates(k) == {rate \in RatesOf(k) : candidate(k, rate)}

highest(k) ==
  IF candidates(k) = {} THEN None
    ELSE CHOOSE r \in candidates(k) : \A s \in candidates(k) : s <= r

(* Mutant: cases of one tier are one headline.                               *)
headlineKeyOfTier(c) ==
  [experiment |-> c.experiment, label |-> c.label, total |-> c.total, rate |-> c.rate]

headlineKey(c) ==
  [experiment |-> c.experiment, label |-> c.label, total |-> c.total, active |-> c.active,
   rate |-> c.rate]

(* How many valid trials are behind each headline.                           *)
headlines ==
  LET valid_rows == {i \in DOMAIN rows : rows[i].valid} IN
  [k \in {headlineKey(rows[i].case) : i \in valid_rows} |->
     Cardinality({i \in valid_rows : headlineKey(rows[i].case) = k})]

write_summaries ==
  /\ pc = "summarizing"
  /\ summary' = [headlines |-> headlines,
                 invalid_trials |-> Cardinality({i \in DOMAIN rows : ~rows[i].valid}),
                 highest_sustainable |-> [k \in Keys |-> highest(k)]]
  /\ pc' = "done"
  /\ UNCHANGED <<args, directoryVars, sweepVars, metadata>>

-----------------------------------------------------------------------------

NoSummary == [headlines |-> << >>, invalid_trials |-> 0, highest_sustainable |-> << >>]

Init ==
  /\ args \in Arguments
  /\ pc = "naming"
  /\ taken = {} /\ suffix = 1
  /\ at = [trial |-> 0, group |-> 0, rate |-> 0, turn |-> 0]
  /\ active_implementations = {}
  /\ commands = << >> /\ skipped = << >>
  /\ files = << >> /\ csv_paths = << >>
  /\ metadata = [commands |-> << >>, skipped |-> << >>]
  /\ summary = NoSummary
  /\ outcome = << >>

Next ==
  \/ TryName \/ MakeDirectory \/ OtherDirectory
  \/ \E p \in NextPositions : Skip(p) \/ Start(p)
  \/ Fail \/ (\E valid \in BOOLEAN : Finish(valid))
  \/ EndSweep \/ Interrupt \/ write_summaries

Spec == Init /\ [][Next]_vars

-----------------------------------------------------------------------------

(* The rates of a case's group in its trial, of the same server.             *)
SweepOf(c) ==
  {d \in Cases : SameGroup(c, d) /\ c.trial = d.trial /\ c.label = d.label}

ValidSoFar(c) ==
  \A d \in SweepOf(c) : d.rate < c.rate => d \in DOMAIN outcome /\ outcome[d] = "valid"

(* The driver never shares a result directory with another one, however they *)
(* are interleaved.                                                          *)
DirectoryIsItsOwn ==
  pc \notin {"naming", "creating", "raised"} => suffix \notin taken

(* A case is run if all lower rates of its sweep were valid in this trial,   *)
(* and skipped only if one was not, when nothing is named twice.             *)
SkippedAboveInvalid ==
  NoRepeats(args) =>
    /\ \A i \in DOMAIN commands : ValidSoFar(commands[i])
    /\ \A i \in DOMAIN skipped : ~ValidSoFar(skipped[i])

(* metadata.json accounts for every iteration once, run or skipped; when the *)
(* sweep was interrupted, for all that were run.                             *)
MetadataIsComplete ==
  pc \in {"summarizing", "done", "raised"} =>
    /\ DOMAIN outcome \subseteq ToSet(metadata.commands)
    /\ pc # "raised" =>
         /\ Cases = ToSet(metadata.commands) \cup ToSet(metadata.skipped)
         /\ Cardinality(Positions) = Len(metadata.commands) + Len(metadata.skipped)

(* A result file never gets a row of another case, and none is written a     *)
(* second time when nothing is named twice.                                  *)
RowsAreKept ==
  [][\A o \in DOMAIN files : /\ o \in DOMAIN files'
                             /\ files'[o].case = files[o].case
                             /\ NoRepeats(args) => files'[o] = files[o]]_vars

(* Each headline is made of all the valid trials of its case and of no other *)
(* row, and every row that is not behind one is counted as invalid, when     *)
(* nothing is named twice.                                                   *)
EveryTrialIsCounted ==
  LET those(what) == {c \in DOMAIN outcome : outcome[c] = what} IN
  pc = "done" /\ NoRepeats(args) =>
    /\ DOMAIN summary.headlines = {headlineKey(c) : c \in those("valid")}
    /\ \A c \in those("valid") :
         summary.headlines[headlineKey(c)] =
           Cardinality({d \in those("valid") :
                          SameGroup(c, d) /\ c.rate = d.rate /\ c.label = d.label})
    /\ summary.invalid_trials = Cardinality(those("invalid"))

(* The rate reported as sustainable is the highest at which every trial was  *)
(* run and valid, and in every trial all lower rates were valid too, when    *)
(* nothing is named twice.                                                   *)
SustainableIsEarned ==
  pc = "done" /\ NoRepeats(args) =>
    \A c \in {d \in Cases : d.experiment # "sparse"} :
      LET k == KeyOf(c)
          sustained(rate) ==
            \A d \in Cases : KeyOf(d) = k /\ d.rate <= rate =>
              d \in DOMAIN outcome /\ outcome[d] = "valid"
          reported == IF k \in DOMAIN summary.highest_sustainable
                        THEN summary.highest_sustainable[k] ELSE None
      IN  (reported # None /\ c.rate <= reported) <=> sustained(c.rate)

=============================================================================
