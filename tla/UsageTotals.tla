---------------------------- MODULE UsageTotals ----------------------------
(***************************************************************************)
(* What usage_report.py makes of atop's records.  Programs run, come and   *)
(* go; atop writes down every running process now and then, its CPU time   *)
(* since it started and its memory; a report folds the records of every    *)
(* day's log by process and by program, and merges the days.               *)
(*                                                                         *)
(* Time goes in seconds.  A record is a sequence of tokens, as the parser  *)
(* meets it after the six that all records share.                          *)
(***************************************************************************)
EXTENDS Integers, Sequences, FiniteSets, FiniteSetsExt, SequencesExt, Functions

CONSTANTS
  Pids,          \* process ids, which may be used again
  Programs,      \* names of programs, each a sequence of words
  Closing,       \* words that end in a closing parenthesis
  Rss(_, _),     \* memory of a program after so many ticks, in KiB
  HZ, NCPU,
  SecondsPerDay, MaxClock,
  MaxStarts,     \* bound on processes started and programs exchanged
  Begins,        \* where a report may begin
  MibKb,         \* KiB in a MiB
  Top,           \* rows of a table
  MaxSiblings,   \* other programs a row of the RAM table names
  None

ASSUME MachineAssumption ==
  /\ HZ \in Nat \ {0} /\ NCPU \in Nat \ {0} /\ MaxStarts \in Nat
  /\ IsFiniteSet(Pids) /\ Programs \subseteq Seq(STRING) \ {<<>>}
  /\ \A n \in Programs, t \in 0 .. HZ * MaxClock : Rss(n, t) \in Nat
\* The parser takes the first word that ends in a parenthesis for the end of the name,
\* and where it is not, takes the clock rate for CPU time: such names are left out.
ASSUME NamesAssumption == \A n \in Programs : \A i \in 1 .. Len(n) - 1 : n[i] \notin Closing
ASSUME ReportAssumption ==
  /\ SecondsPerDay \in Nat \ {0} /\ MaxClock \in Nat /\ Begins \subseteq Nat
  /\ MibKb \in Nat \ {0} /\ Top \in Nat /\ MaxSiblings \in Nat

VARIABLES
  clock,
  procs,    \* what runs: its program, an identity and its CPU ticks
  starts,
  log,      \* the daily logs: sequences of samples
  spent,    \* the CPU ticks that truly went to each process id
  report    \* the one just made, or None

vars == <<clock, procs, starts, log, spent, report>>

Day(sec) == sec \div SecondsPerDay
Days == 0 .. Day(MaxClock)

Init == /\ clock = 0 /\ procs = <<>> /\ starts = 0 /\ report = None
        /\ log = [d \in Days |-> <<>>] /\ spent = [p \in Pids |-> 0]

(***************************************************************************)
(* The machine.                                                            *)
(***************************************************************************)
Start(pid, program) ==
  /\ pid \notin DOMAIN procs /\ starts < MaxStarts /\ starts' = starts + 1
  /\ procs' = [q \in DOMAIN procs \union {pid} |->
       IF q = pid THEN [program |-> program, id |-> starts', ticks |-> 0] ELSE procs[q]]
  /\ report' = None /\ UNCHANGED <<clock, log, spent>>

\* exec: the process goes on under another name.
Exec(pid, program) ==
  /\ pid \in DOMAIN procs /\ procs[pid].program # program
  /\ starts < MaxStarts /\ starts' = starts + 1
  /\ procs' = [procs EXCEPT ![pid].program = program]
  /\ report' = None /\ UNCHANGED <<clock, log, spent>>

End(pid) == /\ pid \in DOMAIN procs /\ procs' = Restrict(procs, DOMAIN procs \ {pid})
            /\ report' = None /\ UNCHANGED <<clock, starts, log, spent>>

\* A second passes, in which at most NCPU processes have a CPU, and atop may
\* be running and take a sample; what it knows of the moment stands beside
\* what no log holds.
Run(pids, sampled) ==
  /\ clock < MaxClock /\ clock' = clock + 1
  /\ procs' = [p \in DOMAIN procs |->
       [procs[p] EXCEPT !.ticks = IF p \in pids THEN @ + HZ ELSE @]]
  /\ spent' = [p \in Pids |-> IF p \in pids THEN spent[p] + HZ ELSE spent[p]]
  /\ log' = IF sampled /\ procs # <<>>
            THEN [log EXCEPT ![Day(clock')] =
                   Append(@, [epoch |-> clock', procs |-> procs', spent |-> spent'])]
            ELSE log
  /\ report' = None /\ UNCHANGED starts

(***************************************************************************)
(* atop's records of one process: a name in parentheses, which may have    *)
(* spaces, a state, then HZ or the page size before what is wanted.  The   *)
(* parenthesis that ends the name ends its last word, whatever that is.    *)
(***************************************************************************)
Word(text, opens, closes) ==
  [text |-> text, int |-> None, opens |-> opens, closes |-> closes]
Number(n) == [text |-> "", int |-> n, opens |-> FALSE, closes |-> FALSE]
NameTokens(name) ==
  [i \in DOMAIN name |-> Word(name[i], i = 1, i = Len(name) \/ name[i] \in Closing)]
State == Word("S", FALSE, FALSE)

\* The first second of a process goes to the system, the rest to the user.
PrcRecord(pid, p) ==
  LET stime == IF p.ticks = 0 THEN 0 ELSE HZ IN
  <<Number(pid)>> \o NameTokens(p.program)
    \o <<State, Number(HZ), Number(p.ticks - stime), Number(stime)>>
PrmRecord(pid, p) ==
  LET rsize == Rss(p.program, p.ticks) IN
  <<Number(pid)>> \o NameTokens(p.program)
    \o <<State, Number(4), Number(4 * rsize), Number(rsize)>>

(***************************************************************************)
(* Parsing.                                                                *)
(***************************************************************************)
\* Mutant: a name is one token.
BuggyParseName(parts, i) == [name |-> <<parts[i].text>>, next |-> i + 1]
\* The name is rejoined up to the token that closes the parenthesis.
ParseName(parts, i) ==
  LET last == IF parts[i].opens
              THEN Min({j \in i .. Len(parts) : parts[j].closes} \union {Len(parts)})
              ELSE i
  IN  [name |-> [k \in 1 .. last - i + 1 |-> parts[i + k - 1].text], next |-> last + 1]

ParsePrc(parts) ==
  LET n == ParseName(parts, 2) IN
  [name |-> n.name, ticks |-> parts[n.next + 2].int + parts[n.next + 3].int]
ParsePrm(parts) ==
  LET n == ParseName(parts, 2) IN [name |-> n.name, rss |-> parts[n.next + 3].int]

(***************************************************************************)
(* Folding.  Of a process seen more than once counts the difference, of    *)
(* one seen once the value itself; the name last seen wins.                *)
(***************************************************************************)
SeenPids(samples) == UNION {DOMAIN samples[i].procs : i \in DOMAIN samples}

\* The samples that tell of a process id.
Seen(samples, pid) == {i \in DOMAIN samples : pid \in DOMAIN samples[i].procs}

\* What is kept of it: _PidCpu and _PidRam.
PidCpu(samples, pid) ==
  LET seen == Seen(samples, pid)
      row == [i \in seen |-> ParsePrc(PrcRecord(pid, samples[i].procs[pid]))]
  IN  [name |-> row[Max(seen)].name, samples |-> Cardinality(seen),
       first_ticks |-> row[Min(seen)].ticks, last_ticks |-> row[Max(seen)].ticks]
PidRam(samples, pid) ==
  LET seen == Seen(samples, pid)
      row == [i \in seen |-> ParsePrm(PrmRecord(pid, samples[i].procs[pid]))]
  IN  [peak_kb |-> Max({row[i].rss : i \in seen}), samples |-> Cardinality(seen),
       sum_kb |-> SumFunction([i \in seen |-> row[i].rss])]

\* Mutant: the latest value always.
BuggyDeltaTicks(cpu) == cpu.last_ticks
DeltaTicks(cpu) == IF cpu.samples >= 2 THEN Max({cpu.last_ticks - cpu.first_ticks, 0})
                   ELSE cpu.last_ticks
\* In whole KiB: the code keeps the fraction.
AvgKb(ram) == ram.sum_kb \div ram.samples

\* _fold_pid_aggregates: {program: ProcAgg} of one day's log.
FoldPids(samples) ==
  LET pids == SeenPids(samples)
      cpu == [p \in pids |-> PidCpu(samples, p)]
      ram == [p \in pids |-> PidRam(samples, p)]
      Of(n) == {p \in pids : cpu[p].name = n}
  IN  [n \in {cpu[p].name : p \in pids} |->
        [cpu_ticks   |-> SumFunction([p \in Of(n) |-> DeltaTicks(cpu[p])]),
         peak_rss_kb |-> Max({ram[p].peak_kb : p \in Of(n)}),
         rss_kb_sum  |-> SumFunction([p \in Of(n) |-> AvgKb(ram[p])]),
         rss_samples |-> Cardinality(Of(n)),
         pid_count   |-> Cardinality(Of(n))]]

NoAgg == [cpu_ticks |-> 0, peak_rss_kb |-> 0, rss_kb_sum |-> 0, rss_samples |-> 0,
          pid_count |-> 0]
AggOf(aggs, n) == IF n \in DOMAIN aggs THEN aggs[n] ELSE NoAgg

\* Mutant: the averages add up, and how many they are of does not.
BuggyMerged(a, b) ==
  [cpu_ticks   |-> a.cpu_ticks + b.cpu_ticks,
   peak_rss_kb |-> Max({a.peak_rss_kb, b.peak_rss_kb}),
   rss_kb_sum  |-> a.rss_kb_sum + b.rss_kb_sum,
   rss_samples |-> Max({a.rss_samples, b.rss_samples}),
   pid_count   |-> a.pid_count + b.pid_count]
\* One program on two days.
Merged(a, b) ==
  [cpu_ticks   |-> a.cpu_ticks + b.cpu_ticks,
   peak_rss_kb |-> Max({a.peak_rss_kb, b.peak_rss_kb}),
   rss_kb_sum  |-> a.rss_kb_sum + b.rss_kb_sum,
   rss_samples |-> a.rss_samples + b.rss_samples,
   pid_count   |-> a.pid_count + b.pid_count]
MergeProcAggs(dst, src) ==
  [n \in DOMAIN dst \union DOMAIN src |-> Merged(AggOf(dst, n), AggOf(src, n))]
MergeAll(parts) == FoldLeft(MergeProcAggs, <<>>, parts)

\* The coverage of one log, and of several: the time between the logs does
\* not count.
Window(samples) == [start |-> Head(samples).epoch, end |-> Last(samples).epoch,
                    seconds |-> Last(samples).epoch - Head(samples).epoch]
\* Mutant: the coverage of the longest day.
BuggyMergeWindows(windows) ==
  LET real == Range(windows) IN
  [start |-> Min({w.start : w \in real}), end |-> Max({w.end : w \in real}),
   seconds |-> Max({w.seconds : w \in real})]
MergeWindows(windows) ==
  LET real == Range(windows) IN
  [start |-> Min({w.start : w \in real}), end |-> Max({w.end : w \in real}),
   seconds |-> SumFunction([i \in DOMAIN windows |-> windows[i].seconds])]

(***************************************************************************)
(* The tables.  Programs whose peaks round to one MiB share a row, under   *)
(* the name of the one with the most CPU, beside some of the others and    *)
(* the number of the rest; sorts keep the order of what is equal, which    *)
(* CHOOSE stands for.                                                      *)
(***************************************************************************)
\* sorted(): the members of K by their keys, from the least on.
Sorted(K, key) == CHOOSE s \in Bijection(1 .. Cardinality(K), K) :
                    \A i, j \in DOMAIN s : i < j => key[s[i]] <= key[s[j]]
Cut(seq, most) == SubSeq(seq, 1, Min({most, Len(seq)}))
\* round(): to the nearest, a half to the even one.
Round(n, d) == LET whole == n \div d  twice == 2 * (n % d) IN
               IF twice > d \/ (twice = d /\ whole % 2 = 1) THEN whole + 1 ELSE whole

Bucket(agg) == Round(agg.peak_rss_kb, MibKb)
Beats(a, b) == \/ a.cpu_ticks > b.cpu_ticks
               \/ a.cpu_ticks = b.cpu_ticks /\ a.pid_count >= b.pid_count
WithMemory(aggs) == {n \in DOMAIN aggs : aggs[n].peak_rss_kb > 0}
Beside(aggs, n) == {m \in WithMemory(aggs) : Bucket(aggs[m]) = Bucket(aggs[n])}

\* sort(reverse=True): each after those that it does not beat.
ByUse(aggs, B) ==
  Sorted(B, [n \in B |-> Cardinality({m \in B : ~Beats(aggs[n], aggs[m])})])

DedupeRam(aggs) ==
  LET Row(B) == [rep |-> Head(ByUse(aggs, B)), siblings |-> Tail(ByUse(aggs, B))]
      rows == {Row(Beside(aggs, n)) : n \in WithMemory(aggs)}
  IN  Sorted(rows, [r \in rows |-> -aggs[r.rep].peak_rss_kb])

\* Mutant: what is cut is not spoken of.
BuggyRamRow(row) ==
  [rep |-> row.rep, named |-> Cut(row.siblings, MaxSiblings), more |-> 0]
\* The siblings named, and in "(+N more)" the number of the rest.
RamRow(row) ==
  [rep |-> row.rep, named |-> Cut(row.siblings, MaxSiblings),
   more |-> Max({Len(row.siblings) - MaxSiblings, 0})]
RamTable(aggs) ==
  LET top == Cut(DedupeRam(aggs), Top) IN [i \in DOMAIN top |-> RamRow(top[i])]

(***************************************************************************)
(* A report on all from a second on: the first day is read from there, the *)
(* later ones in full, and days without a sample are passed over.          *)
(***************************************************************************)
Segments(begin) ==
  LET Early(d) == {i \in DOMAIN log[d] : log[d][i].epoch < begin}
      From(d) == SubSeq(log[d], Cardinality(Early(d)) + 1, Len(log[d]))
      days == {d \in Days : d >= Day(begin) /\ d <= Day(clock) /\ From(d) # <<>>}
      order == Sorted(days, [d \in days |-> d])
  IN  [i \in DOMAIN order |-> From(order[i])]

AggregateSegments(segments) ==
  [cpu |-> MergeAll([i \in DOMAIN segments |-> FoldPids(segments[i])]),
   window |-> MergeWindows([i \in DOMAIN segments |-> Window(segments[i])])]

\* A coverage of no time counts as a day.
ReportOf(segments) ==
  LET all == AggregateSegments(segments) IN
  [read |-> segments, aggs |-> all.cpu,
   seconds |-> IF all.window.seconds = 0 THEN SecondsPerDay ELSE all.window.seconds]
\* A report changes nothing, so that a second one of the same moment is as the first.
MakeReport(begin) ==
  /\ report = None
  /\ LET segments == Segments(begin) IN segments # <<>> /\ report' = ReportOf(segments)
  /\ UNCHANGED <<clock, procs, starts, log, spent>>

Next == \/ \E pid \in Pids, n \in Programs : Start(pid, n) \/ Exec(pid, n)
        \/ \E pid \in Pids : End(pid)
        \/ \E pids \in SUBSET DOMAIN procs : Cardinality(pids) <= NCPU
             /\ \E sampled \in BOOLEAN : Run(pids, sampled)
        \/ \E begin \in Begins : MakeReport(begin)

Spec == Init /\ [][Next]_vars

-----------------------------------------------------------------------------
(***************************************************************************)
(* Against what truly happened.                                            *)
(***************************************************************************)
Reported == report # None
Read == report.read

SumOver(f(_)) == SumFunction([i \in DOMAIN Read |-> f(Read[i])])
Charges(aggs) == SumFunction([n \in DOMAIN aggs |-> aggs[n].cpu_ticks])
Charged == Charges(report.aggs)

\* What a process id, and what all of them, had between the first and the last
\* sample of a log.
SpentBy(p, samples) == Last(samples).spent[p] - Head(samples).spent[p]
SpentByAll(samples) == SumFunction([p \in Pids |-> SpentBy(p, samples)])

\* What processes of which only the first sample of a log tells brought along.
Only(samples) == {p \in DOMAIN Head(samples).procs : Seen(samples, p) = {1}}
BroughtAlong(samples) == SumFunction([p \in Only(samples) |-> Head(samples).procs[p].ticks])

\* No CPU time is invented.  All programs together are charged at most what
\* was had between the first and the last sample of each log, and what came
\* along with a process that is in the first alone; process ids that are used
\* again, programs exchanged by exec and several logs do not change that.
NothingInvented ==
  Reported => Charged <= SumOver(LAMBDA s : SpentByAll(s) + BroughtAlong(s))

\* A process that is there, under one name, in every sample of a log.
Steady(p, samples) ==
  /\ \A i \in DOMAIN samples : p \in DOMAIN samples[i].procs
  /\ \A i, j \in DOMAIN samples :
       /\ samples[i].procs[p].program = samples[j].procs[p].program
       /\ samples[i].procs[p].id = samples[j].procs[p].id
AllSteady(samples) == Len(samples) >= 2 /\ \A p \in SeenPids(samples) : Steady(p, samples)

\* What the processes of one program had, where all are steady.
HadBy(n, samples) ==
  SumFunction([p \in {q \in SeenPids(samples) : Head(samples).procs[q].program = n} |->
                 Last(samples).procs[p].ticks - Head(samples).procs[p].ticks])

\* Where all processes last from the first to the last sample of each log,
\* every program is charged exactly what its processes had: no program's time
\* goes to another, and the merging neither drops a log nor counts one twice.
SteadyIsExact ==
  (Reported /\ \A i \in DOMAIN Read : AllSteady(Read[i])) =>
    \A n \in Programs : AggOf(report.aggs, n).cpu_ticks
      = SumOver(LAMBDA s : HadBy(n, s))

\* "Avg CPU% (of box)" adds up to no more than a hundred, unless a process is
\* in the first sample of a log alone.
BoxIsNotOverbooked ==
  (Reported /\ \A i \in DOMAIN Read : Only(Read[i]) = {}) =>
    Charged <= HZ * NCPU * report.seconds

\* The memory columns agree with the records: no average above its peak, and
\* the highest peak is the largest a process was seen with.
MemoryAgrees ==
  Reported =>
    /\ \A n \in DOMAIN report.aggs : LET a == report.aggs[n] IN
         a.rss_samples > 0 /\ a.rss_kb_sum <= a.peak_rss_kb * a.rss_samples
    /\ Max({report.aggs[n].peak_rss_kb : n \in DOMAIN report.aggs})
         = Max(UNION {UNION {{Rss(Read[i][j].procs[p].program, Read[i][j].procs[p].ticks) :
                 p \in DOMAIN Read[i][j].procs} : j \in DOMAIN Read[i]} : i \in DOMAIN Read})

\* No program is in two rows of the RAM table, and every row accounts for all that
\* share its peak: those it names and those it only counts, which have no more CPU.
\* Any other program with memory is missing only below a full table of larger ones.
NamesIn(row) == {row.rep} \union Range(row.named)
RamTableIsFair ==
  Reported =>
    LET aggs == report.aggs
        table == RamTable(aggs)
        named == UNION {NamesIn(table[i]) : i \in DOMAIN table}
    IN  /\ \A i, j \in DOMAIN table : i # j => NamesIn(table[i]) \intersect NamesIn(table[j]) = {}
        /\ \A i \in DOMAIN table : LET all == Beside(aggs, table[i].rep) IN
             /\ NamesIn(table[i]) \subseteq all
             /\ Cardinality(NamesIn(table[i])) + table[i].more = Cardinality(all)
             /\ \A n \in all \ NamesIn(table[i]) : \A m \in NamesIn(table[i]) : Beats(aggs[m], aggs[n])
        /\ \A n \in WithMemory(aggs) :
             \/ \E i \in DOMAIN table : n \in Beside(aggs, table[i].rep)
             \/ Len(table) = Top /\ \A m \in named : aggs[m].peak_rss_kb > aggs[n].peak_rss_kb

(***************************************************************************)
(* What the report says of itself, and the code does not do.               *)
(***************************************************************************)

\* _usage_report_render.py: CPU-seconds "reflect CPU consumed during the
\* coverage window only, not since process start".
OnlyTheWindow == Reported => Charged <= SumOver(SpentByAll)
=============================================================================
