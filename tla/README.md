# A TLA+ model of the iqos xApp

The xApp connects to a near-RT RIC through the FlexRIC library, subscribes to
the KPM service model of every connected E2 node, logs the indications that
arrive for `EXP_TIME` (60 s), removes the subscriptions and exits. This
directory holds TLA+ modules of it, instances for the model checker TLC and
proofs for TLAPS. File and line numbers are of this repository; asserts are
modelled as active, because the Release flags of `CMakeLists.txt` are `-O3`
without `NDEBUG`.

## 1. Inventory

| Component | State | Operations | Talks to |
|---|---|---|---|
| `src/main.cpp` | `args`, the snapshot `e2Nodes` | `init_xapp_api`, `e2_nodes_xapp_api`, `KpmManager::start`, the loop on `try_stop_xapp_api`, deferred `free_e2_node_arr_xapp` | FlexRIC (calls), KpmManager (call) |
| `KpmManager::start`, `gen_kpm_subs` and below (`src/kpmManager.cpp`) | `hndl[]`, `mtx`, the data of one subscription | find KPM in a node's RAN functions, build the subscription, subscribe, sleep, remove | FlexRIC (synchronous calls), passes `sm_cb_kpm` as the callback |
| `sm_cb_kpm` and below (`src/kpmManager.cpp`) | static `mtx`, static `counter`; per call: latency, loop indices | log one indication: header, UE identity, measurements | called by library threads; shares the log and the process with `main` |
| `E2Info` (`src/e2Info.cpp`) | shallow copy of the snapshot | print a table, list the ids | tabulate (calls); nothing creates one yet |
| tabulate (`libs/tabulate`, vendored, called by `E2Info`) | texts and formats of a table, its rows and its cells; `formats_` of a Markdown exporter; the styles switched on in a stream | `add_row`, the setters of four kinds of formats, `print`, `str`, `shape`, three exporters | writes to a stream |
| `configureLogger` (`src/logger.cpp`) | spdlog's default logger | set once | - |
| Start-up configuration (`configs/xApp.conf`, `scripts/run.sh`, `main.cpp:19`) | the address of the RIC | command line, `sed` on a configuration file, override | FlexRIC |
| FlexRIC, spdlog, `libs/test/rnd` | external, vendored or a submodule | - | the last generates the indications of emulated E2 nodes |

What is hard here: indications arrive on threads of the library, several at
once and as soon as the RIC has accepted a subscription, that is before `start`
has stored its handle; nodes come and go after the snapshot; the callback still
runs when the subscriptions are removed; the data in an indication are lists
that refer to each other by position; every assertion and every null entry of a
dispatch table ends the whole process, in the middle of whatever the other
threads do. In tabulate the order of the calls is what is hard: looking at a
format stores it, merged from three layers, so that a print or an export between
two setters may change what the second one reaches; widths, wrapping, hyphens and
padding are computed in one place and used in another. PROJECT.json lists these
hazards at their lines, with the properties that would catch them going wrong.

What makes the components correct:

- *callback*: the report of an indication is whole and unmixed, reports are
  numbered in order; every indication is reported unless the process ends; only
  an unprintable indication ends it;
- *subscription manager*: exactly the nodes with a REPORT service are subscribed,
  once, for something the xApp reads; every handle is removed; the deferred frees
  balance the allocations;
- *main*: the process ends, no callback is cut off by its exit, nothing is used
  after it was freed;
- *tabulate*: what is set on a cell is what is printed for it, and a setter changes
  how the cells it is meant for are printed and no others; the printed lines are whole
  and match; a style stays in its cell; writing a table changes nothing;
- *E2Info*: each node stands in its own row, its identifiers below their titles.

## 2. Modules

| Module | Models |
|---|---|
| `KpmMessages` | constant level: what an indication holds, which lines each part of it is printed as, what reading a record can do |
| `KpmCallback` | `sm_cb_kpm` on a set of threads: one action per print call or per loop end |
| `KpmReports` | abstract specification: a log made of whole reports, appended one at a time |
| `KpmCallbackReports` | the mapping of `KpmCallback` to `KpmReports`, and the invariant that makes each report whole |
| `KpmCallback_proofs` | inductive invariant and theorems of `KpmCallback` |
| `SeqInduction` | lemmas: induction over a set of numbers, what `FlattenSeq` computes |
| `KpmReports_proofs` | `KpmCallback` implements `KpmReports` |
| `KpmSubs` | constant level: `get_kpm_idx`, `gen_kpm_subs`, what `start` does with a node |
| `KpmSubLife` | abstract specification: the data of a subscription as one block that is made, sent and freed |
| `KpmSubsAlloc` | `gen_kpm_subs`, `fill_report_style_4`, `filter_predicate`, `fill_act_def_frm_1`, `fill_kpm_label` and `free_kpm_sub_data`, one action per allocation |
| `KpmSubsAlloc_proofs` | inductive invariant and theorems of `KpmSubsAlloc`, refinement of `KpmSubLife` |
| `XApp` | `main`, `start`, the RIC, the nodes, and an instance of `KpmCallback` |
| `XApp_proofs` | inductive invariant and theorems of `XApp`: subscriptions, memory, exit; refinement of `KpmCallback` |
| `TabText` | constant level: trimming, splitting and wrapping texts (`format.hpp`) |
| `TabText_proofs` | lemmas about trimming, words, lines; no line of a wrapped text is too long, and no letter of it is lost |
| `TabFormat` | constant level: the members of a format, its setters, `merge` (`format.hpp`, `column.hpp`) |
| `TabStyle` | constant level: escape sequences (`termcolor.hpp`, `printer.hpp`) |
| `TabSheet` | constant level: a table, its rows and cells, looking at formats, sizes (`table.hpp`, `table_internal.hpp`, `row.hpp`, `cell.hpp`, `column.hpp`) |
| `TabPrint` | constant level: `Printer::print_table` and what it calls |
| `TabExport` | constant level: the Markdown, AsciiDoc and LaTeX exporters |
| `E2Info` | constant level: `E2Info::printE2Nodes` |
| `Tables` | a program that makes any of these calls in any order; composes all of the above |
| `Tables_proofs` | inductive invariant and theorems of `Tables`: what is set and what is shown |
| `TablesPrint_proofs` | theorems of `Tables` about what is written: the styles, the letters and the lines |
| `MCMessages`, `MCKpmCallback`, `MCXApp`, `MCKpmSubsAlloc`, `MCTables` | instances for TLC |

Operators named `X_Something` under a comment "Mutant" are faulty variants of the
definition that follows them; putting one in its place makes the property named
in PROJECT.json fail. They are part of no specification.

### KpmCallback

`inbox` holds the indications delivered; an indication is named by its place
there. A thread takes the next one (`Enter`: latency computed before the lock),
waits for the mutex (`Lock`), prints the header (`PrintHeader`, reading
`counter`), for each UE its identity (`PrintUe`, with the assertion of
`print_measurements`) and its records (`PrintRecord`; the ends of the inner
loops are `NextData` and `NextUe`), increments the counter (`CountUp`) and
unlocks (`Unlock`, the deferred call). `log` is the sequence of lines; a line
has its indication, its kind and the place in the indication of what it prints,
the wording and the values are left out. `proc` says whether the process is up,
and how it ended: an assertion aborts, a null function pointer crashes, and an
index past `meas_info_lst` does any of printing garbage, aborting or crashing.
`ProcessEnds` stands for the main thread.

The delays of `defer` are explicit: the unlock is an action of its own, after the
increment. The callback's assertions on the type of its argument are left out:
the library calls it only with KPM indications.

### KpmReports

The promise: `output` is a concatenation of `Whole(k, n, m)`, defined by a
comprehension over the nested lists instead of loop indices. `KpmCallbackReports`
gives the mapping: the log without the report in progress, which begins at the
header numbered `counter`. A report happens in the abstract at the step in which
the callback increments the counter.

### XApp

`main` is the place of the main thread. `PrepareNode` is one turn of the first
loop up to the library call, `Reported` the rest of it after the call returned;
`RicAccepts`/`RicRefuses` are the RIC's answer, and between acceptance and return
indications are already delivered (`Indicate`). `RmNode`/`RicRemoves` are the
second loop. `mem` holds the allocated blocks: the snapshot, the handles, the
data of one subscription. `e2Nodes` is a listing, in any order, of the nodes
connected at `GetNodes`; `Connect` and `Disconnect` may happen at any time.
`TryStop` is the turn of main's loop in which `try_stop_xapp_api` returns true;
the turns in which it returns false change nothing. All main steps need
`proc = "up"`: an abort in a callback stops main, and the end of main
(`EndsProcess`) stops the callbacks.

Assumed of FlexRIC, from how the code uses it: `report_sm_xapp_api` returns
success with a handle when the RIC has accepted, failure otherwise, and may fail
at any time; `rm_report_sm_xapp_api` returns when the subscription is removed;
`try_stop_xapp_api` returns true when "all xApp processes have been completed"
(`main.cpp:35`): no subscription live, no indication waiting, no callback running;
an indication comes only from a connected node with a live subscription.

`KpmSubs` treats the element read past the end of a RAN function list as
unknown: KPM may be found there, with an unknown definition. `MemoryRunsOut`
switches on failing allocations.

### KpmSubsAlloc and KpmSubLife

`at` is the allocation, call or loop the main thread is at: `AllocAd`,
`CallStyle` (the table of style functions and the assertion on the format),
`AllocMatchingCond` to `AllocBuf` (the condition), `AllocMeasInfo`, then for each
measurement `CopyName`, `AllocLabel`, `FillKpmLabel` and `EndMeas`, the end of the
loop. `heap` counts the blocks of each kind, `sub` is what the pointers of
`kpm_sub` lead to. `FreeKpmSubData` frees what is reachable, as the library's
function does from the lengths in the data. When memory runs out an assertion
aborts, but for `fill_kpm_label`, which writes through the null pointer. With the
allocations hidden (`at` mapped to the phase, the root block counted) this is
`KpmSubLife`, whose single block is the `kpm_sub` in `mem` of `XApp`.

### tabulate: TabText to TabExport

A table is a record of its texts and of three layers of formats. A format is a
function from the names of its members to values or to `NoValue`, an empty
optional. `merge` takes the members of the first format and fills in those of the
second. `LookAtRow` and `LookAtCell` are `Row::format` and `Cell::format`, which
store the merged format they return; every setter on a row, a cell or a column
looks first, and a print looks at every cell several times (`Settled`: three, after
which nothing changes). Font styles are a set here and a vector in the code;
`std::set_union` into a vector that is too long leaves zeros, that is bold, and
`merge_styles` has it.

`print_table` is a function of the settled table to a sequence of characters and
escape sequences: the widths of the columns, the height of each row, the wrapped
text of each cell line by line, the borders and corners, each with its colours.
`PrintHangs` says when the code never returns: `word_wrap` cutting a word into
pieces of no characters, or the unsigned number of spaces of a centred line
wrapping below zero. The Markdown exporter keeps the format of each cell in the
order of two nested range-for loops, changes them, adds a row, prints, removes
the row and hands the formats back; AsciiDoc and LaTeX only look.

The translation was compared with the compiled headers on thousands of random
programs (calls of setters, prints and exports in random order): the printed
texts and exports were the same character by character.

### Tables and E2Info

`Tables` runs one of `Programs`: it adds the rows of the program, in order, and in
between makes any of its calls (`SetTableFormat`, `SetRowFormat`, `SetCellFormat`,
`SetColumnFormat`), prints (`PrintTable` to a terminal, `Str` to a string), asks for
the `Shape` or exports. `PrintNeverReturns` and `DumpNeverReturns` are the calls that
hang. `own` records, beside the table, what has been set on each cell itself or
through its column; `out` is what the last call wrote. `OneExporter` decides whether
one Markdown exporter does all the dumps or each dump has a new one.

`CallReaches(c)` says what a step that is the call `c` of a setter makes of each
cell, comparing what would be printed before and after it. A cell the call is not
`Meant` for, and every member it does not set, stay as they were. The others get the
value if the member is `Open`, that is if no format nearer to the cell has one; right
after a print each cell has values of its own for what `set_defaults` gives, and then
a setter of the table or of a row changes none of these. Only styles add up, over all
layers; bold may come with them (`merge_styles`).

`PrintE2Nodes` prints a list of nodes: a table of them becomes the text of a cell of a
second table. `E2NodesShown` reads the text as a grid: the positions of the bars in the
line of titles give the columns, and the lines with ink, other than borders and the
titles, have to be as many as the nodes; in the line of a node, what is between two
bars is its identifier of that title, or nothing.

## 3. Runs

| Run | Instance | Shows |
|---|---|---|
| `callback` | 3 threads, 3 indications out of 8 kinds | types, `BlocksContiguous`, `NumberedInOrder`, `DeathHasCause`, `WholeReports` (refinement of `KpmReports`) |
| `xapp` | 4 nodes, 2 callback threads, 2 indications, failing memory | types, `CleanStop`, `ReportingNodesSubscribed`, `SubscribedFit`, `MemoryBalanced`, `NothingCutOff`, `CallbackIsKpmCallback` |
| `xapp_live` | 2 nodes, 2 threads, 2 indications | `Termination`, `EveryIndicationReported` |
| `subs_alloc` | 3 subscriptions, every list of up to 3 measurements, failing memory | types, `HeapIsTree`, `SubscriptionWhole`, `OneBlock` (refinement of `KpmSubLife`) |
| `tables` | 6 programs of up to 9 calls, 4 in a row, each dump with its own exporter | types, `NoEmptyOptional`, `OwnSettingShown`, `Aligned`, `NothingLost`, `StylesStayInCells`, `HangsOnlyIfNarrow`, `E2NodesShown`, `DumpRestores` |
| `setters` | 2 of the programs, with setters on all four layers, 4 calls | `SetterReaches` |
| `second_dump` | the programs of `tables` with one exporter | violated: `DumpRestores` |
| `records_without_description` | 1 thread, 1 indication | violated: `DescribedWhenPrinted` |
| `record_without_value` | 1 thread, 1 indication | violated: `NoCrash` |
| `documented_names` | 1 thread, 1 indication | violated: `DocumentedIsSupported` |
| `kpm_not_listed` | 1 node | violated: `KpmListed` |
| `style_one_first` | 1 node | violated: `ReportServiceServed` |

The six violated runs each show a disagreement between the code and what a comment, an
assertion, a document or the test data say; PROJECT.json quotes both sides under
"findings".

**Bounds.** `MaxInd` bounds the indications delivered. With three threads and
three indications, one thread can be in the critical section while two wait, and
a thread can come back for a second indication while another still waits for its
first. The eight kinds of indications (`MCMessages`) have two UEs, an empty list
of UEs, of data, of records and of F1AP identities, all UE kinds, both flags,
both kinds of value, names of all three classes (integer only, both, none), a
shorter second data item, a negative age, and each of the four ways to be
unprintable. The threads are interchangeable, so the safety run of the callback
uses symmetry; the liveness run does not. `Wrap` is 16 instead of 2^64: only
whether the subtraction wraps matters. Four nodes give the first loop every
mixture of subscribed, skipped and fatal nodes in every order; two nodes are
enough for termination, whose only inputs are the handles that were kept and the
callbacks that still run. Two indications of two threads let one callback wait
while the other holds the mutex or crashes. `MaxSubs` is 3, so that a block left
over from one subscription would meet the next ones, and `MaxMeas` is 3, so that the
loop over the measurements has a first, a middle and a last turn. A program of
`Tables` makes `steps` calls, 4 at most: enough for a setter, a print or dump, a
second setter and a second one of these. The programs (`MCTables`) have the same
member set on all four layers, texts with words, dashes, spaces and newlines,
columns narrower than their words and as narrow as they may be, separators and borders with and without
characters, configured heights, colours and styles, and the nodes a DU, a CU and a
monolithic node. Deadlock is checked in every run but those of `Tables`, whose
programs come to an end.

**Fairness.** Weak fairness of each library thread and of the main thread: the
operating system runs runnable threads. A thread that waits for the mutex is not
always enabled, but between two of its chances another indication is finished,
and there are `MaxInd` of them; with unlimited traffic a `pthread` mutex would not
guarantee `EveryIndicationReported`, which excuses only an abort or a crash: the
exit of main does not cut an indication off. Weak fairness of the RIC's answers: the calls
of FlexRIC are synchronous and `start` has no timeout, so the xApp itself relies
on it. Nothing is assumed of the nodes or of the arrival of indications.

## 4. Proofs

TLAPS checks, for every value of the constants that satisfies the named
assumptions (`WrapAssumption`: a modulus above zero; `CallbackAssumption` and
`ThreadsAssumption`: well-formed indications, a mutex value that is no thread;
`MemoryAssumption`; `NodesAssumption` and `FiniteThreads`: finitely many nodes and
threads; `RfAssumption`: a node announces a RAN function once;
`BoundsAssumption` and `FunctionsAssumption`: the first report style has at most
`MaxMeas` measurements; `NoValueAssumption`: an empty optional is no value;
`ProgramsAssumption`: the setters a program calls exist, their values are no empty
optionals and, where the code's types say so, sizes are numbers, alignments and
styles those of the enumerations, texts and identifiers have no escape sequences in
them, and no row is longer than the first, which the code leaves undefined;
`DashAssumption`: the border of `printE2Nodes` is no empty optional; `BordersInLine`,
for `StylesContained` and `LinesAligned` only: no border or corner that is set has a
newline in it):

- `KpmCallback_proofs`: `TypeCorrect`, `Contiguous` (`BlocksContiguous`),
  `Numbered` (`NumberedInOrder`), `DeathsExplained` (`DeathHasCause`). The first
  properties are about the log alone and not inductive. `IInv` adds that threads in the callback have different, taken
  indications (`OneEach`), that the mutex is held exactly by the thread inside
  (`HolderInside`), that the indication of a thread before its header is not in
  the log and that of a printing thread ends it (`LogOfTaken`), and which numbers
  are used (`NumbersUsed`). The lemmas `UeLinesPlain` and `RecordLinesPlain` say
  that what a thread prints after the header carries its indication and is no
  header; `PrintPlain` and `PrintingStep` turn that into the preservation of the
  invariant, and `NextIInv` has one step per action. `DeathHasCause` needs in
  addition that a thread printing measurements is at a UE of its indication
  (`AtUe`): then the record it reads has a type, and `FatalRecord` lists why reading
  it can end the process.
- `KpmReports_proofs`: `Reporting` (`WholeReports`): the callback implements
  `KpmReports`. `KpmReports` defines a report by flattening the nested lists, the
  callback prints it by three loop indices. `RInv` relates them: what a printing
  thread has written, the end of the log, is `SoFar(t)`, the whole report up to its
  loop indices (`EndsWithSoFar`); it needs that the latency computed before the lock
  is still that of the indication (`LatencyKept`), that an index is at most one
  behind its list (`CursorInside`) and that all that was gone through could be
  printed (`PrintableSoFar`). With `IInv`, `CountUp` is then one step of the abstract
  `ReportOne`, because the indices are at the ends of the lists and `SoFar` is
  `Whole`; an abort, a crash and `ProcessEnds` are the abstract end, and every other
  step hides its line behind the header numbered `counter` and stutters.
- `XApp_proofs`: `TypeCorrect`, `StopsClean` (`CleanStop`), `FreesAll`
  (`MemoryBalanced`), `RefinesCallback` (the xApp implements `KpmCallback!Spec`),
  `ReportsInXApp` and `WholeReportsInXApp` (so the callback's three safety properties
  hold in the xApp, and it implements `KpmReports` there).
  `HandlesKept` says that each live subscription's handle is at an index the
  second loop has still to visit, or is what the library is about to return, and
  that entries not yet reached by the first loop are empty, so that storing a
  handle overwrites none; `QuietBeforeStart` that no callback runs before the
  mutex is initialised, which makes that step invisible to the callback. The
  callback's module and its theorems are two instances in `XApp_proofs`; `SameLines`,
  `SameReads` and `SameSteps` show them equal, so that the theorems apply.

- `XApp_proofs`, second part: `FitSubscribed` (`SubscribedFit`), `ReportersSubscribed`
  (`ReportingNodesSubscribed`: the nodes of the listing with a REPORT service, and no
  node that joined after it, are subscribed, once, and each handle is at its node's
  index; under `KpmAnnounced`, every node announces KPM: without it `kpm_not_listed`
  shows what happens) and `ExitCutsNothing`
  (`NothingCutOff`). The first two rest on `Ledger`: the listing names each node once,
  every subscription at the RIC is for a node that could be prepared, and each
  handle kept is the live subscription of the node at its index. The third rests on
  `Counting`: the callback's counter, the indications waiting and the callbacks
  running add up to the indications delivered.
- `KpmSubsAlloc_proofs`: `TypeCorrect`, `HeapBalanced` (`HeapIsTree`), `SentWhole`
  (`SubscriptionWhole`), `OneBlockHolds` (`KpmSubsAlloc` implements `KpmSubLife`). The
  invariant gives, for each place in the code, exactly the set of blocks there: the
  steps before have allocated theirs, once, and the pointers lead to them.
- `Tables_proofs`: `Types` (`TypeOK`), `OptionalsHaveValues` (`NoEmptyOptional`),
  `OwnIsShown` (`OwnSettingShown`), `WritingRestores` (`DumpRestores`), all assuming
  `~OneExporter`. The argument is about one member of one cell (`Shown`): a look
  changes what is stored, but not what any number of further looks will show,
  because `merge` is idempotent from the second time on, and monotone in the
  styles. `Looked(u, v)` says that the table `v` is `u` after such looks; printing
  (`SettledLooks`) and the three exporters (`MarkdownLooks`, `AsciiDocLooks`,
  `LatexLooks`) all preserve it. For Markdown, the arithmetic of `Place`
  (`PlaceUnique`, `KeptAtPlace`) shows that every cell gets its own format back.
  `IInv` adds `Owned`, that each cell still has what was set on it, and that the first
  row is the program's first, so that no later row is longer.
- `SettersReach` (`SetterReaches`, in `Tables_proofs`, also with `~OneExporter`). The
  argument is again about one member: `Put` is what a setter makes of what it finds,
  `Reaches` what becomes of what is shown when that is done on the table, on a row
  that was looked at, or on a cell that was looked at with its row (`TableReaches`,
  `RowReaches`, `CellReaches`). `SetTableMakes` to `SetColumnMakes` say which formats a
  setter changes, so that `CallShown` has it for every cell of the sheet. That a
  printed cell is not open any more is `PrintStored`, inductive with `IInv`.
- `TabText_proofs`: `LinesFit`, no line that `split_lines` finds in what `word_wrap`
  made of a text is longer than the width, whenever the loop that cuts words ends
  (`WrapEnds`). The invariant of the loop over the words is that every finished line
  fits and that `current_line_length` is the length of the line being filled, also
  after a word was cut and hyphenated.
- `HangsExplained` (`HangsOnlyIfNarrow`, in `Tables_proofs`, also with
  `~OneExporter`): a width that tabulate computes holds the padding and the longest
  line of every cell (`CellWidth`, `ColumnWidth`), so in such a column `word_wrap`
  has nothing to cut (`Uncut`), and with `LinesFit` no line is longer than its
  column; what is left are configured widths, and of these only narrow ones hang
  (`LinesOfCell`, `HangsInNarrow`). For a dump the same is shown of the table with the
  row of alignments (`MarkdownSheet`). `Waits`, that nothing has changed since a call
  that never returned, makes it inductive.

- `TablesPrint_proofs`: `StylesContained` (`StylesStayInCells`, with `~OneExporter` and
  `BordersInLine`). What a print writes is put together from pieces: a border, a corner
  or a separator in its colours, a line of a cell in its style, spaces, ends of lines.
  A `Language` is a set of such pieces that holds whatever is put together from its
  members; `PrintedIn` says that a print is in every language its pieces are in
  (`Framing`, `Containing`), whatever the sizes, the formats and the alignment. The
  languages are `Kept(C, E)`, texts in which after each code of `C` a reset comes
  before anything of `E`: `Terminal` is the two of them that the property asks for,
  the font styles kept from `Between` and the colours from newlines, and `Seq(Characters)`
  is the one of a stream that is no terminal. What a cell shows is in `Terminal`
  because its style, its line and the reset are one piece and a line holds nothing
  that is only between texts (`TextsBetween`). `WrapFits` and `LinesOfText`
  of `TabText_proofs` give that a line has no other letters than its text and a hyphen.
  For the tables of E2 nodes the same lemmas are used twice, of the print into a cell
  and of the print of that cell: `Holds` carries through `add_row` and the setters what
  every format of such a table has, that neither a width nor a style that hangs or
  reaches out is set. `Contained`, that what was written last is in its language, is
  inductive with `IInv`.

- `LettersKept` (`NothingLost`, in `TablesPrint_proofs`, with `~OneExporter`): the letters `Mine`
  of a cell, those no other cell has and nothing around the texts, are in each print and
  dump as they are in the text. `WrapKeepsLetters` of `TabText_proofs` says that
  `word_wrap`, trimming words, cutting and hyphenating them, changes nothing but spaces,
  newlines and hyphens; it goes over the words and the pieces of a word as `LinesFit` does.
  `split_lines`, the trimming of each line, the padding and the styles keep the letters too, so
  the lines of a cell put together have the letters of its text (`PrintKeeps`). What is
  between them, borders, corners, separators, spaces, codes and other cells, is in the
  language of texts without these letters, and taking a cell's letters
  out of a row that is put together from its columns leaves those of the one column
  (`Alone`). It needs that the row is as high as the cell has lines. For Markdown the
  same is shown of the table with the row of alignments, whose texts are markup
  (`MarkdownKeeps`); AsciiDoc and LaTeX write the texts between markup (`AsciiDocKeeps`,
  `LatexKeeps`). The case of the table of E2 nodes is empty: `NothingLost` is about
  the tables of the programs, and `E2NodesShown` about those. `LettersShown` is
  inductive with `IInv`, which gives that the texts and formats fit together; a setter or
  `add_row` makes `out` empty, and the calls that write leave the texts as they are.

- `LinesAligned` (`Aligned`, in `TablesPrint_proofs`, with `~OneExporter` and
  `BordersInLine`): the lines of a print all end in the same place. Two languages carry
  it. `Strip(n)` has the pieces of a line of which n characters are seen, whatever the
  codes between them; a line of a cell, its padding and its spaces are in the strip of
  the column's width (`CellLineStrip`, from `LinesFit`, which says that the line is no
  longer than the column, so that the spaces make up the rest), the borders above and
  below in the same one, and a row of columns in the strip of `Across`, which is the
  sum that `LineWidth` is (`AcrossStrip`). `Grid(w + 1)` has what consists of lines
  that each end w characters after the last newline (`Lined`), and is closed under
  putting together. All rows in `Grid` give the table but for its last newline
  (`TableGrid`), and `Even` that such a text is `Rectangular` and what `shape` counts
  in it. A look leaves a table for which `Ruled` can be asked of what is
  stored, so `LinesOf`, `Aligned` of the last output and the table, is inductive
  with `IInv`.

What recursive functions and folds compute is proved by `Induction` of `SeqInduction`,
which speaks of a set that contains zero and with every number the next; a set can be
instantiated where the library's induction over a predicate cannot. That the
functions a recursive definition chooses exist is proved the same way (`FlattenDef`).

Only model-checked: of the tables `E2NodesShown`, which is about the line and the
columns of each identifier, in a table printed into a cell of another; and the
liveness properties `Termination` and `EveryIndicationReported`: liveness under
fairness and ENABLED are out of the prover's reach.

## 5. Not modelled

- `variant_lite.hpp`, `optional_lite.hpp` and `string_view_lite.hpp` of tabulate,
  more than half of the lines under `src/`: stand-ins for `std` types that are included
  only before C++17 (`#if __cplusplus >= 201703L`), while `CMakeLists.txt` asks for
  C++23. They are not part of the program.
- Of tabulate: the branches for Windows; the global locale, which printing sets
  and sets back, but for hidden borders; characters of more than one byte or one
  column (`get_wcswidth`), and with them the effect of `multi_byte_characters` and
  `locale`; the formatting state of `RowStream`; the length of the vector of styles,
  which grows with every look. Calls with undefined behaviour are excluded by
  `ProgramsAssumption` and `Exportable`: rows longer than the first, an export of an
  empty table, a cell or row that is not there.
- `E2Info::getE2NodesIds`, a copy of the identifiers, and the lifetime of the array
  that `E2Info` points to: no code creates an `E2Info`.
- The start-up configuration: the address of the RIC is one assignment
  (`main.cpp:19`), the rest is parsed by the library. The logger's configuration,
  the generators of test data, build and deployment files: no state that a property
  could be about.
- `Aligned` asks for equal lines only of tables whose left border and separator are
  one character together: with both, as in tabulate's own defaults, the two are
  written but counted in no width (`table_internal.hpp:312`), and the lines of cells
  are longer than the borders. The model prints such tables as the code does.
- The values of measurements and the wording of lines. The latency is the code's
  wrapped difference in the specification too: the clocks of nodes may differ, and no
  property says what the number should then be.
- `rd`'s type assertions (see above), the failure of `pthread_mutex_init`, the
  overflow of `int counter` after 2^31 indications.
- What FlexRIC does inside its calls, and what the RIC makes of the subscriptions of a
  process that has aborted: the model ends with the process.

## 6. Plan

Done: all of the program's own code that keeps state, the allocations of a
subscription and their refinement, the subscriptions of the xApp, and the table
library with its composition. What could follow:

1. A proof of `E2NodesShown`, from the pieces of the two tables (`Grid`, `PrintKeeps`).
2. A ledger of subscriptions as an abstract specification of `XApp`.
3. Lifetime and ownership of `E2Info`'s copy, when code creates one.
