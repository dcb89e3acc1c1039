# tokfold in TLA+

tokfold compresses JSON for language models. It is a Rust workspace with a pure
engine (`crates/tokfold-core`), a command line (`crates/tokfold-cli`) and an MCP server
(`crates/tokfold-mcp`), and an npm package whose Node script starts the prebuilt binary
(`npm/tokfold`). A compression has two results: a *rendering* to show to a model, which
is not meant to be inverted, and a *recovery archive* (`TKFD`), from which `expand` gives
the input back byte for byte. The promises that matter are about the two together: the
archive in the slot is that of the output just shown, an archive that decodes is the
document it was made of, a rendering is never worse than the input, one line asked is one
frame answered, and nothing tokfold starts is left running or reported wrongly.

This directory models those parts in TLA+, checks the models with TLC, and proves with
TLAPS what matters most about them for every value of the constants.

## The system's parts

| part | code | state it keeps | operations | what is hard |
|---|---|---|---|---|
| command line | `tokfold-cli/src/main.rs` | none of its own; the files behind standard input, standard output and `--archive` | `compress`, `expand`, `stats`, `mcp` | every step is a system call on files that other processes share; partial writes, kills, races between a check and its use |
| MCP server | `tokfold-mcp/src/server.rs`, `jsonrpc.rs`, `protocol.rs` | handshake flag, negotiated revision, limit on reply frames | `handle_line`: dispatch, batches, notifications | silence against answers, a budget shared by the members of a batch, refusals that must fit themselves |
| MCP framing | `tokfold-mcp/src/stdio.rs`: `read_line`, `skip_to_newline` | one buffer | cut a stream into bounded lines | a cap in the middle of a line, resynchronisation, a client that stops writing |
| MCP loop | `stdio.rs`: `serve`, `handle`, `write_line` | a `BufWriter` | read, handle, write, flush | a reply held back is a hang; full pipes; a client that leaves; panics |
| npm launcher | `npm/tokfold/bin/tokfold`, `lib/resolve.js` | listeners, the child | install listeners, look up, spawn, relay, exit | signals at any moment to either process; exit codes that cannot be reproduced |
| container | `tokfold-core/src/format.rs`, `compressor.rs` | none | encode, decode | malformed and damaged archives, a canonical length field |
| selection | `compressor.rs`, `encoder/mod.rs` | none | the guards and the choice among encoders | margins, ties, the order of the encoders |
| tape parser | `tape.rs` | a container stack and a tape during one call | `parse` | depth limit, counts patched back, the first offending token |
| encoders | `encoder/e1_minify.rs`, `e2_tabular.rs` | none | `render` | which arrays are tables, hash collisions between shapes, that a rendering can be read back |
| estimator, never-compress | `estimator.rs`, `never_compress.rs`, `fidelity.rs` | none | estimates, a report | a cost that must fall when white space goes; a match inside an escaped string |
| MCP JSON | `json.rs` | nodes and depth spent on one line | parse, render | budgets on depth and values, duplicate keys spelled differently, numbers that change type on the way back |
| MCP tools, base64 | `tools.rs`, `base64.rs`, `tools_call` of `server.rs` | none | `compress`, `decompress`, `stats` | replies of two halves, an estimate and a compression that must agree, two base64 texts of one archive |

Calls go one way: the command line and the MCP tools call the engine and hold its two
results; the MCP loop calls `Server::handle_line`; the launcher starts the command line.
Nothing is shared in memory between threads. What is shared is outside: files between
processes, pipes between client and server, signals between launcher and binary.

## The modules

`PROJECT.json` maps each definition to the lines it stands for.

### ArchiveBytes, CliRuns: the command line

`CliRuns` is a set of processes over one file system. `entry` says what each name is,
`kind` and `data` what each file is; every other variable is indexed by process and is a
local variable of the code: `buf` is what `read_source` has collected, `target`, `ident`
are the fields of `ArchiveSlot::Archive`, `cleared` the value of `enum Cleared`, `sent`
what `write_stdout` got out, `exit` the exit code. `pc` names the next system call, so a
step is one system call, and other processes act between any two:

    guard_output -> guard_archive -> open_input -> read -> Decide
      accepted:  stat_slot -> open_slot -> check_emptied -> write_slot* -> emit*
      rejected:  resolve_slot -> classify_slot -> probe_slot -> recheck_slot
                 -> unlink_slot -> emit* -> announce

`write_slot` and `emit` repeat once per chunk. `ArchiveBytes` cuts an archive in two
chunks (header, body), which is enough for half-written files, for two writers over one
file and for a read that races a rewrite. A process that starts takes its standard
streams from the shell, which empties the target of `>` before it exists. The history
variables `met`, `old` and `archived` record what others changed under a run, the archive
its slot held at launch, and the documents archives were made of; no guard reads them.
`met` tells four things apart, as the properties do: bytes of some file (`data`), a name
(`names`), the very name a run is about to remove, since its identity was checked again
(`window`), and a new name of the file it reads or a new file under that name (`input`).
`archived` starts with the payloads already lying around (`LyingAround`: on disk or in a
pipe), since an archive may be older than the first run.

`RecoverySlot` is the abstract specification of one `compress --archive` run as its
caller sees it: a slot that goes from what it held, through nothing that expands, to the
run's document, and output that is let out only when it agrees with the slot.
`CliContract` maps a process of `CliRuns` to it; `KeepsTheContract` is that refinement.

### JsonRpc, McpServer: the server

`JsonRpc` holds the messages, reduced to the fields the code branches on, the answer
each deserves (`RealAnswer`, the order of the checks in `dispatch` and
`check_request_metadata`), and the ladder of `render_within`: the answer, else a refusal
with its id, else a refusal without. Text is its width in bytes, and the refusals carry
the widths of the program's own messages with the digits of the numbers they quote, so
the arithmetic of limits is the code's. `McpServer` is `handle_line`: one step per member
of a batch, against what the frame has left, and `Panic` between any two, with the frame
the transport answers in its place. What a line is owed is `Owed`, the ids of its members
that ask for an answer (`Picked`, a recursive function in place of `SelectSeq`, whose
definition is out of the provers' reach). `SilenceAssumption` says that saying nothing is
no frame.

### LineReader, StdioSession: the transport

`LineReader` takes `read_line` and `skip_to_newline` byte by byte over a stream the
client writes and closes at any pace. `StdioSession` composes `McpServer` with the loop
of `serve` and a client with one of three manners: it waits for each answer, reads while
it writes, or writes everything before it reads. There a line is sent whole: that the
loop reads the client's lines is what `LineReader` shows. What a line is, `LineReader` says
without the reader: `LineEnds` are the places of the LFs, and the end of a stream that is
closed; `LineTo` is what lies between two of them; `Verdict` judges it.

### Launcher

Top to bottom as the script runs: listeners, lookup, spawn, event loop. `listening`,
`queued` and `doom` separate a signal that has a listener, one the event loop has not
dispatched yet, and one delivered to the binary. Signals come to the launcher, to the
binary or to both. `Platforms` lists what `process.on` accepts, what `child.kill`
delivers and whether the kernel may refuse. At the end the listeners are taken away
(`ListenersLeft`) and the signal is raised again, in vain for one that still has a listener
or that Node ignores: then the launcher exits with its number, or with 1 for a name missing
in `Number`, which the source has measured not to happen and guards against all the same.

### Varint, Container, Base64, McpTools: archives and the tools that carry them

`Varint` is the length field with its three numbers (values of a group, largest number,
groups of a field) as parameters. Both loops are written by where they stop: `GroupsOf` a
number, and the first byte from which the reader does not go on (`GoesOn`); `Shift` and
`Payload` are recursive functions, so that they can be reasoned about. `Container` is the archive byte by byte, as operators:
`Decompress` makes the checks of `Header::decode` and `Compressor::decompress` in their
order. `Base64` is `encode` and `decode` with the sizes of both alphabets as parameters.
`McpTools` is the state machine over them: a client calls one of the three tools with
arguments of any shape, and archives, as files or as the base64 of a reply, go onto a
medium that changes, loses or adds bytes before they are restored. A call runs the whole
of `tools.rs`: the arguments and their refusals, the configuration by `profile`, the
guards of `Compressor::compress`, the choice of a rendering, the passthrough that repeats its input in both
halves of the reply, `stats_value`, the error codes, and `tools_call`'s envelope. What the
tool makes (`Reply`) is not always what the client gets (`Delivered`): a frame wider than
`MaxMessage` is refused as a message, by `render_bounded`, and no text comes with the
refusal. The estimator, the encoders, the digest and the width of a text in a frame
(`Spelled`) are parameters.

### JsonText: inside a string or a number

Everything that looks at the characters of one lexeme: the scanners of `tape.rs`, the
reader and the writer of `json.rs`, E1's respelling of a string, the strings that
`never_compress.rs` leaves as they are and the runs the estimator counts. A string is
typed piece by piece (a character, an escape, half a surrogate pair, a quote), a number
character by character. The scale is smaller, the relations are kept: a `\u` escape has
two digits of base 5, so there are 25 code units with a unit of each sort. Numerals have
base 4, and a float is a number of two digits of base 3 times a power of 3, as an `f64` is
53 bits times a power of 2: most numerals are no float, `str::parse` rounds them to the
nearest one (`Nearest`, ties to even, to infinity past the largest, to zero below the
smallest), and `Display` writes the fewest digits that are read back, with zeros up to the
point (`Shortest`, `Expansion`). So a float past the bound on the suffix `.0` may be written
as a row of digits that is another integer, as 2^62 is written 4611686018427388000.

### Selection

The guards of `Compressor::compress` in order, then `select`, one enabled encoder per
step. An estimator is supplied by the caller, so estimates are arbitrary numbers.

### Tape, Documents, JsonReader

`Tape` is the loop of `tape::parse`: one action per arm, with the explicit stack and the
tape as state. A token is a lexeme a scanner accepts, punctuation, or something no arm
accepts; whitespace lies between tokens. The input is disclosed token by token as the
parser looks at it (`Disclose`), so that only inputs that matter are told apart, after a
known beginning from `Starts`. `Documents` adds what walks a tape: E1's rendering and
E2's, each a fold over the nodes with the same separators, E2's `analyze` as a fold with
its stack of frames, and the table block. Next to them are their references: the JSON
grammar over intervals of tokens (`IsJson`), what is a beginning of some document
(`BeginsSomeJson`: if any completion exists, one of the shortest is enough), and a reader
of table blocks (`ReadTables`). `JsonReader` is the recursive-descent reader of `json.rs`
over the same tokens, as recursive operators with the budgets threaded through, and is
compared with the tape parser and the grammar on every input.

## The runs

| run | model | states | shows |
|---|---|---|---|
| `solo` | `CliRuns`, 1 process, 2 runs | 104 000 | `SlotAgreesWithOutput`, `ExitsTellTheTruth`, `KeepsTheContract`, `EveryRunEnds` with every system call able to fail and a kill anywhere |
| `moved` | `CliRuns`, 2 processes, 1 rename, kills | 408 000 | `NoStaleArchive`, `InputSurvives`, `UnlinksOnlyTheInspected` |
| `race` | `CliRuns`, 3 processes | 1 098 000 | `ExpandsOnlyWhatWasArchived` |
| `blob` | `CliRuns`, 2 processes | violation | `NoRenderingWithoutItsArchive`, see the finding below |
| `mcp_server` | `McpServer`, 2 lines | 228 000 | `FramesFit`, `OneAnswerEach`, `HandshakeIsTheOneTold`, `MeasuredWindows` |
| `line_reader` | `LineReader`, 6 bytes | 183 000 | `ReadsTheLines`, `EveryLineIsRead` |
| `stdio_session` | `StdioSession`, up to 3 lines | 245 000 | `InStep`, `OkLosesNothing`, `EveryAnswerArrives`, `SessionEnds`, and no deadlock |
| `launcher` | `Launcher`, 3 signals | 38 000 | `NoOrphan`, `NothingInvented`, `StopsWhenAsked` |
| `tools` | `McpTools`, 2 changes | 150 000 | `ComesBack`, `NothingIsIgnored`, `OneFieldPerNumber`, `TruncationIsFraming`, `NothingIsDropped`, `EstimateMatchesCompress`, `SchemaIsKept` |
| `text` | `JsonText` | 73 000 | `ScannersAgree`, `SpellingKeepsMeaning`, `WrittenIsRead`, `MinifyNeverCostsMore` |
| `documents` | `Tape`, `Documents`, `JsonReader` | 70 000 | `ClosesWhatIsOpen`, `DecidesTheGrammar`, `TapeKeepsTheDocument`, `TablesReadBack`, `TablesWhereShapesRepeat`, `ReaderDecides` |
| `selection` | `Selection` | 109 000 | `DoNoHarm`, `BestIsChosen` |

The type invariants are proved and belong to no run: `TypeOK` of `CliRuns` (with
`WellPlaced`, what the steps rely on: an open descriptor, a resolved target, an input that
was accepted or refused), `ServerTypeOK`, `LineTypeOK` (the bound on memory),
`SessionTypeOK`, `LauncherTypeOK`, `SelectionTypeOK`, and that of `Tape` as a part of
`ClosesWhatIsOpen`.

### Why the bounds are enough to mean something

* `CliRuns`: two chunks per archive, and as many read and write steps, so every split of
  a write or read by another process's step occurs. `solo` has every kind of slot (absent,
  archive of another document, half an archive, foreign file, a rejected document that
  opens with the magic, directory, FIFO, each by name, through a symlink, dangling or not,
  or as a hard link of the input) and the input by name, redirection or pipe, with `>`
  and `>>` onto the input or the slot. Two runs make one meet what the other left. `race`
  needs three: two writers whose halves mix and a reader. `moved` has one rename, the
  least that can replace a file between a check and its use. `Procs` is symmetric in
  `race`, `moved` and `blob`: no invariant or initial state names a process there.
* `McpServer`: two lines, so that a second handshake meets the first; batches of up to
  three members, the least in which a middle member starves a last one; limits on both
  sides of each width. `MeasuredWindows` compares the model with the numbers the tests of
  `server.rs` and `jsonrpc.rs` measured, at the limits on both sides of each: widths are
  an abstraction that keeps the code's arithmetic.
* `LineReader`: a limit of one byte puts the cap at three, and six bytes hold a line that
  is cut, its rest, its newline and a line after it.
* `StdioSession`: pipes of one or two lines fill at once. The burst client has exactly one
  line more than both pipes hold; with one more it deadlocks, which `serve` documents as
  the client's fault. Only the burst client is obliged to send all its lines.
* `Launcher`: one signal of each class (relayed, relayed and caught by Node, not relayed,
  ignored by Node with a number and without, without a name), and up to three of them.
* `McpTools`: bytes of four bits, so groups of three, numbers up to 127 and fields of up to
  three bytes in place of 7, 2^64 - 1 and ten, with the same relation: the last byte of a
  field may carry one bit. Base64 has 8 symbols over 16 octets, so four symbols carry
  three octets as in the program. Documents have lengths of one, two and three groups, and
  are such that no encoder helps, one helps, the second helps more, or that are refused
  for each reason. Two changes suffice to turn any field of up to two bytes into any other
  and to forge one byte and its compensation; they are spent on the archives of documents
  of at most one byte, the others get one.
* `JsonText`: three pieces hold an escaped backslash before a `u`, a pair whose halves are
  spelled differently and a lone half behind an escape that could be unwound. Six
  characters hold a number on both sides of every limit: an integer of more than three
  digits is no `i64`, one of more than five is past every float, a numeral that is rounded
  up to infinity with five, one that is rounded to zero, floats whose shortest digits are
  another integer, and an integral float of at most two digits is written with `.0`.
  `JsonTextAssumption` has what the scales must keep: three digits tell two floats apart,
  and what is read as infinity or zero without being rounded is so. `Density` is 22 where an escape by number has three
  characters behind its backslash, as it is 37 in the program, where it has five.
* `documents`: every input of at most seven tokens (which has every pair of states and
  tokens, and one container more than the limit of four), every array of two or three
  elements and many of four, of nine kinds of element: one key or two, in both orders,
  duplicate, with nested values, with a table inside, empty, a scalar, an array. Such
  arrays also stand inside objects and arrays, a long one is cut at every token and has
  every token replaced. Under the hash `"length"` all key lists of a length collide. The
  readers of `JsonReader` have a limit on depth that these inputs reach and pass, one on the
  number of values that they reach and pass, and a scanner that refuses one lexeme.
* `Selection`: three encoders in six orders, one listed twice, with equal estimates, zero
  estimates and the boundary of 10 000 basis points.

`CHECK_DEADLOCK FALSE` is set where a behaviour ends by design (the runs, lines, signals
or changes are used up). `stdio_session` checks for deadlock: the only states that stand still
are those in which both sides have finished.

### Fairness

* `FairSpec` of `CliRuns`: weak fairness of each process. The operating system schedules
  a process that is not blocked; the open of a FIFO has no enabled step, so it does block.
* `LineSpec`: weak fairness of the reader alone; the client may stop anywhere.
* `SessionSpec`: weak fairness of the server's thread, of a client's reading (each of the
  three reads in the end, which `serve` requires) and of a burst client's writing. The
  thread's steps include the flush that finds the client gone. A stream error is never
  fair, and no client is obliged to close, nor any but the burst one to send.
* `Launcher`'s `Spec`: weak fairness of the event loop and of a signal's default effect.
  The binary may run for ever.

### A finding

The comment at `crates/tokfold-cli/src/main.rs:292` says that a caller never sees output
without its recovery blob. `blob` shows a behaviour of two runs that are given the same
slot: the first writes its archive, the second empties the slot (or clears it), and then
the first's rendering leaves. For a run nobody interferes with the sentence holds
(`SlotAgreesWithOutput`, `KeepsTheContract`), and between interfering runs the weaker
`NoStaleArchive` and `ExpandsOnlyWhatWasArchived` hold: what a slot expands to is never an
archive left by an earlier run, nor a mixture of two.

## What is proved

`CliRunsProofs`, for any sets of processes, names, files, file systems, command lines and
documents, any number of runs and renames, with or without faults and kills, from
`DocumentsAssumption` and `CliAssumption` (the constants are what their comments say, and
a symlink's text is not itself a symlink):

* `TypeCorrect == Spec => []TypeOK`. `TypeOK` is inductive because `WellPlaced` is one of
  its conjuncts: that a step of `write_file` has an open descriptor and an accepted input
  is needed for the type of the bytes it writes. One lemma per action; a step of `p`
  leaves the other processes well placed by `OthersStayWellPlaced`.
* `ExitsAreTruthful == Spec => []ExitsTellTheTruth`. `ExitsTellTheTruth` is not inductive:
  it says nothing of a run before it ends. `Truthful(p)` adds that what was sent is a
  prefix of what is owed, that nothing is sent before the slot is settled, and what each
  place in the code knows about `off` and `cleared`. `TruthSuffices` derives the property,
  `QuietStepIsTruthful` covers the steps before any output, `OthersStayTruthful` the other
  processes.

* Of the file system, against other processes and another program's renames:
  - `RemovesTheInspectedOnly` (`UnlinksOnlyTheInspected`, an action property). An unlink is
    several steps after the look that allowed it, so the invariant carries what was found
    (`AllTargetsOK`): between two looks the target is a name that is no symlink, and it is
    still that of the regular file inspected, unless another actor re-bound that very name
    between the second look and the removal: no system call removes a name only if it still
    is that of a given file, so the code cannot close that window either.
  - `NoArchiveOutlivesItsRun` (`NoStaleArchive`), from `OldOK`: as long as nobody touched
    the archive an earlier run left, it expands, the names that led to it stand for the
    slot, a rejected run has resolved its slot to it, and once a run is past its slot the
    slot leads elsewhere. For this to be inductive `Launch` remembers an archive only where
    the slot led to a regular file.
  - `TheInputSurvives` (`InputSurvives`), from `OutputOK` and `InputOK`: what the two guards
    found of the identities of input, output and slot stays true until the last write to
    each, unless somebody gave the file it reads another name, or that name another file.
    Every other rename, write, creation and removal is allowed. `AsideOK` says the same of
    slot and output, as long as no name changes.
  - `TheSlotAgrees` (`SlotAgreesWithOutput`), of a run during which no other actor changed a
    file or a name (its hypothesis `met[p] = {}`), from `SlotOK`: from the open of the slot to the
    last byte of output, the slot holds as much of the archive as was written, and the
    output is another file.
  - `ExpandsArchivesOnly` (`ExpandsOnlyWhatWasArchived`), from `SourcesOK`: every payload on
    disk, in a pipe or in a run's memory is that of a document an archive was made of, and
    an expand that let something out had read bytes that decode. It needs nothing of who
    interferes. That the two halves are of one archive is what the digest is for: without
    it the mutant lets the head of one archive and the payload of another through.
* `AloneKeepsTheContract` (`KeepsTheContract`, the refinement of `RecoverySlot`), for any
  documents, files and invocations, with faults and kills at every step, provided
  `Procs = {Observed}` and `MaxMoves = 0`: with another process on the same slot the
  contract is false, as the finding shows. Each step of the run maps to a step of the
  abstract slot or to a stutter, from the invariants above and `Undisturbed`.

`SelectionProofs`, for any encoders, estimates, orders and margins, from
`SelectionAssumption`: `SelectionTypes`, `NoHarmIsDone` (`DoNoHarm`), `TheBestIsChosen`
(`BestIsChosen`) and `TheGateIsTold` (`GateIsTold`). The inductive invariant is
`SelectionTypeOK /\ Progress`: after `next - 1` encoders, `best` beats every one of them
that cleared the margin and `rejected` tells whether one did not. That the margin never
changes who wins needs that `ClearsMargin` is monotone in the estimate, a lemma of its own.

`TapeProofs`, for any input and any depth limit, from `TapeAssumption`:

* `ParserClosesWhatIsOpen` (`ClosesWhatIsOpen`, which is inductive: to know that a bracket
  closes a frame of its kind one needs that the state agrees with the innermost frame, and
  for the state after a close that the frame below is sound too; `FramesKept` carries the
  frames over a step that appends a node, `OpenKeeps` and `CloseKeeps` are the two that
  change the stack), and from it `ClosesItsOwn`, that the defensive branch of
  `close_container` is dead.
* `TheTapeKeepsTheDocument` (`TapeKeepsTheDocument`), for any spelling of strings, from
  `DocumentsAssumption` too. The property speaks of a tape once it is returned and of a walk
  over all of it; the invariant behind it follows the parser token by token, and TLC checked
  it first. It has two parts:
  - `WalkTells`: what the minifying walk would write for the tape so far is what was read so
    far (`Tells`), but for a comma that was read and that the walk writes with the node to
    come (`PendingComma`). For that the frames of the walk must be those of the parser's
    stack, and the marks of what has been seen in them must follow the parser's state
    (`Follows`). The walk is a recursion over the tape; `WalksStepwise` unrolls it, from
    `ByRecursion`, and a node more is one `Emit` more (`TellsNode`). Each arm of the loop is
    then a lemma about sequences (`OpenTold`, `ScalarTold`, `CloseTold`, `KeyTold`,
    `NextTold`) and one about the action (`OpenTells`, ...). Patching a count changes no
    kind and no place, so the walk is the same (`WalkedAlike`).
  - `CountsTell`: the count in each open frame is the number of values right inside it so
    far, one more in the innermost when the parser has counted a value it has yet to read
    (`OpenCounts`); a container that is no longer open carries the number of those between
    its start and its end (`AllCounted`); a key is followed by its value, unless it is the
    last node and its value is due (`KeysPrecede`).

The same module, for any lexemes, any depth limit and any input, from `TapeAssumption` and
`DocumentsAssumption` (there is a string lexeme, with which the property ends a document that
was only begun):

* `TheParserDecidesTheGrammar` (`DecidesTheGrammar`). The grammar asks which intervals of a
  whole document are values, elements and members; the parser sees one token at a time, with
  a stack. Between the two stands `Completes(doc, kinds, state, p)`: every open container has
  a place where it ends, and from `p` on the document holds what the state expects, up to the
  end of the innermost, and what may follow each of the others in the one around it. The
  invariant is `GrammarTells`:
  - `LeftToRead`: a document that begins as the input was read is JSON exactly when what is
    left of it completes what the parser has open. Each arm of the loop keeps it, by a lemma
    of the grammar (`OpenLeft`, `ScalarLeft`, `CloseLeft`, `FirstElementLeft`,
    `NextElementLeft`, `NextMemberLeft`, `KeyLeft`). Before a first element the code looks at
    a token without going past it, so the invariant leaves out the documents that have a
    bracket there and the input has not (`InView`).
  - `OpenSoFar`: what was read leaves open the containers on the stack, and never left more
    open than the limit.
  From it follow what a rejection means (`NextExpected`, `ColonExpected`: what may come next
  in a document is what the state expects), and that until then some document goes on
  (`SoonComplete`: closing what is open at once completes it). That the recursion over
  intervals has a solution, and is what its equation says, is `DerivationUnfolds`, by the
  length of the intervals (`Rank`). The invariant speaks of all documents, so no run can
  check it; TLC checks the property.
* `TheParserRejectsNoDocument`: where `parse` rejects, no document at all begins with what
  was read and the rejected token, the end of the input taken for the one behind a document's
  last token. The property above says it of the documents that end as soon as they can;
  together with the depth limit it is the converse: JSON that is not too deep gets a tape.

`LauncherProofs`, for any platform, any signals and any number of them, from
`LauncherAssumption`: `NoBinaryLeftBehind` (`NoOrphan`), `TheEndIsTheBinarys`
(`NothingInvented`), `LauncherTypes`. The inductive invariant adds to the types the
`Lifetime` of listeners and child over the script (every relayed signal has its listener
from before the spawn for as long as the child may live): without it a signal between
spawn and listener could not be excluded.

`McpServerProofs`, for all messages, batches of any length, widths and limits, from
`WidthAssumption`, `ServerAssumption` and `SilenceAssumption`: `EveryFrameFits`
(`FramesFit`: from 95 bytes on, the floor the code documents, no frame is wider than the
limit), `NegotiatedOnce` (`HandshakeOnce`, an action property), `EveryMemberIsAnswered`
(`OneAnswerEach`), `TheHandshakeTold` (`HandshakeIsTheOneTold`) and `ServerTypes`.
`FramesFit` speaks of finished frames; the strengthening is the `Budget` in the middle of a
batch: what the frame holds leaves a byte for its bracket within the limit. That a refusal
which does not fit is itself replaced by one that does is the lemma `Bounded` on the ladder
of `render_within`, by the digits of the numbers it quotes (`DigitsBounded`).
`OneAnswerEach` and the handshake speak of finished lines too; `InOrder` extends them to
every member: the answers so far are those the members so far are owed, in order
(`Placed`), and a handshake told so far is the one that stands (`Told`).

The same module, from `SessionAssumption` too: `SessionServes`, the
refinement `SessionSpec => ServerSpec`, step by step: every step of the loop, the client
and the pipes is a step of `McpServer` or leaves it alone, for clients of any manner,
pipes of any size and failures anywhere. So what is proved of the server's replies holds
in a session; the two refusals the loop writes itself, for a line that is too long or no
text, have a fixed width and know no limit. The invariant behind it is `SessionTypes`: the pipe holds
exactly the lines after the one the loop is at, which are the client's (so the server is
only ever given lines it may be given), and a frame is held exactly while it is written.
On it rest `FramesStayInStep` (`InStep`: what left are the frames owed for the lines read,
in order, whatever panicked or was refused), and `OkIsHonest` (`OkLosesNothing`: a loop
that ends well has put the frame of every line into the pipe, unless the client stopped
listening), both from `CaughtUp`: the frames seen, in the pipe and held are those owed for
the lines handled.

In the same module the lines it reads, for any limit and stream, from `LineAssumption`:

* `MemoryIsBounded` (`LineTypeOK`), by `RoomToRead`: what a read may still take fits under
  the cap.
* `ReadsLineByLine` (`ReadsTheLines`). The invariant is `OneForOne`: there is a place in
  the stream before which every line is told (`ToldLines`, counted by the line ends up to it),
  and after which the reader holds, or has thrown away, the start of one more, with no line
  end in it (`Within`). While it judges, the line has ended, or is as long as the cap;
  while it skips, the line is already too long. `TellingKeeps` is the one way to tell a
  line; that a line told as too long *is* too long when at last its end is found needs that
  framing is two bytes at most (`StrippedIsNear`), and the stream may still grow or close
  behind the reader (`ToldStill`). TLC checked `OneForOne` before it was proved.

`JsonTextProofs`, for strings of any length made of any pieces, from `JsonTextAssumption`:
`TheSpellingKeepsTheMeaning` (`SpellingKeepsMeaning`). Four walks read a string, each a
recursion over its places: the scan for half a pair, the respelling, the MCP reader and the
grammar's own meaning, and a fifth, the tape's scan, found where it ends. `ScanKeeps` shows
that a lexeme the scan accepts is cut into spellings by the grammar, at every place in one
way (`CutAt`), and `Backwards` is the induction from the end of the string that all the
comparisons use, as the walks step by two, four or eight places at once. At each place the
walks take the same step: what is copied, unwound or joined has, in the grammar's table, the
meaning of what stood there, and is what `write_escaped` makes of the character the reader
gets. The walks keep step only where no half of a pair is ahead, so the comparison has
`has_lone_surrogate` for its hypothesis, and that this scan finds a half exactly where the
meaning has one (`HasLone`, which looks at neighbours instead of walking) is a lemma of its
own. Escapes the parser never lets through have their arms in the model, and are shown not
to be taken. The invariant of the specification is only that a string is made of
characters (`Typing`): everything else holds of each text by itself.

`TheSpellingCostsNoMore` (`MinifyNeverCostsMore`), from the same assumption, of strings,
numbers and literals. The totals alone are no induction: a character that is dearer now may
be free later, when a run goes on. So two texts are compared by what they come to *if so
much more of one class follows and the text ends* (`Charge`), for every class and any more
of it (`NoMore`). The same character keeps `NoMore` (`SameMore`), a space in one text alone
keeps it (`SpaceMore`), and so does a respelling against the escape it stands for
(`PlainCheaper`, `ShortCheaper`, `NumberedCheaper`, `PairCheaper`), whatever came before
either. It rests on runs of one class: a longer run costs no less and two runs no less than
one as long, but for whitespace, where one run is one token at most (`RunFacts`, from what
`div_ceil` gives, `CeilFacts`). An escape by number becomes as much as four bytes of a run
of wide characters, two tokens; that it never was cheaper needs the density assumed of the
estimator: `u` and the digits of an escape are a whole token more. `Density` is at most ten
times their number in `JsonTextAssumption`; in the program they are 37 and 50. That the
lexeme the scanner takes is part of the text (`LexemeTyped`) needs where the marks of a
number stand (`MarksTyped`).

`McpToolsProofs` proves every property of `tools`, for any documents, encoders, estimates
and digest, any largest number and any number of changes to an archive. Three of them hold
for any alphabets, groups and sizes; the others are about the program's own base64
(`Program`: 64 symbols over 256 octets), whose shifts are arithmetic on these numbers.

* `NoTwoQuartetsAlike`, `DecodedBack`, `EncodedBack`: the base64 is a bijection between
  bytes and the texts it accepts, quartet by quartet and then place by place.
* `OneNumberOneField`: that a field is the one written for its number. `Payload` is a
  number in base `Group` (by induction over its bytes), and a number has one such spelling;
  that every number up to the largest is written and read back needs `VarintAssumption`,
  what `u64` and ten bytes have: the largest number is all ones below its last group.
* `ArchivesComeBack`, `DamageIsNotIgnored`, `TruncationsAreFraming`, from `FileOK` and
  `TextOK`, what is on the medium: bytes, or symbols, and undamaged the very archive. An
  archive is its parts one after another (`ArchiveIsLaid`), so what is laid out is read
  back (`LaidIsRead`), what is accepted is laid out so (`AcceptedIsLaid`), and what is
  shorter fails for its framing (`ShortIsFraming`), wherever it is cut. The digest is any
  function of the document with values of one length; no property needs it to be injective.
* `RepliesDropNothing`, `EstimatesMatch`, `TheSchemaIsKept`, by the shape of the arguments
  (`CallsStayAsked`), from `EncodersAssumption`: estimates are numbers, renderings are
  bytes. The first is about what is delivered, for any limit on a frame: a declined input
  stands in its reply twice, so it is the first to be too wide. An `input_too_large` never
  arrives from `compress` for that reason (`CeilingsAssumption`, as the catalogue tells the
  client), and what is refused for its width is as wide as that.

`ScannersProofs`, for strings, numbers and literals of any length, from
`JsonTextAssumption`: `TheScannersAgree` (`ScannersAgree`). Strings rest on the walks of
`JsonTextProofs`. For a number the marks its scanners stop at (`MarksOf`) say what stands
between any two of them, which decides the grammar's four parts, that a longer prefix is no
number, and where no number goes on. What the number is worth is not needed: the reader
refuses a numeral of the grammar only where it overflows.

### Only model-checked

* Liveness, which is out of the prover's reach: `EveryRunEnds`, `EveryLineIsRead`,
  `EveryAnswerArrives`, `SessionEnds`, `StopsWhenAsked`.
* What the folds of `e2_tabular` and the conversions of numbers compute: `TablesReadBack`,
  `TablesWhereShapesRepeat` of `Documents`, and `WrittenIsRead` of `JsonText`. These are
  inductions over data. The library's induction theorems take an operator as a parameter,
  which no installed prover can instantiate. Where the induction runs over numbers it can
  be stated of a *set* of numbers that holds zero and each successor, which is how `Varint`,
  `Base64`, `Picked`, the walk over a tape, the grammar, the strings and the estimate are
  treated above; for these, with folds inside folds, or the rounding of fractions in one
  base to those in another, it is not done.
* `ReaderDecides`: `JsonReader` is made of RECURSIVE operators, as the code is of recursive
  functions, and the proof system takes no module that has them.
* `MeasuredWindows`: numbers measured by the program's tests, at particular limits.
* `NoRenderingWithoutItsArchive` does not hold; it is the finding.

## What the models leave out

* Command line: Linux semantics. A slot that names a descriptor (`inspect_descriptor_slot`)
  and file identity on Windows are not modelled, nor the guard of `tokfold mcp`. Symlinks
  are one deep. A special file is a FIFO whose open blocks and does not fail. The two
  stats of one guard are one step. A failure of a system call stands for permissions,
  space and I/O errors. A crash is a kill of the process, never of the machine. The digest
  is taken to be collision free. `UnlinksOnlyTheInspected` compares identities, so it says
  nothing of a file that was rewritten in place, and a second hard link of a removed
  archive survives, as in the code.
* Server: the text of messages, the echo of unknown names in them, and panics inside the
  JSON parser, which the second parse of `recover_id` would meet again. Widths and limits
  are below 10^8, so that a limit has at most eight digits.
* Transport: an interrupted read while skipping (`stdio.rs:292`) is an error that ends the
  loop. Frames enter a pipe whole. What `BufWriter` flushes when dropped is ignored.
* Launcher: signals ignored by the caller of the launcher, the retry of a busy standard
  error, and the missing exit event of one Node version on macOS.
* Container: `usize::try_from` of a length cannot fail on a 64-bit machine.
* Selection: what renderings contain.
* Documents: spellings of strings are a table with one canonical spelling each, checked in
  `JsonText`. The guards in `e2_tabular.rs` that return `None` for a tape of another
  input, the sentinel line before a rendering, and inputs of 4 GiB and more.
* JsonText: `i64` is bounded by its digits, so its one value more below zero is left out;
  `Display` chooses between equally near shortest digits in some way. One protected rule of each kind of match; characters are one of each class the
  code branches on. How near the heuristic comes to a real tokenizer is calibrated on
  data and is no property of the code; the exact tokenizers of feature `tiktoken` are
  another crate's.
* McpTools: the prose of `summarize`, the ratios in `stats_value`, and the wording of
  errors; a code stands for its error. The frame of a call is that of a call by itself; in a
  batch it has less room, which `McpServer` has, with a width in place of the text.
* Not modelled: argument parsing and usage text of the command line, the lookup inside
  `resolve.js` beyond its outcome, tests, fuzz targets and packaging.

## Plan

Done, first the core: `ArchiveBytes`, `CliRuns`, `RecoverySlot`, `CliContract`, `JsonRpc`,
`McpServer`, `LineReader`, `StdioSession`, `Launcher`, `Varint`, `Container`, `Selection`,
`Tape`, `Documents`, `CliRunsProofs`, `SelectionProofs`, `TapeProofs`. Then `JsonText`,
`JsonReader`, `Base64`, `McpTools`, and `LauncherProofs`, `McpServerProofs`,
`McpToolsProofs`, `JsonTextProofs`, `ScannersProofs`. Of the command line, the server (but
for measured numbers), the transport, the launcher, the tools, the selection, the parser
(its loop, its tape and the grammar it decides) and the minifying encoder (its walk, its
spelling of strings and what that costs), every safety property that is checked and holds is now proved.

What is left, in this order:

1. Proofs about text and documents: of `JsonText` what strings have in `WrittenIsRead`,
   whose walks are those of `SpellingKeepsMeaning`.
2. `inspect_descriptor_slot` and the guard of `tokfold mcp` in `CliRuns`.
3. `McpTools` in place of the `call` field of `JsonRpc`, so that the width
   of a reply follows from the document.
