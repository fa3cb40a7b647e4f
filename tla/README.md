# A TLA+ verification of ason

ason is a JSON transformer: it reads a JSON document in chunks cut at any byte,
asks a *protocol* (a set of callbacks) what to do with every key, element and
value, and writes the rewritten document while the input is still arriving.  Its
core is one hand-written scan loop (`src/engine/engine.go`) over some sixty
fields of state (`src/engine/transformer.go`), with no goroutine of its own.
What makes it hard is not parallelism but *order*: any chunk boundary may fall
between any two bytes, any callback may answer anything and call back into the
transformer, and the bytes of the output travel by two different routes.

This directory models that core, checks it with TLC on small instances and proves,
with TLAPS and for every value of the constants, the invariants of its state
machines and that three of them implement their abstract specifications.  `PROJECT.json` lists the runs, the lines each
definition translates, the hazards and the properties that guard them.

## 1. The system

| Component | Source | State | Operations | Modelled by |
|---|---|---|---|---|
| Scan grammar | `engine.go` (scan), `region.go` (apply, regPush, regPop, afterValue, closeContainer), `state.go` | dispatch frames, depth, root flags, lexer state, the region's phase and its stack of kinds | one byte of input | `ScanGrammar` |
| Output writer | `writer.go` | buffer, virtual run (a view of the chunk), output levels | write a key, an element, raw bytes; pass a range of the chunk through; start, drain, take and release a chunk | `OutputWriter` |
| Stream lifecycle | `lifecycle.go`, `transformer.go`, the flush of `engine.go`, emitRegionAt of `region.go` | scanned, committed, suspended, held, dead | Write, Out, SetSink, Flush, CommitNow, Suspend, Resume, Compact, Finish, Aligned | `Stream` |
| Defer and Release | `region.go` (doRelease, replayKV), `lifecycle.go` (Release, ReleaseNow, DropDeferred) | deferred pairs per frame, wantRelease, releaseAt, replaying | Release, ReleaseNow, DropDeferred, replay at the next safe point | `Deferral` |
| Caps, budget, error offsets | `region.go` (capAppend, emitRegion, emitRegionAt, runPrefix), `lifecycle.go` (Buffered, checkBudget), `errors.go` | capBuf, deferredBytes, limitAt, budget, commit window | every growth of a buffer; the offset of the error | `Budget` |
| Lazy output levels | `writer.go` (push, pop, ensureOpen, sep, CanWriteAt), `closeContainer`, `Finish` | a stack of levels, each opened or not, with or without a child, and the whitespace kept for its next comma | push, pop, Open, write at an outer level | `LazyLevels` |
| Lexical grammar | `jsonutil.go`, sInStr, sInKey and sInScalar of `engine.go`, scanStrUTF8 of `region.go` | escape, hex digits to come, UTF-8 state, literal state, the key so far | one byte, or one UTF-8 sequence | `Lexical` |
| FieldTreeOf | `fieldtree/` | types in progress (`onPath`), the tree | derive the tree, the flat table, a zero value | `FieldTree` |
| Type check | `validate.go`, `region.go`, SetFieldTree | the place in the tree, the copy and whether it outgrew its bound | judge a root value, judge a copied container | `FieldCheck` |
| Dispatch policy | `region.go` (onKeyDone, valueStart, apply, closeContainer), `lifecycle.go` (pushFrame, hookAt), `action.go` | seen keys, key cache, the hook of a frame, the path | read a key, start a value, close a container; duplicate keys, sub-hooks, probing | `Dispatch` |
| KeyProbe | `keyprobe.go` | keys taken, values kept | OnKey, OnValue | `KeyProbe` |
| String helpers, vector scan | `jsonutil.go`, `simd/` | none | decode, encode, search | `JSONStrings` |
| Facade, examples | `ason.go`, `examples/` | none of the engine's | aliases; users of the engine | not modelled (section 8) |

How they interact: the caller calls Write; Write runs the scan loop; the loop
calls the protocol; the protocol's answer opens a dispatch frame or a *region*
(a subtree handled as raw bytes); the bytes of a region go through emitRegionAt
to the writer, to a bounded copy, or nowhere; and a callback may itself write,
commit, suspend, bail or ask for a replay, which runs the scan loop inside the
scan loop.  When Write returns, what is final leaves by the sink or waits for
Out.

What each must get right:

* *Scan grammar*: a container is closed by its own bracket, at every depth and
  whatever mixture of frames and regions holds it; documents are accepted and
  refused exactly as the JSON grammar does ("the same rejection rules as
  `encoding/json`", `src/README.md`).
* *Writer and stream*: the output is what the protocol's answers describe,
  byte for byte and in order, across chunk boundaries, hand-overs, suspensions
  and commits; nothing leaves before the commit point; Finish leaves nothing
  behind; Write returns.
* *Deferral*: a deferred pair is either replayed or dropped once, in order, and
  the scan that a replay interrupts continues as if nothing had happened.
* *Budget*: what is held between two calls stays bounded by the budget, and an
  overflow stops the stream and is reported at the first byte that did not fit (which
  the code does not always do: section 4).
* *Levels*: whatever is written at whatever level, in whatever order, the output is
  one tree, and the document itself when nothing was changed.
* *Lexical*: a string, key or literal is accepted as RFC 8259 and RFC 3629 say,
  wherever the chunks are cut, and the error is in the character that fails.
* *Field trees and check*: a document the unmarshal takes is never rejected, and what
  the tree knows is judged as the unmarshal would.
* *Dispatch*: every callback reaches the hook it is meant for, with the right place
  and key, once per key as the policy says.
* *Strings*: decoding, resuming and encoding lose and repeat nothing; a search by
  words and vectors finds what a search by bytes finds.

## 2. The modules

`ScanGrammar` (with `JSONDoc`) is the lowest layer; `Stream` extends
`OutputWriter` and takes the order of scan events as given, so it needs the
grammar only as "a region opens at a value and ends at its end".  `Deferral`,
`Budget`, `LazyLevels` and `Dispatch` stand beside `Stream`: each takes the scan at
the grain its own state changes.  `KeyProbe` composes a protocol with `Dispatch`,
and `FieldCheck` composes the check with the tree that `FieldTree` builds.
`Lexical` is what `ScanGrammar` takes as "the end of a string or literal".

The theorems about a module `M` stand in `M_proofs`, which extends it:
`ScanGrammar_proofs`, `Stream_proofs` (which begins with the lemmas about the writer's
operators), `Deferral_proofs` (and, about the deferred pairs, `DeferralPairs_proofs`,
which extends it), `Budget_proofs`, `LazyLevels_proofs`, `Lexical_proofs`,
`Dispatch_proofs`; section 5 is about them.

### JSONDoc, ScanGrammar

`JSONDoc` is the abstract specification: the JSON grammar as a pushdown
automaton over tokens, with an explicit stack.  `ScanGrammar` is the scanner.
A token is a structural byte, the start of a string or literal, or the end of
the input; the *end* of a string or literal, entering and leaving the tight
region loop (a chunk boundary) are steps of their own that read no token.

The scanner has no stack of containers.  A container the protocol entered has a
frame; a container inside a region has one bit of `regKinds` (levels 1..64) or
one entry of `regDeep` (deeper), and the innermost level's kind is known only
from the phase.  The phase of a running loop is the local variable `ph`
(`engine.go:230`), written back to `regPh` when the loop is left; both are in
the model.  Of the counters `idx` and `n` of a frame the grammar asks only
whether they have moved, so they stop at the first value.  Each callback may
answer anything: enter, open a region, or bail.

The history variable `kinds` is the stack the scanner does not have.  It
appears in no guard; the properties compare the scanner's state with it.

### OutputWriter, OutputStream, Stream

A document is a sequence of positions; the byte of the input at position b is
the unit `b`, everything else that is written is a negative unit.  The writer is
a record with the code's fields; its operators are the code's functions.
`Stream` adds the scan loop at the grain the writer sees (a byte of the frame,
a value start, a byte of a region, its end), the commit gate, and every call
the caller may make between two Writes.  A callback is one of: nothing, a
write, a suspension, CommitNow, a bail.  `want` is the output that the answers
describe, built at the moment they are given.

`OutputStream` is the abstract promise: the bytes handed over are a growing
prefix of the bytes asked for, none of them before the commit point, all of
them after Finish.

Three constants describe how the transformer is used.  The passing run uses it
as the documentation says and avoids four uses under which the promise does not
hold (section 4).

### Deferral

A document is a stream of tokens generated one by one (objects only: an element
cannot be deferred, so arrays add nothing here).  Each key goes through `OnKey`,
whose answer (Pass, Capture, Defer, Enter) is any; each callback may also ask
for a release, drop what is held, suspend or bail.  The region of a Defer copies
tokens into `capBuf`; the frame keeps `[key, keyRaw, raw]`.

The Go code nests: `doRelease` runs inside `afterValue` or `closeContainer`,
which runs inside `scan`, and calls `scan` again.  The nested calls are the
records of `calls`, innermost last, with the point where the code continues
(`at`), the pairs still to be replayed (`todo`) and what is left of the current
pair's value (`raw`).  A replay executes *the same actions* as the document
(`Key`, `Value`, `RegionByte`, `CloseFrame`), so a held object may be entered,
its members deferred again, released again, to any depth.

One piece of Go's memory model is part of the code's behaviour here:
`closeContainer` keeps `f := t.top()`, a pointer into the slice `t.frames`, while
the replays run.  `frameCap` is the slice's capacity; when `pushFrame` outgrows it,
the pointers of the closings under way keep showing the old copy (`stale`,
`snap`).

### Budget

Buffers are lengths: the copy of the open region, the bytes of deferred pairs,
the output kept before the commit point.  `Now` is the record of what an effect
may change and the operators `capAppend`, `emitRegion`, `emitRegionAt`, `flush`,
`runPrefix`, `endRegion`, `checkBudget`, `fixOffset` are the functions of that name, from record
to record.  An Inner region (`regInner`, and every Prefix) starts after the opening
quote and ends before the closing one.  `unfit` is a history variable: the first byte
for which a copy had no room, judged byte by byte (`Fits`) and independently of the
chunking; the code sees runs, not bytes, and has to come to the same conclusion.
`Fits` holds the cap against Capture, Observe and Defer, and the budget against these
and against the bytes that a Prefix still collects; an Observe's output counts beside
its copy (`Kept`).  `late` is another history: OnPrefix was called on a stream that
was over.

A replay would repeat the same steps on a held copy, and Suspend only divides a
chunk, so neither is in this module.

### LazyLevels

Text is a sequence of tokens (brackets, commas, whitespace, keys as they came,
renamed or made up, whole values).  `push`, `pop`, `ensureOpen`, `sep`, `trailWs`,
`CanWriteAt` are the writer's functions, from writer to writer.  They are driven by
the frames of the scan (`Enter` pushes, `Close` opens and pops unless the container
is Lazy, a Flat one has no level, `PassAt` writes at any level under any name) and
by hooks, which may call `KeyAt`, `ElemAt`, `PushObj`, `PushArr`, `Pop` and `Open`
between any two tokens, under the contract the comments of `writer.go` state.
`kids` is a history: per level, the members that were accepted.  `OutputIsTree`
puts a text together from it and from nothing else.

### Lexical

A chunk is the number of bytes it has left; its bytes are chosen as they are read,
so every document over the alphabet meets every split.  `Escaped`, `HexDigit`,
`Plain`, `WholeSequence`, `SequenceByte`, `StartEscape`, `Closes` and the literal's
steps are the branches of the loop, for a string and for a key alike (a key is also
kept).  A UTF-8 sequence that lies in the chunk is judged by a table (`Refused`), one
that does not by a state machine (`Lead`, `Next8`); both are in the model.  The
reference, on whole texts, works on code points and on the grammar's productions.

### FieldTree, FieldCheck

A Go type is a sequence of constructors ending in a base type; the structs are
tables of fields (name, type, tag, embedded, exported, omitempty, string option).
`FieldTree` runs `treeOf` and `collectTree` with an explicit call stack, one call,
field or return a step; the tree is a function from paths to nodes.  `FieldCheck`
then reads a document, value by value, against the tree that was built: the root's
flat table, the container copied and walked (`sub` is the walk's place, one per
container), the copy that outgrows its bound (`over`, reset when a copy begins and when
it ends).  A container under the root is answered with Pass, Pass with a suffix
(`PassWrapped`, which the code does not check), Skip or Observe, the last standing for
every other answer.  Beside it runs the reference: what `json.Unmarshal` makes of the
same value, with its rules of promotion, tags, case folding, fixed arrays and
unmarshalers.  `owing` and `owed` are the history of what it refused where the tree has
a node: in the container being read and, by the answer it was given, in those that are
over.  Only an `Outgrow` forgives the former, and `over` is not looked at, so a flag that
outlives its container shows.

The walk happens at the end of a container and on its copy; the model walks while
the container is read and judges at its end, which is the same for a walk that only
looks and keeps the first mismatch.

### JSONStrings

The helpers as functions on sequences of byte values, with the code's indices.  A
state is one input, grown a character or a byte at a time; `HasVector` chooses the
build.  Word and vector widths are constants, so that inputs of six bytes cross
their borders.  Bytes marked in a word are computed with the borrow of the
subtraction.

### Callbacks, Dispatch, KeyProbe

`Callbacks` is the abstract specification: open containers, each with an owner (who
is told what happens inside), an issuer (who is told that it ends), its own keys
and its place; which callbacks a step may make, to whom, with which place.
`Dispatch` is the engine: the key cache with its slots (and another transformer
writing into them), the frames that reuse storage (`store` is what the slots still
hold), the hook of a frame, the path, the answer pending between key and value.
`KeepsContract` is the refinement.  `KeyProbe` restricts `Dispatch` to the steps in
which whatever is asked of the probe is answered as its methods do; the probe is the
protocol itself or is mounted below another one.

## 3. The runs that pass

| Run | Module and bounds | What it shows |
|---|---|---|
| `grammar` | kinds word of 2 levels, documents nested 4 deep, every mixture of frames and regions, every chunk boundary | depth counters agree with the document (`DepthsAgree`), the phases and bits *are* the stack of open containers (`StackIsDocument`), the counters that decide about trailing commas are right (`ProgressIsDocument`), and the scanner implements the JSON grammar step by step (`RejectsLikeJSON`) |
| `stream` | 6 bytes, chunks of up to 4, commit window 3, write-through from runs of 2, one generated value | nothing lost, repeated or moved (`NothingLost`); run and buffer are alternatives (`RunOrBuffer`); nothing leaves, and nothing is a view of the caller's chunk, before the commit (`HeldBeforeCommit`); `Aligned` means caught up (`AlignedIsCaughtUp`); the stream implements `OutputStream` (`KeepsPromise`); every Write returns (`WriteTerminates`) |
| `deferral` | 3 keys, 3 levels, 3 Defer answers | each pair is in one place, dispatched or dropped once (`PairsAccounted`); the count of held bytes is exact (`BytesExact`); what is held is the pair's own key and value (`HeldIsValue`); a request to release is kept until served (`RequestKept`); after a replay the scanner is where the document is, and no legal document is refused (`PlaceIsDocument`) |
| `budget` | 6 bytes, commit window 4, checked copies of 2, caps 0, 1 and 2, budgets 0, 3, 5, with and without a sink, whole and Inner regions | what is held between calls is bounded (`HoldBounded`); no hook of a stream that runs sees a cut copy (`CopiesWhole`); a byte without room stops the stream with an error in the run that did not fit, at the start of that run for a Prefix and at the byte for any other copy, but for the cases of section 4 (`OverflowStops`); the fallback is open exactly while the window has not been scanned (`WindowHeld`) |
| `lazy` | 7 tokens of input, 2 calls of hooks, 3 levels, every mixture of Flat, Lazy, renamed and outer writes | open levels are the outermost ones (`LevelsShape`); the output is the tree that was asked for (`OutputIsTree`); a document whose values are passed or entered comes out as it went in, whitespace included (`EnterIsIdentity`) |
| `lexical` | tokens of up to 7 bytes (5 with bytes from 80 up), chunks of up to 4, bytes at the edges of every table | stops at the first byte no token goes on with, and ends a token only where it is whole (`VerdictIsGrammar`); nothing of a token is left for the next (`IdleIsClean`); a key is its bytes once each, and decoded exactly when escaped (`KeyIsText`); the offset lies in the character that fails (`OffsetInCharacter`) |
| `fields` | structs A (every pair of fields over the types of `MCFieldCheck`) and B, recursive and embedded in each other, depths 0 to 3, documents of 3 values, 3 deep | marks and calls agree (`OnPathIsStack`); the two derivations of the flat table agree (`RootTypesAgree`); `ZeroJSON` is what Marshal writes (`ZeroIsMarshalled`); the check is never stricter than the unmarshal (`NeverStricter`) and as strict where the tree has a node, in every container the code checks, whatever came before it (`JudgesWhatItKnows`) |
| `strings` | strings of 3 characters out of 16 of every kind, runs of 6 bytes out of 6, word 3, vectors 2 and 1 | decoding gives what a string means and refuses the rest (`UnquoteIsMeaning`); a cut prefix and the raw bytes from its offsets make the whole (`PrefixResumes`); encoding reads back and holds nothing special (`QuoteRoundTrip`); the search finds the byte a loop finds (`SearchIsBytewise`) |
| `dispatch` | 2 keys in one cache slot, 2 values per container, 3 frames, 3 policies, a protocol, a sub-hook and a probe | the engine implements `Callbacks` (`KeepsContract`); the probe reads the first occurrence of the keys it wants, at the root only, and everything else reaches the output in order (`ReadsFirst`) |

Each property has a mutant: a definition changed as a plausible slip would change
it (a dropped guard, a missing reset, an order swapped), under which the same run
finds the property violated.  The mutated forms stand in the modules before the
definitions they change, marked *Mutant*.

**Why the bounds are enough.**  The grammar's state at a level depends on the kinds
of that level and of the one that contains it, and on whether the level is
inside the word, at its end, or past it; with a word of two levels, documents
four deep have all of these, and siblings of both kinds.  In `stream`, six bytes
with a window of three let a chunk end before, at and after the window, a run be
shorter than, equal to and longer than the write-through bound, and a region
span three chunks.  In `deferral`, three keys are what it takes to hold an object
that itself holds a pair while another waits; three levels make the frames move
in a replay under an outer closing.  In `budget`, a window of four in six bytes
lets a copy begin before the window and overflow inside, at and after it, and the
budgets are below and above the window.  In `lazy`, three levels are an open level
with an unopened one on each side, and two hook calls put a member before and after
what the input writes there.  In `lexical`, four bytes of a chunk hold the longest
UTF-8 sequence or cut it anywhere; seven bytes hold a whole `\u` escape with its
closing quote and every shape of number.  In `fields`, two structs
embed, contain and point to each other; three levels see a type below itself once.
In `strings`, three characters put a surrogate half before, between and after
others; six bytes are two words, or a word and every remainder.  In `dispatch`, two
members and three frames let a slot's storage be reused by a sibling, below a frame
with a hook of its own, and another key come into the cache's slot between two
equal ones.

**Deadlock** is not checked in these runs: a stream really stops, after Finish,
after a bail, or when the bound on its input is used up.

**Fairness.**  Only `Stream` has any, and only on the scan: `WF_vars(ScanStep)`.
`Write` is a synchronous call and its loop runs on the caller's own thread until
it leaves; nothing can hold it up between two iterations.  No fairness is assumed
of the caller (who need not call again) nor of the hooks' answers (which are
chosen adversarially among all of them).  `WriteTerminates` says more than that a
loop over a finite chunk ends: several branches go round without consuming a byte.

## 4. Where code and documentation disagree

Three runs each check one property that a sentence of the repository states and
find it violated.  The sentence and the lines are quoted in `PROJECT.json` under
`findings`.

| Run | What happens |
|---|---|
| `grammar_deep` | `regPop` truncates the overflow slice one level too late: with siblings at the first level past the kinds word (65 in the code) a container is judged by an earlier sibling's kind. The scanner accepts `]` for `}` and refuses the right bracket |
| `stream_suspend` | a hook suspends in OnElem or OnStart and answers Pass: the rest of the chunk is emitted as if scanned, and again by Resume |
| `fields_embed` | a struct that embeds a pointer to itself (which `encoding/json` takes) is flattened by `collectTree` without end: the call spends no depth and looks at no mark |

Configurations kept beside the runs, to be run by hand, each finding its one
property violated (`tlc -config MCDeferralOverlap.cfg MCDeferral`, and so on):

| Configuration | Property | What happens |
|---|---|---|
| `MCStreamOpen` | `RunOrBuffer` | `Writer.Open` on a level without a child: `sep` does not end the virtual run and the next key overtakes it (`writer.go:149`; `writethrough_test.go:141`: "The virtual run and the buffer are alternatives, never both held") |
| `MCDeferralOverlap` | `RequestKept` | a child frame's `Release` overwrites its parent's pending request, whose pairs end as `ErrLeftoverDefer` (`lifecycle.go:424`, against `lifecycle.go:420-421`, `transformer.go:66`) |
| `MCDeferralSuspend` | `PlaceIsDocument` | the scan of a replay sees the outer request to suspend and reads nothing: the held value is lost and the next legal key refused (`engine.go:59`, against `README.md:314-321`) |
| `MCDeferralRedefer` | `PairsAccounted` | a pair deferred again while its container closes is dropped without an error when the frames have moved (`region.go:513`, against `region.go:514`, `README.md:299-300`) |
| `MCBudgetSplit` | `FirstByteNamed` | the offset of an overflow in the second half of a split run is counted from the start of the first (`engine.go:462`; `README.md:343`: "Cap or budget overflow: The first byte that did not fit") |
| `MCBudgetLimits` | `FirstByteNamed` | a run over both its cap and the budget is reported where the cap ran out, also when the budget ran out first (`region.go:331`, against `README.md:343`) |
| `MCBudgetObserve` | `FirstByteNamed` | before the commit point an Observe's run counts as output before its copy asks the budget, so the byte named lies too early (`region.go:296-297`, against `README.md:343`) |
| `MCBudgetPrefix` | `FirstByteNamed` | a Prefix over the budget leaves `limitAt` alone and is reported at the start of its run, which depends on the chunks (`region.go:313`, `engine.go:462`, against `README.md:338-343`) |
| `MCBudgetHole` | `NoLateHook` | the first half of a split run goes over the budget and the second fills the window: OnPrefix is called on a stream that is over, with a copy that lacks the first half (`region.go:272-276`, `321`; `region.go:380`: "do not hand truncated data to the protocol") |
| `MCBudgetFallback` | `FallbackKept` | an overflow inside the commit window, in a run that crosses it, leaves `Committed()` true (`region.go:272`, against `README.md:326`) |
| `MCLexicalOffset` | `OffsetIsFailingByte` | a bad UTF-8 sequence is reported at its first byte when it lies in one chunk and at the failing byte when a chunk cuts it, so this offset depends on the chunks (`region.go:602`, against `README.md:338-342`) |
| `MCFieldCheckExotic` | `NeverStricter` | a number for a `json.Number`, `"5"` for an int with the `string` option, and an element past the end of a fixed array are rejected though the unmarshal takes them (`types.go:97,101,110`, against `types.go:30-34`) |
| `MCFieldCheckWrap` | `JudgesEveryAnswer` | a container passed with a suffix (`Wrap`) is never checked inside (`region.go:131`, against `README.md:365-367`: nested checks cover the containers the tree describes, dropped fields too); the same holds of Observe, Capture, Defer and Enter (`region.go:66-173`) |

The passing runs leave out the uses these need: `stream` by its constants
`SuspendsAtValue` and `OpensEarly`, `deferral` by `Uses`, `fields` by its table of
types.  `budget` and `lexical` leave none of these uses out, nor does `fields` leave out
the answers that are not checked; the comments of `OverflowStops`, `CopiesWhole`,
`OffsetInCharacter` and `JudgesWhatItKnows` name them as exceptions.  `grammar` stops one
level before `grammar_deep`.

Smaller disagreements that the models contain and the properties are stated
around, without a run of their own:

* Without a sink, `Resume` or `Compact` before `Out` drops output that is still a
  view of the chunk (`writer.go:308`, `lifecycle.go:160`; `src/README.md` asks for `Out`
  after each Write only).  `stream` assumes the caller takes it (`TakesBefore`).
* The key of a deferred pair (`region.go:408`) and the copy for a type check
  (`region.go:307`) grow without asking the budget, though `lifecycle.go:28` says
  every growth asks; past the commit point `Buffered()` then stays above it.
  `HoldBounded` allows for one key and one checked copy.
* `OverflowStops` therefore asks for the exact byte only of a copy that is not a
  Prefix's, in a run that was not split, with one limit set (`OneLimit`) and no Observe
  counted twice (`CountedTwice`); with both limits set the offset is not before the byte,
  and for such an Observe not after it, unless both are the case.
* A Prefix window that fills inside a run is handed over without asking the budget
  (`region.go:311-321`), though `lifecycle.go:28` says every growth asks.
* `Write` checks the budget over the kept output after its last `fixOffset`
  (`lifecycle.go:294-296`), and `CommitNow` between two Writes has none: these errors
  say byte -1.
* `Prefix(0)` is an empty window, handed over at once (`region.go:311`), where
  `action.go:32` says that 0 is unlimited.
* Callbacks do run inside a replay (a held value may be captured or entered),
  against `engine.go:49`, which reasons from their absence.
* `ZeroJSON` (`tree.go:52`) writes members in the order of their names where Marshal
  keeps the order of the fields, leaves out a struct with `omitempty`, writes the
  fields of an embedded nil pointer, and gives `""` for a `json.Number`.
  `ZeroIsMarshalled` compares members as a set, without those (`Reproduced`).
* `UnescapePrefix` decodes the halves of a surrogate pair one by one to U+FFFD where
  `JSONUnquote` joins them; `PrefixResumes` is about strings without surrogates.
  `JSONUnquote` takes raw quotes and control characters inside, which
  `jsonutil.go:81-82` calls invalid input.
* `AppendJSONString` writes U+FFFD itself for a byte that is no UTF-8, and `\u0008`
  and `\u000c` for backspace and form feed; `jsonutil.go:15` says byte-identical to
  Marshal, which writes `\ufffd`, `\b` and `\f`.
* `Inner` is documented for Pass (`action.go:27`) and read for Observe too
  (`region.go:102`); on a Capture, Defer or Skip it leaves out the quotes of a string
  unasked (`region.go:253`), which `Budget` leaves out.
* `At` is documented for Enter too (`action.go:61`); `apply` reads the level for Pass
  and Observe only (`region.go:67-100`).

## 5. What is proved

Every bound of a run is a constant, and so is every bound of a theorem: where TLC
looked at documents of six bytes, the theorems are about documents, chunks,
windows, caps, nestings and numbers of pairs of any size.

| Module | Theorems | What they say |
|---|---|---|
| `ScanGrammar_proofs` | `TypeCorrect`, `DepthsCorrect`, `ProgressCorrect`, `StackCorrect` | `TypeOK`, `DepthsAgree`, `ProgressIsDocument`, and `StackIsDocument`: whatever mixture of frames and regions, whatever the chunk boundaries, the phases, frames and bits spell out the containers that are open |
| | `ScannerRejectsLikeJSON` | `RejectsLikeJSON`: the scanner implements `JSONDoc` |
| `Stream_proofs` | `TypeCorrect`, `OutputCorrect`, `RunCorrect`, `CommitCorrect`, `AlignedCorrect` | `TypeOK`, `NothingLost`, `RunOrBuffer`, `HeldBeforeCommit`, `AlignedIsCaughtUp` |
| | `StreamKeepsPromise` | `KeepsPromise`: the stream implements `OutputStream` |
| `Deferral_proofs` | `TypeCorrect`, `BytesCorrect`, `RequestsCorrect`, `PlaceCorrect` | `TypeOK`, `BytesExact`, `RequestKept`, `PlaceIsDocument` |
| `DeferralPairs_proofs` | `HeldCorrect` | `HeldIsValue`: what a frame or a replay holds of a pair is the raw key and the whole value the document has for it, at any depth of replays in replays |
| | `PairsCorrect` | `PairsAccounted`: a pair a hook was asked about is in exactly one place until it is dispatched for good or dropped |
| `Budget_proofs` | `BudgetCorrect`, `CopiesCorrect`, `OverflowCorrect`, `WindowCorrect` | `HoldBounded`, `CopiesWhole`, `OverflowStops`, `WindowHeld` |
| `LazyLevels_proofs` | `LevelsCorrect`, `EnteringIsIdentity` | `LevelsShape`, `EnterIsIdentity`: a document whose values are passed or entered as they came comes out as it went in |
| | `OutputIsTheTree` | `OutputIsTree`: whoever writes, at whatever level, in whatever order, the output is the text of what was accepted |
| `Lexical_proofs` | `CleanBetweenTokens`, `KeysReadBack` | `IdleIsClean`, `KeyIsText` |
| | `VerdictOfGrammar` | `VerdictIsGrammar`: byte by byte and in every chunking, the scan of a string, key, word or number accepts RFC 8259 and RFC 3629, no more and no less |
| | `OffsetsInCharacters` | `OffsetInCharacter`: an error is at the failing byte, or at the first byte of its UTF-8 sequence |
| `Dispatch_proofs` | `EngineKeepsContract` | `KeepsContract`: the engine implements `Callbacks` |
| | `ProbeReadsFirst` | `ReadsFirst` of `KeyProbe` |

Each state machine also has `Invariance`, `Spec => []IInv`, on which the others rest.

### The assumptions

The named assumptions on constants say that bounds are natural numbers (those the
code divides by or starts from, positive), that sets of answers, targets and
policies hold only such, and that `None` is no hook.  TLC evaluates all of them in
the runs.  Beyond them three modules have a hypothesis in their theorems:

* `NestingFits == MaxDepth <= BitLevels + 2` (`ScanGrammar`): no region goes more than
  one level past the word.  One level further `StackIsDocument` is false
  (`grammar_deep`), so `StackCorrect` and `ScannerRejectsLikeJSON` have it.  With the
  code's 64 levels they cover documents in which no region has more than 65.
  `TypeCorrect`, `DepthsCorrect` and `ProgressCorrect` do without it: however deep a
  region, no level is asked for that is not there, and a region that ends at a wrong
  kind of bracket still ends at the bracket of its own depth.
* `UsedAsDocumented` (`Stream`): a hook does not suspend and answer Pass at a value
  (`stream_suspend` shows what happens, so this is a limit of the code, which
  its documentation does not state), no hook opens a level that has no child
  (`MCStreamOpen`), and the caller takes the output before each call that reuses the
  chunk.
* `UsedPlainly == "suspend" \notin Uses /\ "redefer" \notin Uses` (`Deferral`): no hook
  asks to suspend in a callback after which a replay starts, and a pair that is
  replayed while its container closes is not deferred again.  `MCDeferralSuspend` and
  `MCDeferralRedefer` show `PlaceIsDocument` and `PairsAccounted` failing without them.
  `RequestsCorrect` also needs `"overlap" \notin Uses`, without which `RequestKept` is
  false (`MCDeferralOverlap`).

`Budget`, `LazyLevels`, `Lexical` and `Dispatch` have none.

### The inductive invariants

None of the properties is inductive as it stands.

**ScanGrammar.**  `StackIsDocument` compares one sequence, read off the scanner's state
by a definition with a case for each level, with the history `kinds`.  It says
nothing about stale bits above the current level, nor of what `regPop` will find one
level down.  `IInv` has `TypeOK`; `DepthsAgree` (how `depth`, `regDepth`, `regN` and
the number of frames relate); `LevelsAreDocument`, the same comparison one level at a
time, with the word's bits constrained only up to `regN`, so that a push must rewrite
its bit and a pop may rely on the one below, and with the overflow slice at least as
long as the level demands (`regPop` leaves it longer, which is the bug of
`grammar_deep`: a pop finds a level, though maybe a sibling's; only the clause about the
innermost kind has `NestingFits` for a premise); and `ProgressIsDocument`, per frame, what the phase
and the counters say about whether a value has been read.

**`RejectsLikeJSON`** needs nothing beyond `IInv`.  Each action has a lemma: what the
document expects where its guard holds (`Expects`, in a frame, in a region or at the
root), hence which tokens are legal there (`LegalAt`), and that the phase tables let
through exactly those.  A legal token moves the document as the grammar does
(`Accepts`), any other ends it as invalid (`Refuses`), a protocol error as stopped
(`StopsAt`); entering and leaving the loop of a region stutters.

**Stream.**  `NothingLost` needs to know, in the middle of a call, which of the bytes
read have not reached the writer yet.  `OutputComplete` says it: what the writer holds
and has sent (`Content`), followed by what the open region has still to hand over
(`Pending`), is `want`.  `OutputSound` keeps the run inside the chunk and everything at
home before the commit point; `PlaceOK` ties the place in the chunk to `rs`, where the
open region begins, and says that between calls nothing is left; `RootOK` that a
region whose bytes are wanted has a level to go to; `HeldOK` that what a suspension
keeps fits the document.  Every operator of the writer has a lemma (what it does to
`Content`, and that the writer stays well formed), cited by one lemma per action.

**`KeepsPromise`** follows from `IInv` before and after a step: the new `sent` continues
the old, it is a beginning of `want` (so no hole opens), it is empty before the
commit point, and it is all of `want` at Finish.

**Budget.**  `HoldBounded` is about the moments between calls, `CopiesWhole` about those
at which a hook reads a copy, `OverflowStops` about the return of the call in which a
byte had no room.  What carries them is `CopyOK`: a copy is exactly what
its target has had (`Handed`), within its bound; `HoldOK`: what the budget covers at
any moment; `UnfitOK`: the first byte without room is always one that has not been
handed over yet, so the run that holds it must end the stream; and `WindowOK`.  Each
operator of the code has a lemma over the record of its effects.

**LazyLevels.**  `Shape` (what `LevelsShape` says) with `InStep`: the frames that are not
Flat are as many as the levels that no hook pushed, so that a container that closes
always finds its own level on the stack once the hooks' levels above it are gone.
`EnterIsIdentity` needs, while nothing was changed, that the levels are the frames
(`Matches`) and what would be written if every level were opened now, the innermost
last (`Spelt`): that text, with the separator that waits before the next value, is the
document read (`AsItCame`).  A level is opened when its first member is written, so
the output itself says too little about what the levels still hold back.

**Lexical.**  `CleanOK` says for every state of the scan which of the automata may be
under way, `KeyOK` that inside a key the buffer is the bytes read, and that the
escape flag is set exactly when a backslash is among them, also while that escape is
being read.

`VerdictIsGrammar` compares the scan with definitions over the whole text, so the
invariant (`VInv`) has to say what the scanner's few variables know about a text they
no longer hold.  In a string (`StringOK`) the text is whole characters and an open rest
(`Written`, `Open`): nothing, a backslash, a \u with `hexN` digits to come, or a
sequence that `u8` remembers, whose next byte has to be in the same `Table` that a
sequence read whole is held against.  Characters are a prefix code (`PrefixCode`,
`CharLength`), so a text is split in one way only, and the byte that makes no rest
(`Fails`) makes no string (`FailsNotViable`).  That the two automata's ranges are the
code points of RFC 3629 is arithmetic over four bytes (`TwoBytes`, `ThreeBytes`,
`FourBytes`).  In a literal (`LiteralOK`) the state of the number automaton says both
what the text is (`InState`: where its sign, integer, fraction and exponent end) and
what may follow (`Follows`: every number that begins with it is in this very state after
it, `AfterBytes`).  The first gives that what is accepted is a number and that what
goes on can become one; the second that what is refused cannot.

**Dispatch.**  `Names`: the path names, from the root on, the members that the frames are
reading; `FrameShape`: how many, and where the counter of an array stands.  `Callbacks`
has open containers with their members, owners and issuers where the engine has
frames, slots with left-over keys, and a cache; the refinement is proved one action at
a time: each callback maps to the abstract step with the same hook, key and place, or
to a stutter, also when a seen-key list is in the storage a sibling left behind or
the cache's slot holds another key.

**KeyProbe** is a `Dispatch` whose hook is known, so the invariant above holds, and
`PInv` goes with it.  A probe that is the protocol (`Alone`) reads the root alone and
enters nothing: what its frame has counted are the `members`, `pseen` are the wanted
keys among those, what it wants done with the member being read is the `Answer` for
it, and what it kept and what is in the output are the `Results` for the members that
are over.  One that is mounted in another protocol (`Mounted`) is never asked for a
key of the root, for the root's frame has no hook of its own (`RootHook`); so it keeps
nothing, and writes nothing.  The lemmas `Alone...` and `Mounted...` go through the
actions of `Dispatch`, and `AskedOnce` says that a step asks it at most one thing.

**Deferral.**  The hardest one, because the code's stack of calls is part of the state.
`Always` types the state and says that `deferredBytes` is the sum over all frames
(`Total`); it holds when the transform has stopped too.  While it lives, `Stack` says
what every call on the Go stack will find when it continues: the frame it serves
exists, the pairs it has still to replay are whole values, and what it interrupted is
at the place of the grammar (`Source`) at which the frame below it goes on.  `Closing`
adds that a frame whose closing has begun to replay holds nothing any more, which is
why the stale pointer of section 2 does no harm without a redefer.  `Walk` is the
grammar of a value's tokens, from place to place; a copy under way (`InRegion`) is a
walk from the start of the value to the scanner's place.  With it a replay reads to
the end of each pair and never past it, and never fails.

`PlaceCorrect` adds that the path is the document's wherever both have an entry
(`Agree`).  A replay works on the path of the frame it serves, and an outer one may
have changed it meanwhile; so the proof shows that an entry that a step changes is
never one that the document still has (`Goes`), and the place itself then follows
from `Stack` and `Rest` when no call is left.

`HeldCorrect` needs to know where a value ends.  The lemma `WholeUnique` says that it
is determined: two complete values of which one begins like the other are equal, since
a walk that is complete has no complete beginning.  `Faithful` then relates every copy
to the history `doc`: the texts the document has so far are beginnings of values, and
complete for every pair that is over (`DocOK`); the text of a key inside another value
goes on there after that key (`TextOK`); what frames and replays hold are whole texts
of the document, and what is still to be read of a replayed value goes on as the
document does (`Faith`); and the single fields `kvRaw`, `regKey`, `capBuf` are those of the
pair being asked about (`AskedFor`) or copied (`Copying`).  The document's text of a pair
that is copied inside a replay was complete before the replay began, so the copy can only
end where that text does.

`PairsCorrect` gives names to places.  `Accounted` says that there are names for all pairs
(`Books`) with which the state agrees: whatever is in a frame, waits in a replay or stands
inside such a value has the name of that place, and each key is there once (`Sorted`);
what is being read is in hand (`Handed`), what was dispatched is `Taken` once (`Counts`),
and what the document has not brought yet is nowhere (`Beyond`).  A step keeps the names
(`SortedKeeps`), or moves those of a whole place: a frame drops what it holds
(`SortedDrops`), passes it to a replay (`SortedPasses`), or gets the pair that was copied,
with everything inside its value (`SortedPuts`).  As one pair has one name, the count of
`PairsAccounted` is one (`OnePlace`).  It uses `Faithful`: a pair inside a held value is not
met a second time before that value is replayed, because the value is what the document
has, where each key stands once.

**Two lemmas that are not in the library's reach.**  The library's induction theorems
take an operator as a parameter.  `Induction` (in `LazyLevels_proofs`,
`Deferral_proofs` and `Lexical_proofs`) is the principle for a *set* that holds 0 and the
successor of each of its members; it is proved from the pigeonhole theorem of
`FiniteSetTheorems`.  From it comes that the recursive function in `Ends`, a CHOOSE too,
is what its equation says (`EndedDefined`, `EndsIs`), and come the sums of
`MapThenSumSet`, whose definition picks elements by CHOOSE: that such a function exists
(`SumDefined`), that the order does not matter (`SumAnyOrder`), and that a frame on top
adds its own part (`TotalTop`).

## 6. What is only model-checked

* `WriteTerminates`: liveness under fairness is out of the prover's reach.
* `FieldTree`, `FieldCheck` and `JSONStrings` for good: they rest on recursive
  operators (a struct's zero value, a decoder's loop), which the prover does not
  take.
* The uses that the hypotheses of section 5 leave out: nesting more than one level
  past the word, and
  hooks that suspend, open or defer again where the code does not bear it.

## 7. How the modules abstract

* In `ScanGrammar` whether a literal or string is well formed is an outcome the
  scanner may meet at any byte (`LexicalError`, `FrameJunk`, `RegionJunk`); `Lexical`
  computes it.
* The output has one level in `OutputWriter`, where separators are part of the unit
  that follows them; the levels and the whitespace they keep are in `LazyLevels`.
* In `Lexical` the alphabet is a byte on each side of every limit of the tables.  The
  region or frame a token belongs to is left out, and so is what follows it.
* Calls that are refused as misuse (Write or Finish while suspended, for one) are left
  out of `ScanGrammar` and `Stream`: they end the stream as a bail does.
* In `Budget` a value has no prefix or suffix of its own.
* In `FieldCheck` a value is its kind.  A key with escapes is left out (the walk
  accepts its value), as are fractions for integer fields, which the check does not
  look at by design (`types.go:32-34`).  `Outgrow` may happen at any moment instead of
  when a copy reaches 64 KB.
* In `Dispatch` one step reads a whole value that is not entered: no callback happens
  inside it.  Malformed input is `ScanGrammar`'s.
* The buffer's storage (reserve, capacities, the lent pool) is left out: no unit
  of output depends on it.
* The protocol is every protocol: no answer is excluded except by the constants of
  section 4.  What an answer costs in output is Stream's concern, in held bytes
  Budget's, in dispatches Deferral's; the three are separate modules because their
  product is beyond TLC and the code couples them only through `emitRegionAt`
  (whose commit is in `Stream` and `Budget` both) and the suspension flag (in
  `Stream` and `Deferral` both).
* Bounds on data (`MaxDepth`, `MaxIn`, `MaxKeys`, ...) stand in guards and are
  named where they are declared.

## 8. What is not modelled

* What a vector instruction computes, and the assembly of `simd/`: `JSONStrings` has
  their loops and widths.
* `IsZeroNum`, `IsIntLiteral`, `IsNumLiteral`, `appendInt` of `jsonutil.go`: calls of
  `strconv`.
* The facade `ason.go` (aliases) and the programs under `examples/`: users of the
  engine, each one of the protocols the models let answer anything.
* The buffer pool and capacities, for the reason in section 7.

## 9. What is left

All modules are written, and every safety property of the seven machines of section 5 is a
theorem, under the hypotheses given there.  Each hypothesis leaves out what the engine's
documentation forbids (a caller that reuses a chunk before it took the output) or a use
of which a run shows that it breaks a property.  The latter could go when the code they
stand for is changed: `regPop`, a suspension during a replay, an answer given while
suspended, a level opened without a child, a redefer while a container closes.
