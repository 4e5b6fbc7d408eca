# Verification of sseParser

`include/sse_parser/sse_parser.hpp` is a header-only C++17 parser for
Server-Sent Events.  This directory holds TLA+ modules that model it, TLC
configurations that check the models on small instances, and proofs checked by
TLAPS.  All line numbers below are of that header unless a path is given.

## 1. The system

The parser is sequential: it starts no thread, keeps nothing on disk and reads
no clock.  What is hard about it is, first, the *input*: a byte stream reaches
it in chunks cut anywhere, a chunk may be refused, a line may fail in the
middle of a chunk, and `flush`, `reset` and the two `set_callback`s may be
called between any two chunks.  Second, the *callbacks*: user code runs in the
middle of `complete_message`, with one or more loops of `parse` and `flush` on
the stack, and may call the parser again or throw.  Third, parsers are
*values*: they can be copied and moved, while a registered function pointer is
wrapped in a lambda that holds the address of the parser it was set on.
Fourth, its *clients*: a connection may drop anywhere, and the client resumes
from the last id it knows.

| Component | State | Operations | Correct when |
|---|---|---|---|
| `Buffer` (194-399) | `buffer_`, `read_pos_`, `max_size_` | `append`, `read_line`, `has_complete_message`, `clear`, `set_max_size`, `view`, `empty`, `size`; private `find_line_end`, `compact` | it is a bounded stream of unread bytes cut into lines; compaction and the read position cannot be seen; it never grows beyond its limit |
| field parser (403-591) | none | `parse_retry_value`, `parse_field_line`, `has_bom`, `skip_bom` | a line is split at its first colon and loses at most one space; exactly the numbers that fit an `int` are accepted |
| `Message`, `SseError` (53-165) | the record with its defaults | `clear` | - |
| `MessageBuilder` (628-806) | `current_msg_`, `callback_`, `completed_messages_`, `accumulating_data_`, `last_event_id_` | `feed_line`, `get_message`, `reset`, `clear_last_event_id`, `set_callback` | a message is what its block of lines means as a whole; push and pull users see the same messages, once and in order |
| `SseParser` (851-1076) | a `Buffer`, a `MessageBuilder`, `callback_`, `fn_callback_`, `user_data_`, `last_event_id_` | two constructors, `parse`, `flush`, `reset`, two `set_callback`s, `has_incomplete_message`, `last_event_id` | what is delivered is the accepted text read as a whole, however it was cut; nothing is lost by a call that reports success; the callback set last gets it |
| `examples/usage_examples.cpp` | last id, "first chunk" flag | the callbacks and loops of examples 4 and 8 | every event of the server reaches the client once and in order, however often the connection drops |
| `src/main.cpp` | - | - | not modelled, see 7 |
| `tests/`, vendored googletest | - | - | not modelled, see 7; the tests are read for what they claim |

How they interact: `parse` and `flush` call `Buffer::append`, then loop over
`Buffer::read_line` and hand each line to `MessageBuilder::feed_line`; an empty
line makes the builder call the user's callback and push the message to its own
queue.  The facade keeps the user's function pointer and gives the builder a
lambda that reads it when it runs.  The facade never takes a message from the
builder's queue and never assigns its own `last_event_id_`.

The hard behaviours, each with its line and the properties aimed at it, are the
`hazards` of `PROJECT.json`.

## 2. The modules

| Module | Models | State and actions |
|---|---|---|
| `LineStream` | what `Buffer` promises | `unread`, `max_size_`, `ret`; no position, no compaction |
| `Buffer` | `Buffer` | the code's three fields and `ret`, what the last call returned; one action per mutating method, the queries are operators |
| `BufferProofs` | - | theorems on `Buffer` |
| `FieldParser` | the free functions and `Message` | operators only |
| `FieldReference` | the reference | what `parse_retry_value` and `parse_field_line` should compute, without their loops |
| `FieldTexts` | - | a text that grows token by token; the functions compared with the reference on it |
| `FieldParserProofs` | - | theorems on `FieldParser`, and the same as invariants of `FieldTexts` |
| `MessageBuilder` | `MessageBuilder` | the code's five fields and `out`, what the last call returned and the callback call it made; one action per method |
| `MessageBlocks` | the reference | the meaning of a block of lines, and of a text, computed as a whole instead of line by line |
| `MessageBuilderHistory` | - | `MessageBuilder` with a record of what its user fed and saw; the properties |
| `TextLemmas` | - | induction and recursion on positions, pieces of texts, the parts of a line; lemmas on `MessageBlocks`: what one more line adds to a block, one more chunk to a text, one more line read to what is unread |
| `MessageBuilderProofs` | - | theorems on `MessageBuilder` and `MessageBuilderHistory` |
| `SseParser` | the facade | instances of `Buffer` and `MessageBuilder` share its variables; `parse` and `flush` are loops, each iteration a step, and `pc` says where the call stands |
| `SseParserHistory` | - | `SseParser` with the accepted text and the callback set last; the properties |
| `SseParserProofs` | - | theorems on `SseParser` and `SseParserHistory`; uses those on its parts |
| `SseReentrant` | the facade with user code inside | the same parts, but a call stack in place of `pc`; a callback that runs is an entry of the stack, `CallbackReturns` and `CallbackThrows` end it, and while it runs the calls of the parser are open to it |
| `SseReentrantProofs` | - | theorems on `SseReentrant` |
| `SseClient` | examples 4 and 8, with a network and a server | `SseParser` and a client that remembers ids; the connection drops between any two calls |
| `SseClientProofs` | - | theorem on `SseClient`; uses those on the parser |
| `ParserCopies` | the callbacks of several parsers | for each object its three callback fields and the builder's; construction, both `set_callback`s, copy, move, destruction |
| `ParserCopiesProofs` | - | theorems on `ParserCopies` |
| `MCBuffer`, `MCFieldParser`, `MCMessageBuilder`, `MCSseParser`, `MCSseReentrant`, `MCSseClient`, `MCParserCopies` | - | small instances for TLC |

The section "Slips" of a module holds plausible mistakes in the operators that
follow it.  Each has the parameters of the operator it could replace; none is
used by a specification.  They document what the properties detect.

### How the data is abstracted

`Buffer` works on bytes.  No property depends on any byte but CR and LF, so an
alphabet of CR, LF and one other byte is enough for TLC; the proofs are for any
alphabet.

From `FieldParser` up, a text is a sequence of *tokens*: a token is one
character, or a word into which the code never looks ("data", "message", ...).
`data: x` is `<<"data", ":", " ", "x">>`.  Sizes are counted in tokens, so a
limit of 9 in a configuration is nine tokens.  A cut inside a word is therefore
not a behaviour of the upper modules; cuts everywhere are covered by `Buffer`,
where the line comes out as the same bytes whatever the cuts (except between CR
and LF, see 5).

Kept as in the code: the order of the effects of `complete_message` (last id,
callback, queue, fresh message), the separate treatment of `data:` lines and
all others in `process_field`, the two limit tests of `append` with the
compaction between them that survives a refusal, the early returns of `parse`
and `flush`, the leftover of `flush` (the *whole* string, `view()` does not
start at the read position), and the late lookup of the function pointer.

`SseParser` takes a callback for a part of the step that calls it; `SseReentrant`
takes it apart.  Its property `RunsAsSseParser` says how the two fit: a call
that a callback makes is accepted, refused or over at once, reads, fails,
clears and returns as `SseParser` does for the main program, whatever is on the
stack below it; the step that starts a callback is the step of `SseParser` that
completes the message.  Three things `SseParser` does not have are left out of
it by name: the return of a callback, which is no step there, an exception, and
a flush whose string a callback has cleared.  `SseReentrant` has `std::function` callbacks
only, for which the facade's copy of the callback and the builder's are the
same; what is special about function pointers is in `SseParser` and
`ParserCopies`.  In `ParserCopies` nothing is parsed: where a message of a
parser would go depends on the callback fields alone.  The copy and move
operations are the compiler's; a moved-from `std::function` is taken to be
empty, as the build's standard library leaves it.

Left out: the wording of `error_message`; lengths near `SIZE_MAX`, where
`buffer_.size() + len` would wrap; `Message::clear` and a fresh `Message{}` are
one value.  `std::isspace` is that of the "C" locale.

## 3. The runs

Eight runs pass.  Unless noted, deadlock is checked.

| Run | Bounds | What it shows |
|---|---|---|
| `buffer` | chunks up to 3 bytes of CR, LF and `x`, limits 3 and 5, unlimited calls (9246 states, complete) | `ImplementsLineStream`: every behaviour of `Buffer` is one of `LineStream`. `GrowthIsBounded`. `BoundaryNeverMissed`, `BoundaryExactForLF`: `has_complete_message` overlooks no empty line, and is exact when there is no CR |
| `fields` | every text of up to 6 tokens over seven (137257), `INT_MAX` = 127 | `SplitIsExact`, `RetryIsExact`. The state is the text itself; it stops growing at `MaxLen`, so deadlock is not checked |
| `builder` | twelve lines, one of each kind the code tells apart, 4 lines per behaviour, two callbacks (381266) | `CurrentIsItsBlock`, `QueueKeepsEveryMessage`, `CallbackSeesEveryMessage`, `LastIdOfCompleted` |
| `stream` | six chunks, limit 9, six calls of `parse` and `flush`, any number of resets (267659) | `NothingSpurious`, `SuccessMeansComplete`, `FlushDeliversTail`, `EveryCallReturns`. `RefusedExactlyWhenFull`: while no complete line is unread, a chunk is refused exactly when it does not fit next to the unfinished line of the accepted text |
| `callbacks` | a text with one message, one `std::function`, two function pointers, two user data (84776) | `LastCallbackReceives`: the callback set last receives each message once; no null pointer is called |
| `reentrant` | three chunks, limit 9, three calls of `parse` and `flush`, nested up to three deep, any number of resets and callback changes, callbacks that make every call and may throw (79802) | `OneMessagePerBoundary`: each boundary queues one message, throwing callbacks excepted. `MessagesAreTheirLines`: that message, and the one the callback is handed, is what was fed since the last one was queued or dropped by `reset`, read as one block, whichever calls fed it. `SuccessMeansAllFed`: a `parse` that returns success leaves no complete line unread, whatever its callbacks did. `AllCallsReturn`. `RunsAsSseParser`: a call in a callback takes the steps of `SseParser` from its entry to its return |
| `client` | three events, any chunks up to 10 tokens, three drops, with and without a byte order mark (1810) | `EveryEventOnce`, `AllDelivered`: a client that resets the parser on a drop and resumes from the id its callback saw last loses and repeats nothing. Deadlock is not checked: the client stops when everything has arrived |
| `copies` | three objects, one `std::function`, two function pointers (1551 up to symmetry) | `OwnRegistrationHolds`: a callback set on an object itself receives its messages, whatever it was copied from and whatever becomes of its copies |

Why the bounds are enough.  *Limits 3 and 5* with chunks of 3: a chunk can fit,
fit after compaction, or be refused, at every read position, and the limit can
be lowered below the current size.  *Six tokens* reach `INT_MAX`, its
neighbours and values ten times as large, between spaces.  *`INT_MAX` = 127*:
the tests divide by ten and subtract a digit; 127 has, as 2147483647, a last
digit that is neither 0 nor 9.  *Four lines* are two data lines, an empty line
and the start of the next message, or a failing line between two good ones.
*Limit 9 with chunks of up to 8*: every second append is preceded by
compaction or refused; the eight-token chunk holds a complete message and the
beginning of the next, the failing chunk fails twice, in two lines with a third behind them, so that after
a `parse` that failed in the first a `flush` fails in its own loop at the second
(1000).  *Six
calls*: begin a message, fail in it, refuse, complete, flush.  *Three nested
calls*: two are enough for a call in a callback to read the lines of the one
outside, or to clear them; the third may be refused, fail, or run in a callback
of the second.  The chunks contain a line that fails between two boundaries, so
exceptions, errors and boundaries meet at each depth (four calls, 1411035
states, pass as well and take five minutes).  *Client*: a chunk of 10 tokens
holds a whole event of 9 and a byte order mark cut off or not, and 13 tokens
are enough for the at most three unread ones and a chunk: nothing is refused,
as refusals are the matter of `stream`.  With three drops each of the three
events can be cut once, or one of them three times.  *Three objects*: the
original, a copy, and one copied from the copy.

Each bound is a
CONSTANT (`MaxLen`, `MaxLines`, `MaxCalls`, `MaxDepth`, `MaxSize`, `MaxSizes`,
`ChunkLen`, `MaxChunk`, `MaxDrops`); `MaxLines` and `MaxCalls` limit only the
history modules and `SseReentrant`.  The symmetry of `copies` is that of names
of objects, function pointers and user data, which are only compared; the run
has no temporal property.

Fairness: `SseParser` asks for weak fairness of `Continue`, the rest of the
call that runs.  The thread inside a call keeps running, as the code blocks on
nothing; no caller has to call anything.  Under it `EveryCallReturns` says that
the loops end, which rests on every `read_line` moving the read position.
`SseReentrant` asks for the same of the steps of the parser (`ParserStep`), and
that a callback returns at last (`CallbackReturns`): without it no call could
be said to return.  A callback need not make a call or throw.  `SseClient` asks
that a client that can connect does, that one with text on the way receives
some of it, and that the calls it makes go on; the loops of a client that
reads until the end of its stream do so.  It does not ask that the connection
drops, and lets it drop only `MaxDrops` times: a network that always drops an
event half way delivers nothing.

## 4. What is proved

Every theorem is for all values of the constants that satisfy the named
assumption of its module; TLC evaluates the assumptions in the runs.

**Buffer** (`BufferProofs`; `BufferAssumption`: CR and LF are different bytes of
the alphabet, chunks are sequences of bytes, limits are natural numbers).

* `TypeCorrect`: `Spec => []TypeOK`.  `TypeOK` is inductive as it stands; its
  content is that the read position never leaves the string.
* `GrowthBounded`: no step makes the string longer than the limit in force.
  Follows from the two guards of `append` alone.
* `BufferImplementsLineStream`: `Spec => LS!Spec`, where `LS` is `LineStream`
  with `unread <- Unread`, the bytes from `read_pos_` on.  Every action maps to
  the action of the same name.  `TypeOK` is needed to know that what the
  operations cut off is a prefix of the string.  The main lemmas:
  `FirstLineEnd` (if there is a terminator there is a least one),
  `SuffixOfConcat` (appending does not disturb the unread bytes), `UnreadBytes`
  (position arithmetic between the string and its unread part) and
  `NothingToTrim` (the bytes before the *first* terminator contain no CR or LF,
  so the loop at 341 that trims them removes nothing).  `ReadLineType` adds
  that a line returned has moved the read position.
* `NeverMissed`, `ExactForLF`: `Spec => []BoundaryNeverMissed` and `Spec =>
  []BoundaryExactForLF`.  `has_complete_message` is a recursive function of the
  position, which the prover does not know to exist.  `ScanExists` gets it as
  the least set of positions closed under "the scan stops here, or goes on at
  a position of the set"; from there on only its equation is used
  (`ScanResult`).  `NeverMissed` takes the greatest position from which a
  boundary is ahead and the scan says no, and has the scan take one more turn
  (`BoundaryAhead`: it stops there, or the boundary is still ahead, because
  the scan steps over at most one terminator).  `ExactForLF` argues the same
  way about the greatest position where the scan says yes and there is none.

**Field parser** (`FieldParserProofs`; `FieldParserAssumption`: the tokens the
code names are tokens, `INT_MAX` is a natural number, null is neither a text nor
a number).

* `RetryCorrect`: for every text and every `INT_MAX`, `parse_retry_value`
  accepts exactly white space around digits whose number fits an `int`, and
  hands out that number.  The digit loop is a recursive function over the
  positions of the text, so its values are compared with those of the
  reference, an unbounded decimal reading, by induction over positions
  (`UpTo`).  The induction hypothesis is that after each turn the loop holds
  the exact value while that fits, and nothing ever after (`DigitLoopExact`);
  `OverflowTest` shows that the two tests of one turn together say whether
  `10 * val + digit` fits.  `Iterate` shows that such a function exists, which
  the prover does not know of a recursive definition.  `OnlyCut` shows that
  the trimming loops find the only cut the reference admits.
* `SplitCorrect`: for every line, name and value put together again with the
  colon and at most one space give the line, and the name has no colon.
* `RetryAlwaysExact`, `SplitAlwaysExact` (of `FieldTexts`;
  `FieldTextsAssumption`: texts are made of tokens) say the same as invariants
  of the machine that the run `fields` explores up to six tokens.

**The meaning of a text** (`TextLemmas`, lemmas only).  `MessagesOf`
reads a text as a whole, its lines and messages being recursive functions of
the position.  What the proofs above it need is how that meaning splits at the
two places where the code cuts:

* one more chunk (`LongerText`, `CutOfLonger`): the lines of `text \o chunk`
  are those of `text` and some more, unless `text` ends in CR and `chunk`
  begins with LF;
* one more line read (`NextLine`, `CutOfNext`): `Cut(text, unread)` says that
  `unread` is the end of `text` and begins where a line does, and the lines read
  so far, `LinesRead`, are those of the text before; reading a line makes them
  one line longer.  When nothing complete is unread they are all the lines of
  the text (`CutAtEnd`);
* one more line fed (`MessagesOfLonger`): it completes the open block, if it is
  empty, and belongs to it otherwise.

**MessageBuilder** (`MessageBuilderProofs`; `MessageBuilderAssumption`: lines
are texts, null is no callback).

* `TypeCorrect`: `Spec => []TypeOK`, inductive as it stands, one lemma for each
  operation.  With `RetryType`, a queued `retry` is never above `INT_MAX`.

Its history (no further assumption; the theorems hold for every number of
lines, as `MaxLines` is any number).

* `CurrentCorrect`: `HSpec => []CurrentIsItsBlock`.  The reference reads a
  block as a whole: the *last* line of a kind, the data of *all* data lines
  joined.  The proof has one lemma for what one more line does to each of the
  four fields of `Interpret` (the wanted positions of the longer block are the
  old ones, or those and the last), and one that compares it with
  `process_field` (`DataLineIsField`: the short cut for data lines takes the
  lines that `parse_field_line` would call data lines with a colon).  The
  inductive invariant is `BlockInv`: `accumulating_data_` is true exactly if
  the block has such a line (`AccumulatingIsData`), which is what decides
  between set and append.
* `QueueCorrect`, `CallbackCorrect`: from `MessageInv`, which adds that the
  history's idea of the registered callback is the code's.
* `LastIdCorrect`: from `IdInv`.

**SseParser** (`SseParserProofs`; `SseParserAssumption`).

* `TypeCorrect`: `Spec => []TypeOK`.  `TypeOK` says that whatever was delivered
  went to a callback of the user, so it also says that the wrapper never calls
  a null function pointer.  That is not inductive: the step that delivers needs
  to know that the wrapper is in the builder only while `fn_callback_` is set.
  The inductive invariant is `IInv`, `TypeOK` and `WrapperIsBacked`.  The steps
  of the two parts are covered by the lemmas of their own proof modules, which
  are taken over through instances of them (`BufP`, `BldP`); `SameBuffer` and
  `SameBuilder` say that the actions seen through these instances are the ones
  the parser uses.

* `LastReceives`: the deliveries made are those due, `HSpec =>
  []LastCallbackReceives`, with function pointers and `std::function`s set in
  any order.  The invariant adds that the receiver set last is the one the
  builder's callback ends up at (`RegisteredIsSet`).

* `SameMessagesHoweverCut`: `HSpec => []NothingSpurious`, the main property of
  the parser: whatever is refused, fails or is flushed on the way, the messages
  completed are the first of the accepted text read as a whole.  The property
  is far from inductive; `TextInv` says what the code keeps of the text in its
  three places.  `ReadsOn`: the unread part of the buffer is a `Cut` of the
  accepted text, the messages completed since the last fresh start are those of
  the lines read, and the builder holds what the open block of these lines
  means.  `EndsLikeAChunk`: the text ends as some chunk does, which with
  `NoCRLFCut` (below) makes the next chunk extend it.  From "leftover" on,
  `flush` feeds bytes again that were consumed before (section 5), so `ReadsOn`
  stops there and `TextInv` says instead that the builder is empty at "clear",
  where the fresh start makes it true again.
* `FlushDelivers`: `HSpec => []FlushDeliversTail`.  `TailInv`, a part of
  `TextInv`, follows the message expected from the call of `flush` through its
  empty loop, the leftover and the boundary it adds.
* `SuccessIsComplete`: `HSpec => SuccessMeansComplete`.  The step that returns
  success is the one that finds no line to read; by `ReadsOn` and `CutAtEnd`
  all of the lines have then been fed.

* `RefusesOnlyWhenFull`: `HSpec => RefusedExactlyWhenFull`.  The limit never
  changes (`LimitInv`), and the second test of `append` is made after
  compaction, so it is the *unread* bytes that count (`RefusedIffFull`: the
  first test can only pass when the second would).  While no complete line is
  unread, these are by `ReadsOn` the bytes behind the last terminator of the
  accepted text (`UnreadIsUnfinished`), whatever was read, compacted away or
  refused on the way.

  These four have the hypothesis `NoCRLFCut`: no chunk ends in a CR when
  another begins with an LF.  It is a condition on the chunks a network
  delivers, which the code does not establish, and without it the theorem is
  false: the run `split_crlf` is the counterexample.  Every other cut, within a
  line, a field name or a message, is covered.

**SseReentrant** (`SseReentrantProofs`; `SseReentrantAssumption`).

* `ReentrantTypeCorrect`: `Spec => []TypeOK`; only the call on top of the stack
  is not waiting for a callback, whatever callbacks call and however they end.
* `BoundariesCounted`: `Spec => []OneMessagePerBoundary`.  `IInv` is `TypeOK`
  and the property: a call that waits for a callback stands for the message
  that is counted and not yet queued, so the count needs to know which entries
  of the stack wait.  `GotoEffect`, `ReturnEffect` and `EnterEffect` say what
  the three changes of the stack do to that.
* `MessagesFromLines`: `Spec => MessagesAreTheirLines`.  The ghost `block` has
  all that `feed_line` was given since a message was last queued or a `reset`
  dropped it: lines read by any loop on the stack, failing ones included, and
  what `flush` feeds in place of a line.  `BlockInv` says that
  the builder holds what `block` means as a whole and that `accumulating_data_`
  is true exactly if `block` has a data line.  It holds through callbacks and
  exceptions, when `current_msg_` is left as it is and so is `block`, as well
  as through nested boundaries.  `BlockGrows` adds a line to both, by the
  lemmas of `MessageBuilderProofs` on one more line.
* `SuccessFedAll`: `Spec => SuccessMeansAllFed`, under `NoCRLFCut`.  The
  invariant `FedInv` is `ReadsOn` and `EndsLikeAChunk` as above, without the
  messages: what is unread is a `Cut` of the accepted text, and the lines that
  were read from it are `LinesRead`.  It needs nothing of the stack: a line is
  read and fed in one go, and between the two no callback runs, so it does not
  matter which of the loops on the stack reads it.  Needs in addition that only `flush` goes past its loop (`OnlyFlush`), for all calls
  on the stack, so that a `parse` returns success only from a read that
  found nothing.
* `ReentrantImplementsSseParser`: `Spec => RunsAsSseParser`.  The property uses
  two instances of `SseParser`.  `SP` is the parser as it is: its program
  counter is that of the call on top of the stack while the parser runs, and
  "idle" while user code does, in the main program or in a callback, at any
  depth.  Every step that neither starts nor ends a callback is a step of `SP`:
  entry with its append, refusal and return at once, `reset` and `set_callback`
  (`CallIsSeen`), and reading, feeding, failing, clearing and returning
  (`ParserStepIsSeen`).  `StepIsSeen` puts them together.  `SPBelow` is the
  parser once the callback that runs is over: its message queued, the builder
  fresh, the program counter where the call that waits will go on.  The step
  that starts a callback is `SPBelow`'s step that completes the message
  (`StartIsComplete`), and the return of a callback changes nothing of
  `SPBelow` (`StartOrReturnIsSeen`), whatever it has called meanwhile.  The
  invariant `OnlyFlush` is needed for the name of the place where a call
  stands.  The hypothesis `SP!Wrapper \notin StdCallbacks` says that the name
  `SseParser` has for its own lambda is not that of a callback of the user.

**ParserCopies** (`ParserCopiesProofs`; `ParserCopiesAssumption`: names of
different kinds are different).

* `CopiesTypeCorrect`: `Spec => []TypeOK`.
* `OwnRegistration`: `Spec => []OwnRegistrationHolds`, for any number of
  objects and callbacks.  The inductive invariant adds `Backs`: an object that
  was set itself holds that callback in its builder, or its own lambda and the
  function pointer the lambda is to call.

**SseClient** (`SseClientProofs`; `SseClientAssumption`: what the server sends
are tokens, no two events have the same id, and no id is a CR, an LF or a space).

* `EveryEventDeliveredOnce`: `CSpec => []EveryEventOnce`, for every list of
  events, every cut of the text into chunks (also between the two LFs of an
  event), any number of drops and any mix of connections with and without a
  mark.  The inductive invariant `CInv` says that the client stands at one
  *place*, k events and j lines of the next one, in all it keeps: the calls
  delivered are the first k events and `last_id` is the id of the k-th
  (`HasDelivered`), the builder holds the j lines read (`BuilderAt`), and the
  unread part of the buffer with what is on the way is
  the text from that place on (`TextAt`); between connections j is 0 and the
  buffer is empty, which is what `reset` is for.  `TextSplit` takes the next
  line off the text ahead, by `EventsSplit`, which takes the next event off the
  server's `FlattenSeq` (`FlattenFirst`: the fold, from the front).
  `FirstLine` shows that the first line end in the part received ends that
  line, wherever the part ends; `LineFed` that feeding it moves the builder to
  the next place, and `EventDelivered` that the callback gets the event on the
  third line.  `Resumes` uses that ids differ: the server goes on behind the
  k-th event.  `MarkIsSkipped` covers the first chunk of a connection.

  Hypotheses: the id comes from the callback (`~ AsksParser`) and the first
  chunk holds all of a mark (`WholeBom`).  `ResumeId.cfg` and `BomCut.cfg` are
  the counterexamples without them.  `MaxChunk + 3 <= MaxSize` gives the buffer
  room for a chunk next to an unfinished line (`LittleIsUnread`: at most 3
  tokens, the longest line of an event here); the client of the examples looks
  at no error of `parse`, so a refused chunk would be a gap in its text.

Only model-checked: liveness (`EveryCallReturns`, `AllCallsReturn`,
`AllDelivered`), which is beyond the prover.  All other properties of the
passing runs are theorems.

## 5. Where the code departs from its own text

Each row is a sentence of the repository that TLC finds violated.  Four of the
counterexamples are runs of `PROJECT.json`; the others can be had with the
configuration named (`tlc -config <cfg> <module>`).

| Configuration | The text says | The code does |
|---|---|---|
| `SplitCRLF.cfg` (run `split_crlf`) | `.planning/REQUIREMENTS.md`:4: "Parse any valid SSE stream correctly regardless of network fragmentation" | 332: a CR at the end of a chunk is a whole terminator; the LF that follows is an empty line and completes a message |
| `FlushComplete.cfg` (run `flush_complete`) | 992: "No incomplete message -> success, no callback" | 1006: the consumed bytes are still in the string and are delivered as one more message |
| `Throwing.cfg` (run `throwing`) | `.planning/research/PITFALLS.md`:216: "User callback might throw. Parser must remain in valid state" | 758: an exception leaves `current_msg_` as it is; the next message inherits its fields, and the queue never gets the one that was delivered |
| `ResumeId.cfg` (run `resume_id`) | 1031-1033: "parser.reset(); // Reconnect with last_event_id() for server" | 1039: `reset` clears the id, which was never assigned; the client starts again at the first event |
| `LastId.cfg`, `MCSseParser` | 1048: "Updated automatically" | the facade's `last_event_id_` is never assigned; it is always empty |
| `FlushPartial.cfg`, `MCSseParser` | 981: "deliver any buffered partial message" | 993: after a refused chunk the string is empty while the builder holds fields; `flush` returns at once |
| `HasIncomplete.cfg`, `MCSseParser` | 1060: "whether flush() would deliver a message" | 1064: true as long as the builder's queue is not empty, which the facade never drains; also on an empty buffer and after `reset` |
| `Boundary.cfg`, `MCBuffer` | 235: "true if an empty line (message boundary) exists" | 365: the scan steps over an LF but not over a CR and meets it again as an empty line; `data: x\r\n` counts as a complete message |
| `BareData.cfg`, `MCMessageBuilder` | 495: `"field"` with an empty value is a format of every field | 792: a `data` line without colon is parsed and its data dropped; it adds no line |
| `MessageValid.cfg`, `MCSseReentrant` | 868: "Pointer to complete message (valid only during call)" | 758: the callback gets `current_msg_` itself, which changes under it when it calls `parse`, `flush` or `reset` |
| `ReentrantQueue.cfg`, `MCSseReentrant` | 678: "Queue is populated even if callback is set" | 760: the queue gets what the callback has left of `current_msg_`, after a `reset` an empty message |
| `BomCut.cfg`, `MCSseClient` | 559-560: "SSE streams may include BOM at the start which should be skipped" | 582: a mark cut between two chunks is not found and spoils the first field name |
| `SeparateInstances.cfg`, `MCParserCopies` | 848: "separate parser instances per thread" | 969: a copy calls the function pointer of its original, also after that one has changed or is gone |

The reference of the passing runs takes the code's side where a run above shows
a departure: `Interpret` counts only data lines with a colon, the chunks of
`stream` never end in CR, `FlushDeliversTail` speaks of a flush before which
nothing of the buffer was read, and `NothingSpurious` is not asserted of the
message that a flush is adding; `client` cuts no byte order mark and takes the
id from the callback, as example 4 does; `OwnRegistrationHolds` leaves the
objects out whose callback came from another one.

Seen while modelling, without a text that says otherwise: `event:message` after
`event:foo` does not restore the default (793); a flush that fails leaves the
buffer as it is, so a flush repeated after it reads on (1009); the leftover that
`flush` has fed stays in the string, unread, until 1017, so when the callback of
the boundary added at 1014 throws, or calls `parse`, it is fed a second time
(parse `data:x`, flush whose callback throws, parse LF); an unterminated
line as long as the limit leaves no room for its terminator, so every later
chunk is refused until `reset` or `flush`; the builder's queue grows for the
life of a parser (761).
From `SseReentrant`: when a callback calls `parse` and that call reads a
boundary, the message under delivery is delivered a second time, with the
fields read meanwhile added, and the call outside then queues an empty one.
Text that a callback adds while `flush` delivers its last message is cleared at
1017.  `set_callback` called by a running callback destroys the `std::function`
that runs (651), which is harmless only if it uses no captured variable any
more.

From the examples: `usage_examples.cpp`:86 and others pass a length one more
than that of the literal, so its NUL becomes the first byte of the next line; in
example 3 the retry line that "should fail" (90) is thereby an unknown field.

## 6. Plan

Done: all modules planned; every safety and action property of the passing
runs, and both refinements, proved.

Left: `EventStream`, an abstract parser (accepted text in, messages out) that
`SseParser` implements, replacing the history variables of `SseParserHistory`.

## 7. Not modelled

* **googletest and googlemock** (`src/libs/googletest`) are third-party code
  vendored to build the tests; the parser does not depend on them.  They are
  43441 of the 44801 lines of C++ outside the tests; the header has 1081, most
  of them comments.  A share of the lines that counts googletest stays near one
  per cent whatever is modelled of the parser, every operation of which has its
  action here.
* **The tests** are read for what they claim (section 5) and not modelled.
* **`src/main.cpp`** prints one line and has no state.
* **The other examples** call `parse` once or twice and print; examples 4 and 8
  are the ones with a protocol.
* **`error_message` and `operator!`** are wording and the test of an enumerator.
* **Threads**: the class is documented as not thread-safe (848); any sharing is
  the client's own.
