# TLA+ models and proofs of the llm-agent contract library

This directory holds a formal model of the contract library in `src/`: the
parts of it that have behaviour of their own, checked with TLC on small
instances and, wherever the prover reaches, proved with TLAPS for all. Each
definition was translated from the Go code; `PROJECT.json` maps it to its lines.

## 1. The system

The repository is a Go module of contracts: interfaces and data types that
chat-model adapters, prompt builders, memory stores and agents in other
repositories implement. What runs here is small but shared by all of them.

| Component | State | Operations | What is hard |
|---|---|---|---|
| `ScriptedLLM` (`llm/scripted.go`), the test double of every consumer | a mutex, a cursor into a script, fields written once | `NewScriptedLLM` with options, `Generate`, `Stream`, `Info`, `WithTools`, `Embed`, `EmbedDimensions`, `WithSchema` | many goroutines on one value; `WithTools` and `WithSchema` copy under the lock and build after it; models derived from derived models |
| `scriptedStream` (`llm/scripted.go`) | a mutex, a step, a closed flag | `Next`, `Close` | a reader shared by goroutines, closed while it is drained |
| `AccumulateStream` (`llm/stream.go`) | the response under construction, an index-keyed map of tool calls and their order | drains a `StreamReader`, closes it | chunks of several tool calls interleaved, chunks before their start, repeated starts, early or wrapped EOF |
| Provider adapters (external) | the response they stream | `Next`, `Close` of the reader they return | they fail and stop at any point |
| Prompt template (`prompt/prompt.go`) | compiled fragments, a reference to the caller's metadata map | `New`, `Format`, `FormatRequest` | who owns which map, when several callers hold requests of one template; failure half way; a system message that is not the template's own |
| Brace engine (`prompt/brace.go`) | none | `compileBrace`, `render` | escapes and placeholders at the edges |
| Memory profile and scope (`memory/profile.go`, `scope.go`) | metadata maps of items | typed getters and setters, `Scope.Matches` | items copied by value share the map; a value written typed comes back from JSON without its type |
| Agents, memory interfaces, chat types, image generation | none | interfaces, data types, sentinels | - |
| Repository workflows (`.github/workflows`) | pull requests, approvals, branches | governance, auto-merge, three jobs that delete merged branches | jobs that act on what they read earlier, races between them |

How they interact: an agent formats a request with a prompt template
(`FormatRequest`), gives it to a `ChatModel` (in tests a `ScriptedLLM`), and
either takes the `Response` of `Generate` or drains the reader of `Stream` with
`AccumulateStream`. Goroutines share the model, its derivatives, the template
and at times the reader; there are no messages and no persistent state.

What makes each component correct:

* `ScriptedLLM`: each turn of the script goes to exactly one call; one
  goroutine sees turns in order; a derived model continues where its receiver
  stood and differs from it in the bound tools only; deriving never disturbs the
  receiver; a call looks atomic to everybody else; no call blocks for ever.
* `scriptedStream`: each event goes to one reader; nothing after `Close`.
* `AccumulateStream`: the response is what the events determine, whatever their
  interleaving; a response streamed to its end comes back whole; truncation is
  visible; it returns and leaves the reader closed.
* Prompt template: a call succeeds completely or fails completely; a
  Request says the same as the message list; requests do not share maps. (A call keeps
  its messages in locals, so calls disturb each other through maps only.)
* Brace engine: exactly the sources of the grammar compile; the segments lose no
  character of them; a value is put in once and verbatim, whatever it contains.
* Memory profile: a setter changes its field of the items that share the map and
  nothing else, and no getter tells whether an item has been through JSON.
* Scopes: as filters they are ordered by what they select.

The hazards, each at its line and with the properties that watch it, are in
`PROJECT.json`.

## 2. Modules

| Module | Models | Notes |
|---|---|---|
| `ScriptedData` | values of `scripted.go`: configuration, options, calls, answers | no state |
| `ScriptedLLM` | `ScriptedLLM` values under concurrent calls | extends `ScriptedData` |
| `ScriptFeed` | what callers may rely on: atomic calls, no lock | abstract specification |
| `ScriptedLLMProofs` | theorems: types, mutual exclusion, options, refinement of `ScriptFeed` | extends `ScriptedLLM`, `Flattening` |
| `ScriptedTurnProofs` | theorems: who holds which turn, order of turns, derived models | extends `ScriptedLLMProofs` |
| `AccumulateStream` | the event loop of `AccumulateStream`, one action per branch | the reader is open |
| `AnyStream` | the loop under a reader that returns anything | adds the history of events |
| `ToolCallStream` | the loop under an adapter that keeps the streaming contract | environment: external |
| `ToolCallStreamProofs` | theorems about `ToolCallStream` | extends it and `TLAPS` |
| `ScriptedStream` | the loop under `scriptedStream`, with other goroutines on the same reader | |
| `StreamReaderProofs` | theorems about `AnyStream` and `ScriptedStream` | extends both and `TLAPS` |
| `PromptData` | values of `prompt.go`: specs, fragments, rendering, layouts | no state |
| `PromptTemplate` | `New`, `Format`, `FormatRequest`, and the metadata maps as a heap | extends `PromptData` |
| `TemplateCalls` | what callers may rely on: atomic calls, requests that are values | abstract specification |
| `PromptTemplateProofs` | theorems: whole failure, layouts, isolation, refinement of `TemplateCalls` | extends `PromptTemplate`, `Flattening` |
| `BraceTemplate` | `compileBrace` and `render`, character by character | what `PromptTemplate` takes as a fragment |
| `BraceTemplateProofs` | theorems: the accepted language, the shape and spelling of a template, what it renders | extends `BraceTemplate`, `Flattening` |
| `MemoryScope` | `scope.go` | operators, no state |
| `MemoryProfile` | `profile.go`: items whose metadata maps are shared | extends `MemoryScope` |
| `ItemProfiles` | what callers may rely on: fields, no maps, keys or types | abstract specification |
| `MemoryProfileProofs` | theorems: refinement of `ItemProfiles`, the order of scopes | extends `MemoryProfile`, `TLAPS` |
| `Flattening` | lemmas: least and greatest elements, what `FlattenSeq` computes | no part of the system |
| `MC*` | the instances TLC checks | one per system module |

### ScriptedLLM

`conf[m]` is the group of fields of the value at address `m` that nothing writes
after its construction; `cursor[m]` and `mu[m]` are the two that change; `made`
is the set of addresses in use. A call goes through `lock`, `body`, `advance`
(`Generate` and `Stream` only), `unlock`, and `build` (`WithTools` and
`WithSchema` only): exactly where another goroutine can step in. `reg[g]` is what
goroutine `g` has copied into locals. The constructor works on a value nobody
else can see: its loop over the options is the location `options`. `got` and
`start` are history variables: the receipts of finished calls and each model's
first cursor. A receipt has the cursor the call worked from, which the code does
not return, to tell equal responses apart.

A `Response`, a tool list and a text are opaque. `Embed`'s vectors are kept, in
tenths. `context.Context`, the request and the JSON schema, which the code
ignores, are left out, and so is the message that wraps `ErrScriptExhausted`.
Reads of the write-once fields and of the cursor under the lock are one step:
nobody else can write there, which `MutualExclusion` and `OnlyTurnsMoveCursor`
confirm and `ImplementsFeed` turns into a theorem.

### AccumulateStream

`out`, `byIndex` and `order` are the function's variables; `Ensure` is its
closure `ensure`. One action handles one result of `sr.Next()`: the variables are
local, so nothing can happen in between. `OnEOF` and `OnError` are the two
returns, `Close` the deferred `sr.Close()`. Text and arguments are sequences of
the pieces that were appended; `Empty` is the empty string, which the code
tests for.

An error is a cause and the layers around it: `%w` and the error types of
`errors.go`, whose `Unwrap` makes `errors.Is` look through them (`isEOF`).

The three readers are modules that extend this one and say when `Next` returns
what:

* `AnyStream`: anything at any time. `seen` records the events and `last` the
  error that ended the stream. The properties compute the result anew from `seen`,
  and not the way the loop does it: they speak of positions in `seen`. The
  pieces of an index are listed by the rank of their positions among the positions
  of that index (`InOrder`), an ID or name is that of the greatest position of a
  Start which fills it, or else the least position of a chunk which does
  (`Identity`), and calls come in the order of their least positions.
* `ToolCallStream`: an adapter streams a planned response; calls start in order,
  pieces of a call stay in order, everything else interleaves; the connection may
  break or be closed early. `Done` carries a finish reason that is not empty. The
  properties compare the result with the plan.
* `ScriptedStream`: `scriptedStream.Next` and `Close`, which hold the mutex from
  first to last statement and are one step each. Other goroutines may call both.

### PromptTemplate

A fragment is the sequence of its segments (`braceSegment`), or malformed.
`Format` is one step per fragment; each step renders, or fails and returns. Maps
are addresses in `heap`, because `New` keeps the caller's map and `FormatRequest`
copies it; owners may write to their maps between any two steps. A write during
the copy would be a data race, whose outcome Go does not define; it is left out.
The order of `ErrMissingVar` and other failures inside one fragment is that of
the segments.

`TemplateCalls` knows neither steps within a call nor maps: a call is answered at
once, with the layout of its arguments or its first error, and a request has its
metadata as a value. A receipt of the code is read as one of these with its map
looked up in the heap (`SeenBy`), so that a write which reached two of
them, or the spec's and one of them, would be a step `TemplateCalls` does not have.

### BraceTemplate

`i`, `lit` and `segs` are the variables of `compileBrace`, and each branch of its
switch is an action; `i` is also where the loop of `render` is. The text is kept
character by character here, because the hazard is to misread it by one. The grammar is told
without a parser: a *reading* of a text is a set of places to cut it so that
what lies between neighbouring cuts is a token, that is a character other than a
brace, a doubled brace, or a placeholder. `AcceptsGrammar` says that the parser
accepts what has a reading, and gives up where the longest readable part ends.
`SpellsSource` puts the segments back into braces and escapes.

### MemoryProfile

`metadata[h]` is the map a variable of type `MemoryItem` refers to, by address,
and `heap` has the maps; a value in a map has a dynamic type. `Store` is
`ensureMetadata` with what a setter does to the map. `Copy` is Go's assignment
of the struct, which copies the reference. `Reload` sends an item through JSON,
which drops the name of a value's type and gives the item a map of its own.
`WriteForeign` is other code that puts something under a reserved key, typed or of
the wrong type; `WriteOwn` the owner's other entries. A named type comes under
its own key only (`Fits`; section 6 has what happens otherwise). `ItemProfiles` knows
none of this: items have four fields, and a group of items has them in common;
the refinement reads the fields with the getters.

## 3. Runs

| Run | Spec | Checks | Size |
|---|---|---|---|
| `scripted` | `Spec` | safety of `ScriptedLLM` | 2 goroutines, 3 models, script of 2, 3 calls each, `Generate`, `WithTools`, `WithSchema`; 107 thousand states |
| `scripted_live` | `FairSpec` | `CallsReturn`, `OptionsCompose`, refinement of `ScriptFeed` | 2 goroutines, 2 models, all methods, every option, 2 calls each; 54 thousand states |
| `any_stream` | `SpecAny` | the accumulated response, from the events alone | 2 indexes, 4 events of 16 kinds, 5 errors; 769 thousand states |
| `tool_call_stream` | `FairStream` | round trip, truncation, termination | 4 plans of up to 3 calls; 7 thousand states |
| `scripted_stream` | `FairScripted` | delivery to competing readers, close, termination | 380 states |
| `prompt` | `FormatSpec` | whole failure, layouts, isolation of maps, refinement of `TemplateCalls` | 7 specs, 2 callers, 2 writes; 26 thousand states |
| `brace` | `FairSpec` | grammar, spelling, normal form, rendering, termination | every source of up to 7 characters out of 4, 3 `Vars`; 100 thousand states |
| `memory_profile` | `Spec` | refinement of `ItemProfiles` | 2 items, 2 maps, one value per field; 16 thousand states |
| `scripted_caps`, `any_stream_order`, `scripted_stream_calls`, `prompt_metadata` | - | one documented promise each that the code does not keep (section 6) | - |

Bounds. Two goroutines are enough for every race over one mutex: a third only
waits. Three models give a model derived from a derived one, used alongside its
ancestors; three calls per goroutine let a script of two run out, and let a goroutine
consume, derive and consume again. Models and goroutines are symmetric in the
safety run. Four events are enough for start, chunk and restart of one
index around an event of another; identifiers and names are two, so that overwriting
shows. The plans of `tool_call_stream` have no call, one, and several with zero,
one and several pieces of arguments. A template of four fragments plus history
has every position a fragment can fail in. Seven characters hold a placeholder between
two escapes, or two placeholders and a character of text; the characters are the two
braces, a blank and a letter, which is all the parser tells apart. Two items and
two maps give an item that shares a map and one that has left it, by copy or through
JSON; items and addresses are symmetric. The theorems of section 4 have no such bounds.

Fairness. `CallsReturn` assumes weak fairness of each goroutine's steps: the Go
scheduler runs every runnable goroutine, and calls are finite in number, so that
a mutex which keeps being free is eventually acquired. (For unbounded callers Go's
mutex has a starvation mode; weak fairness is all that the bounded model needs.)
`Returns` and `Drained` assume that the reader's `Next` returns and that the
consumer's goroutine runs; a `Next` that blocks for ever blocks `AccumulateStream`
too, which takes no context. `Ends` assumes that `compileBrace` and `render`, once
called, run on: they call nobody and wait for nothing.

Deadlock checking is on where callers have a last state that says so (`Finished`)
and off for the runs that end when a function has returned or the calls are made.

## 4. Proofs

`tlapm` checks the theorems that `PROJECT.json` lists and every lemma they rest
on. They hold for any sets of goroutines, models, responses and tools, any
scripts, options and number of calls, for any planned response, any stream of
events, any template, source and metadata. They assume only the named assumptions on the
constants, which TLC evaluates in the runs:

* `NameAssumption`: the constructor's default names are names;
* `CallersAssumption`: callers pass values of the parameter types, and `Nobody` and
  `NoModel` are no goroutine and no model;
* `EmptyAssumption`, `ScopeAssumption`: the empty string and nil are told from the
  other values, and readers return errors;
* `PlansAssumption`, `EventsAssumption`, `ScriptedAssumption`: a planned
  response, an event and a scripted response have the types of such, and a plan's
  calls have indexes;
* `PromptAssumption`: specs, variables and histories have their Go types, and nil is
  no value of them and no map's address;
* `BraceAssumption`: the braces are two characters, and neither is a space;
* `MemoryAssumption`: the owners' keys are none of the reserved ones, and `Fits` for
  what others write under those.

**ScriptedLLM.** `TypeOK` is not inductive: that a returned answer is a `Result`
depends on the method, and that a method's receiver exists depends on the past of
the call. The invariant is

    IInv == TypeOK /\ MutualExclusion /\ InCall

`InCall` says what the code relies on between two steps of a call: the receiver
exists, a constructor's script starts at 0 and, the important one, a goroutine about
to move the cursor has an exact copy of its receiver's fields. Only the mutex makes
this survive the steps of others (`AdvanceInv`: two goroutines between `Load` and
`Unlock` have different receivers).

*Refinement.* `ImplementsFeed` maps a location to idle, asked or served
(`FeedPhase`) and shows a call's snapshot from the moment it is served (`FeedSeen`).
Generate and Stream take effect where they move the cursor (`AdvanceServes`), the
others where they copy the receiver's fields (`LoadServes`); locking, applying
options and unlocking are invisible (`QuietSteps`). `InCall` is what makes the
copy in a register equal to the model at that moment. A constructor's steps are
invisible too, up to the one that publishes the model; that this has the
configuration `ScriptFeed` gives it is `OptionInv`.

*Options.* `OptionsCompose` compares the loop over the options with the script of
all `WithResponses` options put together and the last of every other kind
(`Composed`). `OptionInv` says that the options still to do and those whose composition
the value under construction is make up the whole list (`Composing`), and that a
constructed model stays as it was made (`Constructed`). One more option adds its
script at the end (`ComposedAppend`), for which the lemmas of `Flattening` are needed.

*Turns.* `EveryTurnOnce` follows from

    TurnInv == Within /\ Dealt /\ Once

every turn held lies between the model's first and present cursor, each of those is
held, and by one goroutine. Only `Advance` gives a turn to somebody: the one under
the cursor, which by `Within` nobody held. Returning moves a turn from a call in
progress to a receipt (`ReturnKeeps`); a fresh model has no turns
(`TurnAllocate`).

*Order and derivation.* `OrderInv` says of each goroutine that its receipts are in
order and agree with the models (`Receipts`) and that its call in progress works
with its receiver's fields and a cursor that lies after all its earlier turns
(`Underway`). Receipts stay true because models only grow (`Grows`, `StepGrows`,
`OldReceipts`); a call's own steps use `Within` when they read the cursor
(`EarlierThanCursor`). This is where the copy that `WithTools` builds after the unlock
is shown harmless: the cursor it carries is old, but not older than what its caller
has seen. `TurnsInOrder`, `DerivedResumes` and `DerivedKeepsFields` follow.

**ToolCallStream.** The invariant

    StreamInv == Progress /\ DeliveredSoFar /\ NothingElse /\ DoneLast /\ Returned

relates the accumulator to what the adapter has sent. `DeliveredSoFar` alone says
nothing of entries that should not exist (`NothingElse`), of usage and finish reason
(`DoneLast`) and of the value already returned (`Returned`). `RoundTrip` and
`TruncationVisible` follow when the stream has ended.

**AnyStream.** `AccumulateStream`'s `TypeOK` is as exact as the loop allows, and is
inductive: that every listed index has an entry is what makes the returned list one of
tool calls, and that `result` is still the empty one in the loop and `closes` counts the
return is what says that every way out of the loop, and no other moment, closes the
reader (`EndStep`). `NothingTakenBack` needs no more than `TypeOK`. The properties over
the history need

    EventInv == TypeOK /\ seen \in Seq(Event) /\ CallsInv /\ Summary(out) /\ Ended

with `CallsInv == JoinedByIndex /\ OrderedByFirstEvent`. Each event adds the position
`Len(seen) + 1`. In every set of positions it joins it ranks last, so that a list
in order grows at its end; it becomes the maximum, and leaves the minimum of a set
that had one. These facts about sets of positions are lemmas; what is left
for each event is which sets its position joins. `Ended` ties the returned
value to the state the loop left.

**ScriptedStream.** `ScriptedInv == StreamTypes /\ Dealt /\ Accumulated /\ Undisturbed`:
`Dealt` says what has been delivered from the step the reader is at, `Accumulated` that the
accumulator has exactly what was delivered to it, whoever got the rest, and
`Undisturbed` that it got everything as long as nobody else called.
`DeliveredOnce`, `ClosedForGood` and `ScriptedResult` follow.

**Flattening.** `FlattenSeq` is defined by a recursive function, of which a
prover knows nothing: neither that it exists nor what it is. Both follow from the
least-element principle. If no function joined the first `n` pieces, take the least such
`n` (`JoinsExists`); if two differed, take the least place (`JoinsAgree`). So
`FlattenSeq` of a sequence is that function's last value (`FlattenIs`), and one more
element is one more piece (`FlattenAppend`).

**PromptTemplate.** `CallInv` says of a call in progress how far it is (`Underway`):
the messages it holds are the start of its layout, and no fragment up to here fails.
So the first failure it meets is the first there is, and one that returns has
them all (`Returned`); other callers write none of this. `MapsInv` is ownership: the
map of a caller's request `i` is at that request's address and nowhere else (`Kept`), so a
write through another reference cannot reach it.

*Refinement.* `ImplementsCalls` follows from these two. A call is answered where it
returns: `CallInv` says that its error is then the one of its first bad fragment
(`FailAnswers`), or its messages the whole layout (`MessagesAnswer`,
`RequestAnswers`). Every step before is not seen (`Unseen`), and neither is anything
that happens to other maps: `Kept` makes a receipt read as before
(`SeenAsBefore`). A write of a request's owner shows in that request alone
(`RequestWritten`), and one of the spec's owner in none (`SpecWritten`).

**BraceTemplate.** `GrammarInv` says that, while parsing, what lies before `i` is readable
and that every reading of any longer part has a cut at `i`: what has been read could not
have been read otherwise. Each branch of the parser takes the only token that can
start at `i` (`TokenOfBranch`), so the cut moves with it; where no token can start,
nothing longer has a reading. `NormalForm` needs that the literal being
collected follows a placeholder (`ShapeInv`).

`SpellsSource` says nothing of the literal that is being collected; `SpellInv` does:
the segments so far, and then that literal, spell what lies before `i`. Each branch adds
one token to both sides (`TokenSpelled`); flushing the literal only moves it
(`FlattenAppend`). `RenderInv` says of the loop of `render` that the output
is the rendering of the segments before `i`, and that none of these lacks its variable;
so the first that does is the first there is, and the output is complete when the loop
ends.

**MemoryProfile.** The refinement maps each item to what the getters say of it. It
rests on the maps being well typed (`TypeInv`, `Belongs`) and on lemmas about what a
put or delete under one key does to the readings of the four fields. `ScopeOrder`
proves that selection by scopes is a partial order with `Equal` as its equality.

## 5. Only model-checked

`CallsReturn`, `Returns`, `Drained` and `Ends` are liveness properties: the prover has
no rule for fairness and `ENABLED`. Every other property that a passing run checks is
a theorem. What the recursive functions of the community modules compute is
proved in `Flattening` as far as it is needed; the induction theorems of the
library, which take an operator as a parameter, are not used.

## 6. Where code and documentation disagree

* `llm/errors.go:11-13` and `llm/info.go:27` promise `ErrCapabilityNotSupported`
  when the bound model lacks the capability; a `ScriptedLLM` with the capability
  turned off serves the call (`scripted_caps`). (`llm/scripted.go:51-52` says to test
  degraded models with `ChatOnlyMock`.)
* `llm/stream.go:91-94` orders tool calls by first start; an arguments chunk
  before it fixes the place already (`any_stream_order`).
* `llm/stream.go:77-80` promises the equivalent non-streaming response; the
  scripted stream has no tool-call events, as `llm/scripted.go:80-81, 214-216` say, so a
  scripted tool call is lost on the way (`scripted_stream_calls`).
* `prompt/prompt.go:110-111, 125` calls the compiled template immutable; it keeps
  the caller's metadata map (`prompt_metadata`).

Noticed and not run: `Usage.Source` is `""` by default, not `UsageUnknown`
(`llm/types.go:75-77`); `EventToolCallEnd` is called terminal, yet later chunks of
its index are still merged (`llm/stream.go:96`); `scriptedStream.Next` takes no
notice of a cancelled context; `Embed`'s comment mentions `WithEmbeds`, which does
not exist (`llm/scripted.go:124-126`); a `TransientError` around `io.EOF`, a connection
that broke, ends `AccumulateStream` as a clean end; a value of type `Source` under the
key of another field reads as unset until JSON makes it a string, and as that string after.

## 7. Plan

The plan was to model what has behaviour of its own in the order of its use by other
code: `ScriptedLLM` with `ScriptFeed`, `AccumulateStream` with its three readers,
`PromptTemplate` with `TemplateCalls`, then `BraceTemplate`, `MemoryProfile` with
`ItemProfiles` and `MemoryScope`; and to prove what the runs check. All of it is done.
What may come next:

1. an abstract specification of `AccumulateStream`, the response as a function of the
   events received, and the loop shown to implement it;
2. a `ScriptedLLM` streamed through `AccumulateStream` against its `Generate`; both
   halves are here, and what their composition adds is that a turn taken by
   `Stream` and never drained is lost;
3. a heap of slices below `Response`, for the shallow copy of the script.

## 8. Not modelled

* Wording and formatting of errors, layouts of text.
* `text/template` itself: a fragment parses, and each of its actions executes,
  lacks its variable or fails.
* Agent types, memory interfaces, image generation: interfaces and data types
  without behaviour.
* `ChatOnlyMock.Generate` and `Info` return constants; its `Stream` hands out the
  reader that `ScriptedStream` models. `MustNew` turns an error into a panic.
* A negative embedding dimension, on which `Embed` panics.
* Slices shared below a `Response`: the script of a derived model is a shallow
  copy, and editing a response's tool calls in place is visible through other models.
* The workflows of the repository: their jobs run at GitHub and work on its state
  (pull requests, reviews, branches), and nothing of the library depends on them.
