---------------------------- MODULE ScriptedData ----------------------------
(***************************************************************************)
(* The values llm/scripted.go works with: the configuration a ScriptedLLM  *)
(* carries from construction on, the functional options, the calls of its  *)
(* method set and what each call answers.  Nothing here is a state; the    *)
(* lock, the cursor and the goroutines are in ScriptedLLM.                 *)
(*                                                                         *)
(* A scripted Response, a list of tools and a text are opaque values: the  *)
(* properties only tell which one it is.                                   *)
(***************************************************************************)
EXTENDS Integers, SequencesExt

CONSTANTS
    Goroutine,          \* the callers
    Model,              \* addresses a *ScriptedLLM can be allocated at
    Name,               \* provider and model names
    Response,           \* the responses a script is made of
    Text,               \* the texts given to Embed
    Tools,              \* the []Tool values given to WithTools
    NoTools,            \* the nil []Tool of a model nobody bound tools to
    NoModel,            \* receiver of the constructor, which has none
    ErrScriptExhausted  \* the sentinel of llm/errors.go

ASSUME NameAssumption == {"scripted", "test"} \subseteq Name

Capability == {"Tools", "Embeddings", "StructuredOutputs",
               "PromptCaching", "ImageGeneration", "Vision"}

Config == [provider : Name, model : Name, caps : SUBSET Capability,
           resps : Seq(Response), embedDim : Nat, tools : Tools \union {NoTools}]

\* What NewScriptedLLM starts from before the first option is applied.
DefaultConfig ==
    [provider |-> "scripted", model |-> "test",
     caps |-> {"Tools", "Embeddings", "StructuredOutputs"},
     resps |-> <<>>, embedDim |-> 4, tools |-> NoTools]

\* One functional option; WithResponses appends, the others overwrite.
Option ==
    [opt : {"WithProvider", "WithModel"}, arg : Name]
      \union [opt : {"WithCapabilities"}, arg : SUBSET Capability]
      \union [opt : {"WithResponses"}, arg : Seq(Response)]
      \union [opt : {"WithEmbedDimensions"}, arg : Nat]

\* Mutant of ApplyOption: WithResponses overwrites like the other options.
ApplyOptionAnew(c, o) ==
    CASE o.opt = "WithProvider"        -> [c EXCEPT !.provider = o.arg]
      [] o.opt = "WithModel"           -> [c EXCEPT !.model = o.arg]
      [] o.opt = "WithCapabilities"    -> [c EXCEPT !.caps = o.arg]
      [] o.opt = "WithResponses"       -> [c EXCEPT !.resps = o.arg]
      [] o.opt = "WithEmbedDimensions" -> [c EXCEPT !.embedDim = o.arg]

ApplyOption(c, o) ==
    CASE o.opt = "WithProvider"        -> [c EXCEPT !.provider = o.arg]
      [] o.opt = "WithModel"           -> [c EXCEPT !.model = o.arg]
      [] o.opt = "WithCapabilities"    -> [c EXCEPT !.caps = o.arg]
      [] o.opt = "WithResponses"       -> [c EXCEPT !.resps = @ \o o.arg]
      [] o.opt = "WithEmbedDimensions" -> [c EXCEPT !.embedDim = o.arg]

\* What options amount to, told without applying them: in each field the last
\* value an option of its kind gives, and as the script all the responses given.
Positions(opts, kind) == {k \in 1 .. Len(opts) : opts[k].opt = kind}
LastArg(opts, kind, default) ==
    LET P == Positions(opts, kind) IN
      IF P = {} THEN default ELSE opts[CHOOSE k \in P : \A j \in P : j <= k].arg
Scripts(opts) ==
    [k \in 1 .. Len(opts) |-> IF opts[k].opt = "WithResponses" THEN opts[k].arg ELSE <<>>]

Composed(opts) ==
    [provider |-> LastArg(opts, "WithProvider", DefaultConfig.provider),
     model    |-> LastArg(opts, "WithModel", DefaultConfig.model),
     caps     |-> LastArg(opts, "WithCapabilities", DefaultConfig.caps),
     resps    |-> FlattenSeq(Scripts(opts)),
     embedDim |-> LastArg(opts, "WithEmbedDimensions", DefaultConfig.embedDim),
     tools    |-> DefaultConfig.tools]

-----------------------------------------------------------------------------
Consuming == {"Generate", "Stream"}               \* advance the cursor
Deriving  == {"WithTools", "WithSchema"}          \* return a new *ScriptedLLM
Reading   == {"Info", "Embed", "EmbedDimensions"}
Method    == Consuming \union Deriving \union Reading

\* arg is the tool list of WithTools, the texts of Embed, the options of the
\* constructor, and <<>> for the calls whose argument the mock ignores.
Call == [fn : {"WithTools"}, recv : Model, arg : Tools]
          \union [fn : {"Embed"}, recv : Model, arg : Seq(Text)]
          \union [fn : Method \ {"WithTools", "Embed"}, recv : Model, arg : {<<>>}]
          \union [fn : {"New"}, recv : {NoModel}, arg : Seq(Option)]

\* What a call has read of its receiver under the lock.
Snapshot == [conf : Config, cursor : Nat]

\* No call yet, and no fields read yet.
NoCall == [fn |-> "New", recv |-> NoModel, arg |-> <<>>]
NoFields == [conf |-> DefaultConfig, cursor |-> 0]

\* Mutant of Turn: past the end of the script, nil and no error.
TurnOrNil(s) == IF s.cursor >= Len(s.conf.resps) THEN NoModel
                                                 ELSE s.conf.resps[s.cursor + 1]

\* Generate and Stream answer the response under the cursor; the script's
\* positions are 0-based in the code and 1-based in a sequence.
Turn(s) == IF s.cursor >= Len(s.conf.resps) THEN ErrScriptExhausted
                                            ELSE s.conf.resps[s.cursor + 1]

\* One vector per text, embedDim long, filled with float32(i+1)/10: a vector
\* of i tenths for the i-th text.
Embedding(s, texts) ==
    [vectors |-> [i \in 1 .. Len(texts) |-> [j \in 1 .. s.conf.embedDim |-> i]],
     tokens  |-> Len(texts)]

\* The answer of a call that allocates no model.
Answer(c, s) ==
    CASE c.fn \in Consuming         -> Turn(s)
      [] c.fn = "Info"              -> [provider |-> s.conf.provider,
                                        model    |-> s.conf.model,
                                        caps     |-> s.conf.caps]
      [] c.fn = "Embed"             -> Embedding(s, c.arg)
      [] c.fn = "EmbedDimensions"   -> [dim |-> s.conf.embedDim]

\* Mutant of DerivedConfig: WithSchema does not copy the bound tools.
DerivedConfigToolless(c, s) ==
    [s.conf EXCEPT !.tools = IF c.fn = "WithTools" THEN c.arg ELSE NoTools]

\* The configuration of the model a deriving call allocates: a copy of the
\* receiver's written out field by field, with the given tools (WithTools) or the
\* receiver's own (WithSchema, which ignores the schema).
DerivedConfig(c, s) ==
    [provider |-> s.conf.provider, model |-> s.conf.model, caps |-> s.conf.caps,
     resps |-> s.conf.resps, embedDim |-> s.conf.embedDim,
     tools |-> IF c.fn = "WithTools" THEN c.arg ELSE s.conf.tools]

Result == Response \union {ErrScriptExhausted} \union Model
            \union [provider : Name, model : Name, caps : SUBSET Capability]
            \union [vectors : Seq(Seq(Nat)), tokens : Nat]
            \union [dim : Nat]

\* What a caller holds once a call has returned.  "at" is the cursor value the
\* call worked from: it tells two equal responses apart and is not returned by
\* the code.
Receipt == [call : Call, at : Nat, res : Result]
=============================================================================
