---------------------------- MODULE ModelRewriter ----------------------------
(***************************************************************************)
(* How a request is made to ask for another model: finding and replacing   *)
(* its model (proxy/model_rewriter.go), adapting the payload to the family *)
(* of the new one (payload_adapter.go, payload_mutator.go), sanitizing its *)
(* thought signatures; and the order in which ServeHTTP applies these over *)
(* one request (handler.go), whose control is the module ProxyRequest.     *)
(*                                                                         *)
(* A model is known by the family words its name contains. A body is a     *)
(* JSON object: its members in their order, and the fields of the request  *)
(* in it that the adapters touch. The scanner sees it as tokens, where a   *)
(* string is "model" or any other: quotes and escapes are left out.        *)
(***************************************************************************)
EXTENDS Integers, Sequences, SequencesExt

CONSTANTS
  Name, None,
  Words,         \* the family words in each name
  Registered,    \* the names in ModelPlaceholderMap
  Requests       \* the requests clients send

\* The members a root object may have (Text shows them).
Member == {"model", "badmodel", "request", "badrequest", "contents", "tools"}

\* A part of a turn: a thought block, a function call, with what signature.
Part    == [thought : BOOLEAN, call : BOOLEAN, sig : {"none", "own", "skip"}]
Nothing == [thought |-> FALSE, call |-> FALSE, sig |-> "none"]   \* {"text": ""}

Payload == [members : Seq(Member), model : Name, turns : Seq(Seq(Part)), max : Nat,
            thinking : BOOLEAN, budget : Nat,
            labels : [present : BOOLEAN, family : {"unset", "claude_gpt", "gemini"},
                      enum : Name \cup {None}]]

ASSUME RewriterAssumption ==
  /\ None \notin Name /\ Registered \subseteq Name
  /\ DOMAIN Words = Name
  /\ Requests \subseteq [path : Name \cup {None}, query : Name \cup {None}, body : Payload]

VARIABLES
  primary, secondary,   \* of the engine
  orig,                 \* origPath, origQuery, origBody
  cur,                  \* currentPath, currentQuery, currentBody
  origModel, model,     \* origModel, currentModel
  pc,
  target,               \* history: what cur was last rewritten for, if it was
  sanitized             \* history: cur has been sanitized since

vars == <<primary, secondary, orig, cur, origModel, model, pc, target, sanitized>>

-----------------------------------------------------------------------------
(* Families *)

ThirdParty == {"claude", "gpt", "sonnet", "opus", "haiku", "anthropic", "openai", "3p", "o1"}
Google     == {"gemini", "gemma", "flash", "pro", "ultra"}

\* Third-party words first: some of their names contain "pro", too.
CategorizeModel(m) ==
  IF Words[m] \cap ThirdParty # {} THEN "claude_gpt"
  ELSE IF Words[m] \cap Google # {} THEN "gemini" ELSE "unknown"

MaxOutputTokensForModel(m) ==
  IF "gpt" \in Words[m] THEN 32768 ELSE IF "claude" \in Words[m] THEN 64000 ELSE 65536

-----------------------------------------------------------------------------
(* Finding the model in a body *)

\* The tokens of a member. A request in the root object has members of its own, contents
\* have a role (which is "model" for the model's turns), tools describe parameters.
Text(member) ==
  CASE member = "model"      -> <<"model", ":", "str">>
    [] member = "badmodel"   -> <<"model", ":", "num">>
    [] member = "request"    -> <<"str", ":", "lbrace", "model", ":", "str", ",",
                                  "str", ":", "lbrace", "model", ":", "str", "rbrace", "rbrace">>
    [] member = "badrequest" -> <<"str", ":", "model">>
    [] member = "contents"   -> <<"str", ":", "lbracket", "lbrace", "str", ":", "model",
                                  "rbrace", "rbracket">>
    [] member = "tools"      -> <<"str", ":", "lbracket", "lbrace", "model", ":", "str",
                                  "rbrace", ",", "model", "rbracket">>

Render(members) ==
  <<"lbrace">> \o FlattenSeq([i \in DOMAIN members |->
                               IF i = 1 THEN Text(members[i]) ELSE <<",">> \o Text(members[i])])
               \o <<"rbrace">>

Searching    == [err |-> "searching", at |-> 0]
NotFound     == [err |-> "not_found", at |-> 0]
InvalidJSON  == [err |-> "invalid_json", at |-> 0]
InvalidValue == [err |-> "invalid_value", at |-> 0]
Found(i)     == [err |-> "none", at |-> i]

IsString(t) == t \in {"model", "str"}

\* Mutant of AtRoot: any object will do.
AtRootOrBelow(braces, brackets) == braces >= 1 /\ brackets = 0

AtRoot(braces, brackets) == braces = 1 /\ brackets = 0

\* One turn of the loop, at token i of s, with the depths and the result so far: the value of
\* the first key "model" of the root object. (Other keys pass like any token.)
ScanToken(st, s, i) ==
  IF st.result # Searching THEN st
  ELSE CASE s[i] = "lbrace" -> [st EXCEPT !.braces = @ + 1]
         [] s[i] = "rbrace" -> [st EXCEPT !.braces = @ - 1,
                                     !.result = IF st.braces = 0 THEN InvalidJSON
                                                ELSE IF st.braces = 1 THEN NotFound ELSE @]
         [] s[i] = "lbracket" -> [st EXCEPT !.brackets = @ + 1]
         [] s[i] = "rbracket" -> [st EXCEPT !.brackets = @ - 1,
                                     !.result = IF st.brackets = 0 THEN InvalidJSON ELSE @]
         [] /\ s[i] = "model" /\ i < Len(s) /\ s[i + 1] = ":"
            /\ AtRoot(st.braces, st.brackets) ->
              [st EXCEPT !.result = IF i + 2 <= Len(s) /\ IsString(s[i + 2])
                                    THEN Found(i + 2) ELSE InvalidValue]
         [] OTHER -> st

FindModelValueBounds(s) ==
  LET scan[n \in 0..Len(s)] ==
        IF n = 0 THEN [braces |-> 0, brackets |-> 0, result |-> Searching]
        ELSE ScanToken(scan[n - 1], s, n)
      result == scan[Len(s)].result
  IN  IF Contains(s, "model") /\ result # Searching THEN result ELSE NotFound

-----------------------------------------------------------------------------
(* Payloads *)

\* The parts of a turn that are no thoughts.
Kept(turn) ==
  LET upTo[n \in 0..Len(turn)] ==
        IF n = 0 THEN <<>>
        ELSE IF turn[n].thought THEN upTo[n - 1] ELSE Append(upTo[n - 1], turn[n])
  IN  upTo[Len(turn)]

\* MutateParts on one turn, with a visitor that drops thoughts and changes the rest.
MutateTurn(turn, visit) ==
  LET kept == Kept(turn)
  IN  IF kept = <<>> /\ turn # <<>> THEN <<Nothing>>
      ELSE [i \in DOMAIN kept |-> visit[kept[i]]]

MutateParts(turns, visit) == [i \in DOMAIN turns |-> MutateTurn(turns[i], visit)]

Has(body, member) == Contains(body.members, member)

\* GetRequestMap: only a request that is an object; ResolveRequestMap: failing any
\* request, the root.
Nested(body)   == Has(body, "request")
Resolves(body) == Nested(body) \/ (Has(body, "contents") /\ ~Has(body, "badrequest"))

Lesser(a, b) == IF a < b THEN a ELSE b

Unsigned == [p \in Part |-> [p EXCEPT !.sig = "none"]]

SkippedIfMissing ==
  [p \in Part |-> IF p.call /\ p.sig = "none" THEN [p EXCEPT !.sig = "skip"] ELSE p]

\* Labels for a family; the placeholder only of a registered model.
Labelled(labels, family, m) ==
  [labels EXCEPT !.family = IF labels.present THEN family ELSE @,
                 !.enum   = IF labels.present /\ m \in Registered THEN m ELSE @]

ClaudeAdapt(body, m) ==
  [body EXCEPT
     !.max    = Lesser(@, MaxOutputTokensForModel(m)),
     !.budget = IF body.thinking /\ @ < 1024 THEN 1024 ELSE @,
     !.turns  = MutateParts(@, Unsigned),
     !.labels = Labelled(@, "claude_gpt", m)]

GeminiAdapt(body, m) ==
  [body EXCEPT
     !.max    = Lesser(@, MaxOutputTokensForModel(m)),
     !.turns  = MutateParts(@, SkippedIfMissing),
     !.labels = Labelled(@, "gemini", m)]

Adapt(body, m) ==
  CASE CategorizeModel(m) = "claude_gpt" -> ClaudeAdapt(body, m)
    [] CategorizeModel(m) = "gemini"     -> GeminiAdapt(body, m)
    [] OTHER -> body

\* The model is replaced if it is found; only a nested request is adapted.
RewriteModelInBody(body, m) ==
  IF FindModelValueBounds(Render(body.members)).err # "none" THEN body
  ELSE LET renamed == [body EXCEPT !.model = m]
       IN  IF Nested(body) THEN Adapt(renamed, m) ELSE renamed

\* Every function call gets the signature that skips validation.
Skipped == [p \in Part |-> IF p.call THEN [p EXCEPT !.sig = "skip"] ELSE p]

\* Mutant of SanitizeGeminiSignatures: it is done after the first turn it has changed.
SanitizeFirstTurn(body) ==
  LET changed == {i \in DOMAIN body.turns : MutateTurn(body.turns[i], Skipped) # body.turns[i]}
      first   == CHOOSE i \in changed : \A j \in changed : i <= j
  IN  IF Resolves(body) /\ changed # {}
      THEN [body EXCEPT !.turns[first] = MutateTurn(@, Skipped)] ELSE body

SanitizeGeminiSignatures(body) ==
  IF Resolves(body) THEN [body EXCEPT !.turns = MutateParts(@, Skipped)] ELSE body

-----------------------------------------------------------------------------
(* Requests *)

BodyModel(body) ==
  IF FindModelValueBounds(Render(body.members)).err = "none" THEN body.model ELSE None

\* Path first, query second, body third.
ExtractModelFromRequest(r) ==
  IF r.path # None THEN r.path ELSE IF r.query # None THEN r.query ELSE BodyModel(r.body)

\* Mutant of Rewritten: the query is forgotten.
RewrittenButQuery(r, m) ==
  [path  |-> IF r.path = None THEN None ELSE m,
   query |-> r.query,
   body  |-> RewriteModelInBody(r.body, m)]

\* rewriteRequestModel: wherever the request names a model.
Rewritten(r, m) ==
  [path  |-> IF r.path = None THEN None ELSE m,
   query |-> IF r.query = None THEN None ELSE m,
   body  |-> RewriteModelInBody(r.body, m)]

Init ==
  /\ primary \in Name /\ secondary \in Name \ {primary}
  /\ orig \in Requests /\ cur = orig
  /\ origModel = ExtractModelFromRequest(orig) /\ model = origModel
  /\ pc = "force" /\ target = None /\ sanitized = FALSE

RewritesTo(r, m) == cur' = Rewritten(r, m) /\ model' = m /\ target' = m /\ sanitized' = FALSE

Restores == cur' = orig /\ model' = origModel /\ target' = None /\ sanitized' = FALSE

\* The configured primary model, for a model that is neither configured one.
ForcePrimary ==
  /\ pc = "force" /\ pc' = "predict"
  /\ IF origModel \in {None, primary, secondary}
     THEN UNCHANGED <<cur, origModel, model, target, sanitized>>
     ELSE RewritesTo(cur, primary) /\ origModel' = primary
  /\ UNCHANGED <<primary, secondary, orig>>

\* PredictiveCheck says no, or names the secondary model.
Predict ==
  /\ pc = "predict" /\ pc' = "loop"
  /\ \/ UNCHANGED <<cur, model, target, sanitized>>
     \/ ExtractModelFromRequest(cur) \notin {None, secondary} /\ RewritesTo(cur, secondary)
  /\ UNCHANGED <<primary, secondary, orig, origModel>>

\* ActionFallbackSecondary.
Fallback ==
  /\ pc = "loop" /\ model \notin {None, secondary}
  /\ RewritesTo(orig, secondary)
  /\ UNCHANGED <<primary, secondary, orig, origModel, pc>>

\* ActionRotateAccount: the original request, perhaps for the secondary model.
Rotate ==
  /\ pc = "loop"
  /\ Restores \/ (origModel \notin {None, secondary} /\ RewritesTo(orig, secondary))
  /\ UNCHANGED <<primary, secondary, orig, origModel, pc>>

\* After a signature error on a Gemini model, when that changes the body.
Sanitize ==
  /\ pc = "loop" /\ model # None /\ CategorizeModel(model) = "gemini"
  /\ SanitizeGeminiSignatures(cur.body) # cur.body
  /\ cur' = [cur EXCEPT !.body = SanitizeGeminiSignatures(@)]
  /\ sanitized' = TRUE
  /\ UNCHANGED <<primary, secondary, orig, origModel, model, pc, target>>

Next == ForcePrimary \/ Predict \/ Fallback \/ Rotate \/ Sanitize

Spec == Init /\ [][Next]_vars

-----------------------------------------------------------------------------
\* Where a reader of the object finds its model: the member's place, and the place of its
\* value there.
RootModel(members) ==
  LET names == {i \in DOMAIN members : members[i] \in {"model", "badmodel"}}
      first == CHOOSE i \in names : \A j \in names : i <= j
  IN  IF names = {} THEN NotFound
      ELSE IF members[first] = "badmodel" THEN InvalidValue
      ELSE Found(Len(Render(SubSeq(members, 1, first))) - 1)

\* The scanner finds the model of the root object and no other (in nested requests, tool
\* parameters, the role "model" of a turn), in whatever order the members come; and on
\* a body that is cut short it finds that one or none.
ScanFindsRootModel ==
  LET text == Render(cur.body.members) IN
  /\ FindModelValueBounds(text) = RootModel(cur.body.members)
  /\ \A n \in 0..Len(text) :
       LET found == FindModelValueBounds(SubSeq(text, 1, n))
       IN  found.err = "none" => found = RootModel(cur.body.members)

\* What a Claude or GPT model, or a Gemini model, accepts of a request.
AcceptedBy(body, m) ==
  /\ body.max <= MaxOutputTokensForModel(m)
  /\ body.labels.present =>
       /\ body.labels.family = CategorizeModel(m)
       /\ m \in Registered => body.labels.enum = m
  /\ \A i \in DOMAIN body.turns : \A j \in DOMAIN body.turns[i] :
       LET p == body.turns[i][j] IN
       /\ ~p.thought
       /\ IF CategorizeModel(m) = "gemini" THEN p.call => p.sig # "none" ELSE p.sig = "none"
  /\ CategorizeModel(m) = "claude_gpt" /\ body.thinking => body.budget >= 1024

\* The client asked for a model that is neither configured one.
Forced == ExtractModelFromRequest(orig) \notin {None, primary, secondary}

\* Whatever rewriting, restoring and sanitizing came before: what was rewritten for a model
\* is taken for that model, and asks for it wherever it names one; a nested request is what
\* the model's family accepts, with no turn left empty that was not. What was not rewritten,
\* or was restored, is what the client sent, but for its signatures, and is taken for the
\* model it names; except that a request that was forced, once a rotation restores it, is
\* the client's again while it is taken (and charged) for the primary model.
SentForModel ==
  /\ target = None =>
       /\ cur \in {orig, [orig EXCEPT !.body = SanitizeGeminiSignatures(@)]}
       /\ model = IF Forced /\ pc = "loop" THEN primary ELSE ExtractModelFromRequest(orig)
  /\ target # None =>
    /\ model = target /\ ExtractModelFromRequest(cur) = target
    /\ cur.path \in {None, target} /\ cur.query \in {None, target}
    /\ BodyModel(cur.body) \in {None, target}
    /\ Nested(cur.body) /\ BodyModel(cur.body) # None /\ CategorizeModel(target) # "unknown"
         => AcceptedBy(cur.body, target)
    /\ \A i \in DOMAIN orig.body.turns : orig.body.turns[i] # <<>> => cur.body.turns[i] # <<>>

\* A sanitized body is left as it is by another pass: one request is sent again for that
\* reason once, until it is rewritten or restored (the flag of ProxyRequest).
SanitizedOnce == sanitized => SanitizeGeminiSignatures(cur.body) = cur.body
=============================================================================
