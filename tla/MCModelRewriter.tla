--------------------------- MODULE MCModelRewriter ---------------------------
(***************************************************************************)
(* Small instances of ModelRewriter for TLC: members in every order around *)
(* one plain request, and every payload of one or two turns in the two     *)
(* layouts that clients send.                                              *)
(***************************************************************************)
EXTENDS ModelRewriter, FiniteSets

CONSTANTS gemini, claude, gpt, odd

ModelWords == (gemini :> {"gemini", "pro"}) @@ (claude :> {"claude", "sonnet"})
              @@ (gpt :> {"gpt"}) @@ (odd :> {})

Text0    == [thought |-> FALSE, call |-> FALSE, sig |-> "none"]
Thought  == [thought |-> TRUE, call |-> FALSE, sig |-> "own"]
Call(s)  == [thought |-> FALSE, call |-> TRUE, sig |-> s]
Parts    == {Text0, Thought, Call("none"), Call("own")}
Turns    == {<<p>> : p \in Parts} \cup {<<p, q>> : p, q \in Parts}

Body(ms, m, ts, out, think, label) ==
  [members |-> ms, model |-> m, turns |-> ts, max |-> out, thinking |-> think,
   budget |-> 512, labels |-> label]

NoLabels == [present |-> FALSE, family |-> "unset", enum |-> None]
Labels   == [present |-> TRUE, family |-> "unset", enum |-> odd]

Plain(ms, m) == Body(ms, m, << <<Text0>> >>, 1000, FALSE, NoLabels)

\* Up to three members, none twice, one request and one model at most.
Orders ==
  {ms \in UNION {[1..n -> Member] : n \in 0..3} :
     /\ Cardinality(Range(ms)) = Len(ms)
     /\ {"model", "badmodel"} \cap Range(ms) # {"model", "badmodel"}
     /\ {"request", "badrequest"} \cap Range(ms) # {"request", "badrequest"}}

Bodies ==
  {Plain(ms, odd) : ms \in Orders} \cup
  {Body(ms, m, ts, out, think, label) :
     ms \in {<<"model", "request">>, <<"model", "contents">>}, m \in {claude, gemini},
     ts \in {<<t>> : t \in Turns} \cup {<<t, <<Thought>>>> : t \in Turns},
     out \in {1000, 65000}, think \in BOOLEAN, label \in {NoLabels, Labels}}

\* The model is named by the path, by the query, or by the body alone.
AllRequests ==
  {[path |-> p, query |-> q, body |-> b] :
     p \in {None}, q \in {None}, b \in Bodies}
  \cup {[path |-> p, query |-> q, body |-> Plain(ms, odd)] :
     p \in {None, odd, gpt}, q \in {None, odd}, ms \in Orders}
=============================================================================
