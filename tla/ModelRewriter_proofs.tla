------------------------ MODULE ModelRewriter_proofs ------------------------
(***************************************************************************)
(* What is proved of ModelRewriter for every set of names and requests, of *)
(* any length: a request sent for a model is one that model accepts, a     *)
(* sanitized body is left as it is by another pass, and the scanner finds  *)
(* the model of the root object and no other.                              *)
(*                                                                         *)
(* What a recursive function computes is proved by induction over a set of *)
(* numbers (UpTo), which rests on a least counterexample (Least).          *)
(***************************************************************************)
EXTENDS ModelRewriter, WellFoundedInduction, SequenceTheorems, TLAPS

-----------------------------------------------------------------------------
(* Induction and recursion *)

\* A nonempty set of naturals has a least element.
LEMMA Least ==
  ASSUME NEW T, T \subseteq Nat, T # {}
  PROVE  \E n \in T : \A m \in T : n <= m
<1>1. PICK n \in T : \A y \in T : ~ (<<y, n>> \in OpToRel(<, Nat))
  BY NatLessThanWellFounded, WFMin
<1>2. \A y \in T : ~(y < n)
  BY <1>1 DEF OpToRel
<1> QED
  BY <1>2

\* Induction: a set with the first number, and with every number whose predecessor it has.
LEMMA UpTo ==
  ASSUME NEW l \in Nat, NEW k \in Nat, NEW P, l \in P,
         \A n \in (l + 1)..k : n - 1 \in P => n \in P
  PROVE  l..k \subseteq P
<1> DEFINE T == (l..k) \ P
<1>1. SUFFICES ASSUME T # {} PROVE FALSE
  OBVIOUS
<1>2. T \subseteq Nat
  OBVIOUS
<1> HIDE DEF T
<1>3. PICK n \in T : \A m \in T : n <= m
  BY <1>1, <1>2, Least
<1>4. n \in (l + 1)..k /\ n - 1 \in l..k
  BY <1>3 DEF T
<1>5. n - 1 \notin T
  BY <1>2, <1>3, <1>4
<1> QED
  BY <1>3, <1>4, <1>5 DEF T

\* g starts at a and goes on by F.
Follows(g, a, F, k) == g[0] = a /\ \A n \in 1..k : g[n] = F[n][g[n - 1]]

\* Recursion: there is a function that starts at a and goes on by F.
LEMMA Recursion ==
  ASSUME NEW X, NEW a \in X, NEW k \in Nat, NEW F \in [1..k -> [X -> X]]
  PROVE  \E g \in [0..k -> X] : Follows(g, a, F, k)
<1> DEFINE P == {n \in 0..k : \E g \in [0..n -> X] : Follows(g, a, F, n)}
<1>1. 0 \in P
  <2>1. [i \in 0..0 |-> a] \in [0..0 -> X] /\ Follows([i \in 0..0 |-> a], a, F, 0)
    BY DEF Follows
  <2> QED
    BY <2>1
<1>2. ASSUME NEW n \in 1..k, n - 1 \in P
      PROVE  n \in P
  <2>1. PICK g \in [0..(n - 1) -> X] : Follows(g, a, F, n - 1)
    BY <1>2
  <2> DEFINE h == [i \in 0..n |-> IF i = n THEN F[n][g[n - 1]] ELSE g[i]]
  <2>2. F[n] \in [X -> X] /\ g[n - 1] \in X
    BY <2>1
  <2>3. h \in [0..n -> X]
    BY <2>1, <2>2
  <2>4. h[0] = a
    BY <2>1 DEF Follows
  <2>5. ASSUME NEW i \in 1..n PROVE h[i] = F[i][h[i - 1]]
    <3>1. h[i - 1] = g[i - 1] /\ i - 1 \in 0..n
      OBVIOUS
    <3>2. CASE i = n
      BY <3>1, <3>2
    <3>3. CASE i # n
      <4>1. i \in 1..(n - 1) /\ h[i] = g[i]
        BY <3>3
      <4> QED
        BY <2>1, <3>1, <4>1 DEF Follows
    <3> QED
      BY <3>2, <3>3
  <2> HIDE DEF h
  <2>6. Follows(h, a, F, n)
    BY <2>4, <2>5 DEF Follows
  <2> QED
    BY <2>3, <2>6
<1>3. 0..k \subseteq P
  <2> HIDE DEF P
  <2>1. \A n \in (0 + 1)..k : n - 1 \in P => n \in P
    BY <1>2
  <2> QED
    BY <1>1, <2>1, UpTo
<1> QED
  BY <1>3

-----------------------------------------------------------------------------
(* The scanner *)

Token     == {"lbrace", "rbrace", "lbracket", "rbracket", ",", ":", "model", "str", "num"}
Result    == {Searching, NotFound, InvalidJSON, InvalidValue} \cup {Found(i) : i \in Nat}
ScanState == [braces : Int, brackets : Int, result : Result]

\* The scanner in search, at some depths.
At(b, c) == [braces |-> b, brackets |-> c, result |-> Searching]

Root == At(1, 0)

\* g is a run of the loop over s.
ScanOf(g, s) ==
  /\ g \in [0..Len(s) -> ScanState]
  /\ g[0] = At(0, 0)
  /\ \A n \in 1..Len(s) : g[n] = ScanToken(g[n - 1], s, n)

\* The results differ.
LEMMA ResultsDiffer ==
  /\ Searching # NotFound /\ Searching # InvalidJSON /\ Searching # InvalidValue
  /\ \A i : Searching # Found(i) /\ Found(i).err = "none" /\ Found(i).at = i
  /\ Searching.err # "none" /\ NotFound.err # "none" /\ InvalidJSON.err # "none"
  /\ InvalidValue.err # "none"
BY DEF Searching, NotFound, InvalidJSON, InvalidValue, Found

\* A turn of the loop keeps the types.
LEMMA ScanTokenType ==
  ASSUME NEW st \in ScanState, NEW s, NEW i \in Nat
  PROVE  ScanToken(st, s, i) \in ScanState
<1>1. /\ st.result \in Result /\ st.braces \in Int /\ st.brackets \in Int
      /\ DOMAIN st = {"braces", "brackets", "result"}
      /\ st = [braces |-> st.braces, brackets |-> st.brackets, result |-> st.result]
  BY DEF ScanState
<1>2. NotFound \in Result /\ InvalidJSON \in Result /\ InvalidValue \in Result
      /\ Found(i + 2) \in Result
  BY DEF Result
<1> DEFINE closed  == IF st.braces = 0 THEN InvalidJSON
                      ELSE IF st.braces = 1 THEN NotFound ELSE st.result
           closed2 == IF st.brackets = 0 THEN InvalidJSON ELSE st.result
<1>3. closed \in Result /\ closed2 \in Result
  BY <1>1, <1>2
<1>4. \/ ScanToken(st, s, i) = st
      \/ ScanToken(st, s, i) = [st EXCEPT !.braces = st.braces + 1]
      \/ ScanToken(st, s, i) = [st EXCEPT !.braces = st.braces - 1, !.result = closed]
      \/ ScanToken(st, s, i) = [st EXCEPT !.brackets = st.brackets + 1]
      \/ ScanToken(st, s, i) = [st EXCEPT !.brackets = st.brackets - 1, !.result = closed2]
      \/ ScanToken(st, s, i) = [st EXCEPT !.result = Found(i + 2)]
      \/ ScanToken(st, s, i) = [st EXCEPT !.result = InvalidValue]
  BY DEF ScanToken
<1> HIDE DEF closed, closed2
<1>5. st.braces + 1 \in Int /\ st.braces - 1 \in Int
      /\ st.brackets + 1 \in Int /\ st.brackets - 1 \in Int
  BY <1>1
<1>6. \A b \in Int : \A q \in Result :
        /\ [st EXCEPT !.braces = b] \in ScanState
        /\ [st EXCEPT !.brackets = b] \in ScanState
        /\ [st EXCEPT !.result = q] \in ScanState
        /\ [st EXCEPT !.braces = b, !.result = q] \in ScanState
        /\ [st EXCEPT !.brackets = b, !.result = q] \in ScanState
  BY DEF ScanState
<1> QED
  BY <1>2, <1>3, <1>4, <1>5, <1>6

\* The scan computes what a run of the loop does.
LEMMA Scanned ==
  ASSUME NEW s \in Seq(Token)
  PROVE  \E g : /\ ScanOf(g, s)
                /\ FindModelValueBounds(s) =
                     IF Contains(s, "model") /\ g[Len(s)].result # Searching
                     THEN g[Len(s)].result ELSE NotFound
<1> DEFINE F == [n \in 1..Len(s) |-> [st \in ScanState |-> ScanToken(st, s, n)]]
           Rec(g) == g = [n \in 0..Len(s) |-> IF n = 0
                                              THEN [braces |-> 0, brackets |-> 0,
                                                    result |-> Searching]
                                              ELSE ScanToken(g[n - 1], s, n)]
<1>1. Len(s) \in Nat /\ F \in [1..Len(s) -> [ScanState -> ScanState]]
  BY ScanTokenType, LenProperties
<1>2. At(0, 0) \in ScanState
  BY DEF At, ScanState, Result
<1> HIDE DEF F
<1>3. PICK f \in [0..Len(s) -> ScanState] : Follows(f, At(0, 0), F, Len(s))
  BY <1>1, <1>2, Recursion
<1>4. ScanOf(f, s)
  <2>1. ASSUME NEW n \in 1..Len(s) PROVE f[n] = ScanToken(f[n - 1], s, n)
    <3>1. f[n - 1] \in ScanState /\ f[n] = F[n][f[n - 1]]
      BY <1>1, <1>3 DEF Follows
    <3> QED
      BY <3>1 DEF F
  <2> QED
    BY <1>3, <2>1 DEF ScanOf, Follows
<1>5. ASSUME NEW n \in 0..Len(s)
      PROVE  f[n] = IF n = 0 THEN [braces |-> 0, brackets |-> 0, result |-> Searching]
                    ELSE ScanToken(f[n - 1], s, n)
  BY <1>1, <1>4 DEF ScanOf, At
<1>6. Rec(f)
  <2>1. f = [n \in 0..Len(s) |-> f[n]]
    BY <1>3
  <2> QED
    BY <1>5, <2>1
<1> DEFINE g == CHOOSE g : Rec(g)
<1>7. Rec(g)
  BY <1>6
<1>8. FindModelValueBounds(s) =
        IF Contains(s, "model") /\ g[Len(s)].result # Searching
        THEN g[Len(s)].result ELSE NotFound
  BY DEF FindModelValueBounds
<1> HIDE DEF g
<1>9. ASSUME NEW n \in 0..Len(s)
      PROVE  g[n] = IF n = 0 THEN [braces |-> 0, brackets |-> 0, result |-> Searching]
                    ELSE ScanToken(g[n - 1], s, n)
  BY <1>7
<1>10. DOMAIN g = 0..Len(s) /\ g = [n \in 0..Len(s) |-> g[n]]
  <2>1. DOMAIN g = 0..Len(s)
    BY <1>7
  <2> QED
    BY <1>7, <1>9, <2>1
<1> HIDE DEF Rec
<1>11. 0..Len(s) \subseteq {n \in 0..Len(s) : g[n] = f[n]}
  <2> DEFINE P == {n \in 0..Len(s) : g[n] = f[n]}
  <2>1. 0 \in P
    <3>1. 0 \in 0..Len(s)
      BY <1>1
    <3>2. f[0] = [braces |-> 0, brackets |-> 0, result |-> Searching]
      BY <1>5, <3>1
    <3>3. g[0] = [braces |-> 0, brackets |-> 0, result |-> Searching]
      BY <1>9, <3>1
    <3> QED
      BY <3>1, <3>2, <3>3
  <2>2. ASSUME NEW n \in (0 + 1)..Len(s), n - 1 \in P PROVE n \in P
    <3>1. n \in 0..Len(s) /\ n # 0 /\ g[n - 1] = f[n - 1]
      BY <1>1, <2>2
    <3> QED
      BY <3>1, <1>5, <1>9
  <2> HIDE DEF P
  <2>3. 0..Len(s) \subseteq P
    BY <1>1, <2>1, <2>2, UpTo
  <2> QED
    BY <2>3 DEF P
<1>12. g = f
  <2>1. f = [n \in 0..Len(s) |-> f[n]]
    BY <1>3
  <2> QED
    BY <1>10, <1>11, <2>1
<1> QED
  BY <1>4, <1>8, <1>12

\* What the next state is, at token i and the depths b and c.
Steps(next, s, i, b, c) ==
  /\ s[i] \in {",", ":", "str", "num"} => next = At(b, c)
  /\ s[i] = "lbrace" => next = At(b + 1, c)
  /\ s[i] = "rbrace" /\ b >= 2 => next = At(b - 1, c)
  /\ s[i] = "rbrace" /\ b = 1 => next.result = NotFound
  /\ s[i] = "lbracket" => next = At(b, c + 1)
  /\ s[i] = "rbracket" /\ c >= 1 => next = At(b, c - 1)
  /\ s[i] = "model" /\ (b >= 2 \/ c >= 1 \/ s[i + 1] # ":") => next = At(b, c)
  /\ s[i] = "model" /\ b = 1 /\ c = 0 /\ i + 2 <= Len(s) /\ s[i + 1] = ":" =>
       next.result = IF IsString(s[i + 2]) THEN Found(i + 2) ELSE InvalidValue

\* What a turn of the loop makes of each token.
LEMMA ScanSteps ==
  ASSUME NEW b \in Int, NEW c \in Int, NEW s \in Seq(Token), NEW i \in Int
  PROVE  Steps(ScanToken(At(b, c), s, i), s, i, b, c)
<1>1. At(b, c).braces = b /\ At(b, c).brackets = c /\ At(b, c).result = Searching
  BY DEF At
<1>2. s[i] \in {",", ":", "str", "num"} => ScanToken(At(b, c), s, i) = At(b, c)
  BY <1>1 DEF ScanToken
<1>3. s[i] = "lbrace" => ScanToken(At(b, c), s, i) = At(b + 1, c)
  BY <1>1 DEF ScanToken, At
<1>4. ASSUME s[i] = "rbrace", b >= 2 PROVE ScanToken(At(b, c), s, i) = At(b - 1, c)
  <2> DEFINE result == IF At(b, c).braces = 0 THEN InvalidJSON
                                  ELSE IF At(b, c).braces = 1 THEN NotFound ELSE At(b, c).result
  <2>1. ScanToken(At(b, c), s, i) =
          [At(b, c) EXCEPT !.braces = At(b, c).braces - 1, !.result = result]
    BY <1>1, <1>4 DEF ScanToken
  <2>2. result = Searching
    <3>1. b # 0 /\ b # 1
      BY <1>4
    <3>2. At(b, c).braces # 0 /\ At(b, c).braces # 1
      BY <1>1, <3>1, Zenon
    <3> QED
      BY <1>1, <3>2, Zenon
  <2> HIDE DEF result
  <2> QED
    BY <1>1, <2>1, <2>2 DEF At
<1>5. ASSUME s[i] = "rbrace", b = 1 PROVE ScanToken(At(b, c), s, i).result = NotFound
  <2> DEFINE result == IF At(b, c).braces = 0 THEN InvalidJSON
                                  ELSE IF At(b, c).braces = 1 THEN NotFound ELSE At(b, c).result
  <2>1. ScanToken(At(b, c), s, i) =
          [At(b, c) EXCEPT !.braces = At(b, c).braces - 1, !.result = result]
    BY <1>1, <1>5 DEF ScanToken
  <2>2. result = NotFound
    <3>1. b # 0 /\ b = 1
      BY <1>5
    <3>2. At(b, c).braces # 0 /\ At(b, c).braces = 1
      BY <1>1, <3>1, Zenon
    <3> QED
      BY <3>2, Zenon
  <2> HIDE DEF result
  <2> QED
    BY <1>1, <2>1, <2>2 DEF At
<1>6. s[i] = "lbracket" => ScanToken(At(b, c), s, i) = At(b, c + 1)
  BY <1>1 DEF ScanToken, At
<1>7. ASSUME s[i] = "rbracket", c >= 1 PROVE ScanToken(At(b, c), s, i) = At(b, c - 1)
  <2> DEFINE result == IF At(b, c).brackets = 0 THEN InvalidJSON ELSE At(b, c).result
  <2>1. ScanToken(At(b, c), s, i) =
          [At(b, c) EXCEPT !.brackets = At(b, c).brackets - 1, !.result = result]
    BY <1>1, <1>7 DEF ScanToken
  <2>2. result = Searching
    BY <1>1, <1>7
  <2> HIDE DEF result
  <2> QED
    BY <1>1, <2>1, <2>2 DEF At
<1>8. s[i] = "model" /\ (b >= 2 \/ c >= 1 \/ s[i + 1] # ":")
        => ScanToken(At(b, c), s, i) = At(b, c)
  BY <1>1 DEF ScanToken, AtRoot
<1>9. ASSUME s[i] = "model", b = 1, c = 0, i + 2 <= Len(s), s[i + 1] = ":"
      PROVE  ScanToken(At(b, c), s, i).result =
               IF IsString(s[i + 2]) THEN Found(i + 2) ELSE InvalidValue
  <2>1. ScanToken(At(b, c), s, i) =
          [At(b, c) EXCEPT !.result = IF i + 2 <= Len(s) /\ IsString(s[i + 2])
                                      THEN Found(i + 2) ELSE InvalidValue]
    BY <1>1, <1>9 DEF ScanToken, AtRoot
  <2> QED
    BY <1>9, <2>1 DEF At
<1> QED
  BY <1>2, <1>3, <1>4, <1>5, <1>6, <1>7, <1>8, <1>9 DEF Steps

\* A scan that is over stays as it is.
LEMMA ScanOver ==
  ASSUME NEW s \in Seq(Token), NEW g, ScanOf(g, s), NEW i \in 0..Len(s), NEW j \in i..Len(s),
         g[i].result # Searching
  PROVE  g[j] = g[i]
<1> DEFINE P == {n \in i..Len(s) : g[n] = g[i]}
<1>1. Len(s) \in Nat /\ i \in Nat /\ i \in P
  BY LenProperties
<1>2. ASSUME NEW n \in (i + 1)..Len(s), n - 1 \in P PROVE n \in P
  <2>1. n \in 1..Len(s) /\ g[n - 1] = g[i]
    BY <1>1, <1>2
  <2>2. g[n] = ScanToken(g[i], s, n)
    BY <2>1 DEF ScanOf
  <2>3. g[n] = g[i]
    BY <2>2 DEF ScanToken
  <2> QED
    BY <1>1, <2>1, <2>3
<1> HIDE DEF P
<1>3. i..Len(s) \subseteq P
  BY <1>1, <1>2, UpTo
<1> QED
  BY <1>3 DEF P

-----------------------------------------------------------------------------
(* The text of a body *)

\* What the i-th member adds to the text.
Piece(members, i) == IF i = 1 THEN Text(members[i]) ELSE <<",">> \o Text(members[i])

\* text[k] is the text up to and with the k-th member.
Writes(text, members) ==
  /\ text \in [0..Len(members) -> Seq(Token)]
  /\ text[0] = <<"lbrace">>
  /\ \A n \in 1..Len(members) : text[n] = text[n - 1] \o Piece(members, n)

\* The texts of the members are tokens.
LEMMA TextType == \A m \in Member : Text(m) \in Seq(Token)
<1>1. Text("model") \in Seq(Token)
  BY DEF Text, Token
<1>2. Text("badmodel") \in Seq(Token)
  BY DEF Text, Token
<1>3. Text("request") \in Seq(Token)
  BY DEF Text, Token
<1>4. Text("badrequest") \in Seq(Token)
  BY DEF Text, Token
<1>5. Text("contents") \in Seq(Token)
  BY DEF Text, Token
<1>6. Text("tools") \in Seq(Token)
  BY DEF Text, Token
<1> QED
  BY <1>1, <1>2, <1>3, <1>4, <1>5, <1>6 DEF Member

\* No member's text is empty.
LEMMA TextLength == \A m \in Member : Len(Text(m)) >= 1
<1>1. Len(Text("model")) >= 1 /\ Len(Text("badmodel")) >= 1
  BY DEF Text
<1>2. Len(Text("request")) >= 1
  BY DEF Text
<1>3. Len(Text("badrequest")) >= 1
  BY DEF Text
<1>4. Len(Text("contents")) >= 1
  BY DEF Text
<1>5. Len(Text("tools")) >= 1
  BY DEF Text
<1> QED
  BY <1>1, <1>2, <1>3, <1>4, <1>5 DEF Member

\* So are they with the commas.
LEMMA PieceType ==
  ASSUME NEW members \in Seq(Member), NEW i \in 1..Len(members)
  PROVE  Piece(members, i) \in Seq(Token)
<1>1. Text(members[i]) \in Seq(Token)
  BY TextType, ElementOfSeq
<1>2. <<",">> \in Seq(Token)
  BY DEF Token
<1>3. <<",">> \o Text(members[i]) \in Seq(Token)
  BY <1>1, <1>2, ConcatProperties
<1> QED
  BY <1>1, <1>3 DEF Piece

\* Render writes the members one after the other.
LEMMA Rendered ==
  ASSUME NEW members \in Seq(Member)
  PROVE  \E text : Writes(text, members) /\ Render(members) = text[Len(members)] \o <<"rbrace">>
<1> DEFINE L    == Len(members)
           seqs == [i \in DOMAIN members |->
                      IF i = 1 THEN Text(members[i]) ELSE <<",">> \o Text(members[i])]
           F    == [n \in 1..L |-> [s \in Seq(Token) |-> s \o Piece(members, n)]]
<1>1. L \in Nat /\ DOMAIN members = 1..L
  BY LenProperties
<1>2. \A n \in 1..L : seqs[n] = Piece(members, n) /\ seqs[n] \in Seq(Token)
  BY <1>1, PieceType DEF Piece
<1>3. Len(seqs) = L
  <2>1. seqs \in [1..L -> Seq(Token)]
    BY <1>1, <1>2
  <2>2. seqs \in Seq(Seq(Token)) /\ DOMAIN seqs = 1..L
    <3>1. Seq(Seq(Token)) = UNION {[1..n -> Seq(Token)] : n \in Nat}
      BY SeqDef
    <3> QED
      BY <1>1, <2>1, <3>1
  <2> HIDE DEF seqs
  <2>3. Len(seqs) \in Nat /\ DOMAIN seqs = 1..Len(seqs)
    BY <2>2, LenProperties
  <2> QED
    BY <1>1, <2>2, <2>3
<1>4. F \in [1..L -> [Seq(Token) -> Seq(Token)]]
  <2>1. \A n \in 1..L : \A s \in Seq(Token) : s \o Piece(members, n) \in Seq(Token)
    BY PieceType, ConcatProperties
  <2> QED
    BY <2>1
<1>5. <<"lbrace">> \in Seq(Token) /\ <<>> \in Seq(Token)
  BY DEF Token
<1> HIDE DEF L, seqs, F
<1>6. PICK flat \in [0..L -> Seq(Token)] : Follows(flat, <<>>, F, L)
  BY <1>1, <1>4, <1>5, Recursion
<1>7. flat[0] = <<>> /\ \A n \in 1..L : /\ flat[n] = flat[n - 1] \o seqs[n]
                                        /\ flat[n] \in Seq(Token) /\ flat[n - 1] \in Seq(Token)
  <2>1. ASSUME NEW n \in 1..L
        PROVE  /\ flat[n] = flat[n - 1] \o seqs[n]
               /\ flat[n] \in Seq(Token) /\ flat[n - 1] \in Seq(Token)
    <3>1. n \in 0..L /\ n - 1 \in 0..L
      BY <1>1
    <3>2. flat[n] = F[n][flat[n - 1]] /\ flat[n] \in Seq(Token) /\ flat[n - 1] \in Seq(Token)
      BY <1>6, <3>1 DEF Follows
    <3> QED
      BY <1>2, <3>2 DEF F
  <2> QED
    BY <1>6, <2>1 DEF Follows
<1>8. FlattenSeq(seqs) = flat[L]
  <2>1. CASE L = 0
    <3>1. seqs = <<>>
      <4>1. DOMAIN seqs = 1..0
        BY <1>1, <2>1 DEF seqs
      <4>2. seqs = [i \in 1..0 |-> seqs[i]]
        BY <1>1, <2>1 DEF seqs
      <4> QED
        BY <4>2
    <3>2. FlattenSeq(seqs) = seqs
      BY <1>3, <2>1 DEF FlattenSeq
    <3> QED
      BY <1>7, <2>1, <3>1, <3>2
  <2>2. CASE L # 0
    <3> DEFINE Rec(g) == g = [i \in 1..Len(seqs) |->
                                IF i = 1 THEN seqs[i] ELSE g[i - 1] \o seqs[i]]
               f == [n \in 1..L |-> flat[n]]
               g == CHOOSE g : Rec(g)
    <3>1. ASSUME NEW n \in 1..L
          PROVE  f[n] = IF n = 1 THEN seqs[n] ELSE f[n - 1] \o seqs[n]
      <4>1. CASE n = 1
        <5>1. seqs[1] \in Seq(Token) /\ 1 \in 1..L /\ flat[1] = flat[0] \o seqs[1]
          <6>1. 1 \in 1..L
            BY <1>1, <2>2
          <6>2. flat[1] = flat[1 - 1] \o seqs[1]
            BY <1>7, <6>1
          <6> QED
            BY <1>2, <6>1, <6>2
        <5>2. flat[1] = seqs[1]
          BY <1>7, <5>1, ConcatEmptySeq
        <5> QED
          BY <4>1, <5>1, <5>2
      <4>2. CASE n # 1
        <5>1. n - 1 \in 1..L
          BY <1>1, <4>2
        <5> QED
          BY <1>7, <4>2, <5>1
      <4> QED
        BY <4>1, <4>2
    <3>2. Rec(f)
      <4>1. f = [n \in 1..L |-> f[n]]
        OBVIOUS
      <4> HIDE DEF f
      <4> QED
        BY <1>3, <3>1, <4>1
    <3>3. Rec(g)
      BY <3>2
    <3>4. FlattenSeq(seqs) = g[L]
      BY <1>3, <2>2 DEF FlattenSeq
    <3> HIDE DEF g, f
    <3>5. ASSUME NEW n \in 1..L
          PROVE  g[n] = IF n = 1 THEN seqs[n] ELSE g[n - 1] \o seqs[n]
      BY <1>3, <3>3
    <3> HIDE DEF Rec
    <3> DEFINE P == {n \in 1..L : g[n] = f[n]}
    <3>6. 1 \in P
      <4>1. 1 \in 1..L
        BY <1>1, <2>2
      <4>2. g[1] = seqs[1]
        BY <3>5, <4>1
      <4>3. f[1] = seqs[1]
        BY <3>1, <4>1
      <4> QED
        BY <4>1, <4>2, <4>3
    <3>7. ASSUME NEW n \in (1 + 1)..L, n - 1 \in P PROVE n \in P
      <4>1. n \in 1..L /\ n # 1 /\ g[n - 1] = f[n - 1]
        BY <1>1, <3>7
      <4> QED
        BY <3>1, <3>5, <4>1
    <3> HIDE DEF P
    <3>8. 1..L \subseteq P
      BY <1>1, <3>6, <3>7, UpTo
    <3>9. g[L] = f[L] /\ f[L] = flat[L]
      BY <1>1, <2>2, <3>8 DEF P, f
    <3> QED
      BY <3>4, <3>9
  <2> QED
    BY <2>1, <2>2
<1> DEFINE text == [n \in 0..L |-> <<"lbrace">> \o flat[n]]
<1>9. \A n \in 0..L : text[n] \in Seq(Token)
  BY <1>5, <1>6, ConcatProperties
<1>10. text[0] = <<"lbrace">>
  <2>1. 0 \in 0..L
    BY <1>1
  <2> QED
    BY <1>5, <1>7, <2>1, ConcatEmptySeq
<1>11. ASSUME NEW n \in 1..L PROVE text[n] = text[n - 1] \o Piece(members, n)
  <2>1. n \in 0..L /\ n - 1 \in 0..L
    BY <1>1
  <2>2. flat[n] = flat[n - 1] \o seqs[n] /\ flat[n - 1] \in Seq(Token) /\ seqs[n] \in Seq(Token)
    BY <1>2, <1>7
  <2>3. <<"lbrace">> \o (flat[n - 1] \o seqs[n]) = (<<"lbrace">> \o flat[n - 1]) \o seqs[n]
    <3> DEFINE open == <<"lbrace">>
    <3>1. open \in Seq(Token)
      BY <1>5
    <3> HIDE DEF open
    <3>2. \A a, b, c \in Seq(Token) : (a \o b) \o c = a \o (b \o c)
      BY ConcatAssociative
    <3>3. open \o (flat[n - 1] \o seqs[n]) = (open \o flat[n - 1]) \o seqs[n]
      BY <2>2, <3>1, <3>2, Zenon
    <3> QED
      BY <3>3 DEF open
  <2> QED
    BY <1>2, <2>1, <2>2, <2>3
<1>12. Render(members) = text[L] \o <<"rbrace">>
  <2>1. Render(members) = (<<"lbrace">> \o FlattenSeq(seqs)) \o <<"rbrace">>
    BY DEF Render, seqs
  <2> QED
    BY <1>1, <1>8, <2>1
<1>13. Writes(text, members)
  <2>1. text \in [0..L -> Seq(Token)]
    BY <1>9
  <2> HIDE DEF text
  <2> QED
    BY <1>10, <1>11, <2>1 DEF Writes, L
<1> QED
  BY <1>12, <1>13 DEF L

\* The texts of the same members are the same.
LEMMA SameText ==
  ASSUME NEW members \in Seq(Member), NEW text, Writes(text, members),
         NEW k \in 1..Len(members)
  PROVE  Len(Render(SubSeq(members, 1, k))) = Len(text[k]) + 1
<1> DEFINE some == SubSeq(members, 1, k)
<1>1. Len(members) \in Nat /\ k \in Nat
  BY LenProperties
<1>2. some \in Seq(Member) /\ Len(some) = k /\ \A i \in 1..k : some[i] = members[i]
  <2>1. \A i \in 1..k : members[i] \in Member
    BY <1>1, ElementOfSeq
  <2> QED
    BY <1>1, <2>1, SubSeqProperties
<1> HIDE DEF some
<1>3. PICK other : Writes(other, some) /\ Render(some) = other[k] \o <<"rbrace">>
  BY <1>2, Rendered
<1> DEFINE P == {n \in 0..k : other[n] = text[n]}
<1>4. 0 \in P
  <2>1. 0 \in 0..k
    BY <1>1
  <2> QED
    BY <1>3, <2>1 DEF Writes
<1>5. ASSUME NEW n \in (0 + 1)..k, n - 1 \in P PROVE n \in P
  <2>1. n \in 1..k /\ n \in 1..Len(members) /\ n - 1 \in 0..k /\ other[n - 1] = text[n - 1]
    BY <1>1, <1>5
  <2>2. other[n] = other[n - 1] \o Piece(some, n)
    BY <1>2, <1>3, <2>1 DEF Writes
  <2>3. text[n] = text[n - 1] \o Piece(members, n)
    BY <2>1 DEF Writes
  <2>4. Piece(some, n) = Piece(members, n)
    BY <1>2, <2>1 DEF Piece
  <2>5. other[n] = text[n]
    BY <2>1, <2>2, <2>3, <2>4, Zenon
  <2>6. n \in 0..k
    BY <1>1, <2>1
  <2> QED
    BY <2>5, <2>6
<1> HIDE DEF P
<1>6. 0..k \subseteq P
  BY <1>1, <1>4, <1>5, UpTo
<1>7. Render(some) = text[k] \o <<"rbrace">>
  <2>1. k \in 0..k
    BY <1>1
  <2>2. other[k] = text[k]
    BY <1>6, <2>1 DEF P
  <2> QED
    BY <1>3, <2>2, Zenon
<1>8. text[k] \in Seq(Token) /\ <<"rbrace">> \in Seq(Token)
  <2>1. k \in 0..Len(members)
    BY <1>1
  <2>2. <<"rbrace">> \in Seq(Token)
    BY DEF Token
  <2> QED
    BY <2>1, <2>2 DEF Writes
<1> QED
  BY <1>7, <1>8, ConcatProperties DEF some

-----------------------------------------------------------------------------
(* The scan of a text *)

\* The text t is in s, after the first o tokens.
Stands(t, s, o) == o + Len(t) <= Len(s) /\ \A j \in 1..Len(t) : s[o + j] = t[j]

\* Token j of t takes a scan in search from depths b and c to d and e.
Moves(t, j, b, c, d, e) ==
  \/ t[j] \in {",", ":", "str", "num"} /\ d = b /\ e = c
  \/ t[j] = "lbrace" /\ d = b + 1 /\ e = c
  \/ t[j] = "rbrace" /\ b >= 2 /\ d = b - 1 /\ e = c
  \/ t[j] = "lbracket" /\ d = b /\ e = c + 1
  \/ t[j] = "rbracket" /\ c >= 1 /\ d = b /\ e = c - 1
  \/ /\ t[j] = "model" /\ d = b /\ e = c
     /\ b >= 2 \/ c >= 1 \/ j = Len(t) \/ t[j + 1] # ":"

\* Each token of t takes a scan in search to the next of the depths b and c.
Path(t, b, c) ==
  /\ b \in [0..Len(t) -> Int] /\ c \in [0..Len(t) -> Int]
  /\ \A j \in 1..Len(t) : Moves(t, j, b[j - 1], c[j - 1], b[j], c[j])

\* A scan in search goes along such a path.
LEMMA Passes ==
  ASSUME NEW s \in Seq(Token), NEW g, ScanOf(g, s), NEW o \in Nat, NEW t \in Seq(Token),
         Stands(t, s, o), s[o + Len(t) + 1] # ":",
         NEW b, NEW c, Path(t, b, c), g[o] = At(b[0], c[0])
  PROVE  g[o + Len(t)] = At(b[Len(t)], c[Len(t)])
<1> DEFINE P == {j \in 0..Len(t) : g[o + j] = At(b[j], c[j])}
<1>1. Len(s) \in Nat /\ Len(t) \in Nat
  BY LenProperties
<1>2. 0 \in P
  BY <1>1
<1>3. ASSUME NEW j \in (0 + 1)..Len(t), j - 1 \in P PROVE j \in P
  <2>1. PICK n \in 1..Len(s) : n = o + j
    BY <1>1 DEF Stands
  <2>2. j \in 1..Len(t) /\ j \in 0..Len(t) /\ j - 1 \in 0..Len(t) /\ n - 1 = o + (j - 1)
    BY <1>1, <2>1
  <2>3. s[n] = t[j] /\ (IF j = Len(t) THEN s[n + 1] # ":" ELSE s[n + 1] = t[j + 1])
    <3>1. s[o + j] = t[j]
      BY <2>2 DEF Stands
    <3>2. CASE j = Len(t)
      BY <2>1, <3>1, <3>2
    <3>3. CASE j # Len(t)
      <4>1. j + 1 \in 1..Len(t)
        BY <1>1, <2>2, <3>3
      <4>2. s[o + (j + 1)] = t[j + 1] /\ o + (j + 1) = n + 1
        BY <1>1, <2>1, <4>1 DEF Stands
      <4> QED
        BY <2>1, <3>1, <3>3, <4>2
    <3> QED
      BY <3>2, <3>3
  <2> DEFINE x == b[j - 1]
             y == c[j - 1]
  <2>4. x \in Int /\ y \in Int /\ g[n - 1] = At(x, y)
    BY <1>3, <2>2 DEF Path
  <2>5. Moves(t, j, x, y, b[j], c[j])
    BY <2>2 DEF Path
  <2> HIDE DEF x, y
  <2>6. g[n] = ScanToken(At(x, y), s, n)
    BY <2>1, <2>4 DEF ScanOf
  <2>7. Steps(g[n], s, n, x, y)
    BY <2>4, <2>6, ScanSteps
  <2>8. g[n] = At(b[j], c[j])
    BY <2>3, <2>5, <2>7 DEF Moves, Steps
  <2> QED
    BY <2>1, <2>2, <2>8
<1> HIDE DEF P
<1>4. 0..Len(t) \subseteq P
  BY <1>1, <1>2, <1>3, UpTo
<1>5. Len(t) \in P
  BY <1>1, <1>4
<1> QED
  BY <1>5 DEF P

\* Through the text t a scan moves from the root object to the root object.
Neutral(t) ==
  \E b, c : /\ Path(t, b, c)
            /\ b[0] = 1 /\ c[0] = 0 /\ b[Len(t)] = 1 /\ c[Len(t)] = 0

\* A request in the root object is passed: its model is a level below.
LEMMA RequestNeutral == Neutral(Text("request"))
<1> DEFINE t == Text("request")
           b == [j \in 0..15 |-> IF j < 3 THEN 1 ELSE IF j < 10 THEN 2 ELSE IF j < 14 THEN 3
                                 ELSE IF j < 15 THEN 2 ELSE 1]
           c == [j \in 0..15 |-> 0]
<1>1. t = <<"str", ":", "lbrace", "model", ":", "str", ",", "str", ":", "lbrace", "model",
            ":", "str", "rbrace", "rbrace">>
  BY DEF Text
<1> HIDE DEF t
<1>2. Len(t) = 15
  BY <1>1
<1>3. /\ t[1] = "str" /\ t[2] = ":" /\ t[3] = "lbrace" /\ t[4] = "model" /\ t[5] = ":"
      /\ t[6] = "str" /\ t[7] = "," /\ t[8] = "str" /\ t[9] = ":" /\ t[10] = "lbrace"
      /\ t[11] = "model" /\ t[12] = ":" /\ t[13] = "str" /\ t[14] = "rbrace" /\ t[15] = "rbrace"
  BY <1>1
<1>4. /\ b[0] = 1 /\ b[1] = 1 /\ b[2] = 1 /\ b[3] = 2 /\ b[4] = 2 /\ b[5] = 2 /\ b[6] = 2
      /\ b[7] = 2 /\ b[8] = 2 /\ b[9] = 2 /\ b[10] = 3 /\ b[11] = 3 /\ b[12] = 3 /\ b[13] = 3
      /\ b[14] = 2 /\ b[15] = 1
  OBVIOUS
<1>5. /\ c[0] = 0 /\ c[1] = 0 /\ c[2] = 0 /\ c[3] = 0 /\ c[4] = 0 /\ c[5] = 0 /\ c[6] = 0
      /\ c[7] = 0 /\ c[8] = 0 /\ c[9] = 0 /\ c[10] = 0 /\ c[11] = 0 /\ c[12] = 0 /\ c[13] = 0
      /\ c[14] = 0 /\ c[15] = 0
  OBVIOUS
<1>6. b \in [0..15 -> Int] /\ c \in [0..15 -> Int]
  OBVIOUS
<1> HIDE DEF b, c
<1>7. ASSUME NEW j \in 1..15 PROVE Moves(t, j, b[j - 1], c[j - 1], b[j], c[j])
  <2>1. CASE j = 1
    <3>1. t[1] = "str"
      BY <1>3
    <3>2. Moves(t, 1, 1, 0, 1, 0)
      BY <1>2, <3>1 DEF Moves
    <3> QED
      BY <1>4, <1>5, <2>1, <3>2
  <2>2. CASE j = 2
    <3>1. t[2] = ":"
      BY <1>3
    <3>2. Moves(t, 2, 1, 0, 1, 0)
      BY <1>2, <3>1 DEF Moves
    <3> QED
      BY <1>4, <1>5, <2>2, <3>2
  <2>3. CASE j = 3
    <3>1. t[3] = "lbrace"
      BY <1>3
    <3>2. Moves(t, 3, 1, 0, 2, 0)
      BY <1>2, <3>1 DEF Moves
    <3> QED
      BY <1>4, <1>5, <2>3, <3>2
  <2>4. CASE j = 4
    <3>1. t[4] = "model" /\ t[5] = ":"
      BY <1>3
    <3>2. Moves(t, 4, 2, 0, 2, 0)
      BY <1>2, <3>1 DEF Moves
    <3> QED
      BY <1>4, <1>5, <2>4, <3>2
  <2>5. CASE j = 5
    <3>1. t[5] = ":"
      BY <1>3
    <3>2. Moves(t, 5, 2, 0, 2, 0)
      BY <1>2, <3>1 DEF Moves
    <3> QED
      BY <1>4, <1>5, <2>5, <3>2
  <2>6. CASE j = 6
    <3>1. t[6] = "str"
      BY <1>3
    <3>2. Moves(t, 6, 2, 0, 2, 0)
      BY <1>2, <3>1 DEF Moves
    <3> QED
      BY <1>4, <1>5, <2>6, <3>2
  <2>7. CASE j = 7
    <3>1. t[7] = ","
      BY <1>3
    <3>2. Moves(t, 7, 2, 0, 2, 0)
      BY <1>2, <3>1 DEF Moves
    <3> QED
      BY <1>4, <1>5, <2>7, <3>2
  <2>8. CASE j = 8
    <3>1. t[8] = "str"
      BY <1>3
    <3>2. Moves(t, 8, 2, 0, 2, 0)
      BY <1>2, <3>1 DEF Moves
    <3> QED
      BY <1>4, <1>5, <2>8, <3>2
  <2>9. CASE j = 9
    <3>1. t[9] = ":"
      BY <1>3
    <3>2. Moves(t, 9, 2, 0, 2, 0)
      BY <1>2, <3>1 DEF Moves
    <3> QED
      BY <1>4, <1>5, <2>9, <3>2
  <2>10. CASE j = 10
    <3>1. t[10] = "lbrace"
      BY <1>3
    <3>2. Moves(t, 10, 2, 0, 3, 0)
      BY <1>2, <3>1 DEF Moves
    <3> QED
      BY <1>4, <1>5, <2>10, <3>2
  <2>11. CASE j = 11
    <3>1. t[11] = "model" /\ t[12] = ":"
      BY <1>3
    <3>2. Moves(t, 11, 3, 0, 3, 0)
      BY <1>2, <3>1 DEF Moves
    <3> QED
      BY <1>4, <1>5, <2>11, <3>2
  <2>12. CASE j = 12
    <3>1. t[12] = ":"
      BY <1>3
    <3>2. Moves(t, 12, 3, 0, 3, 0)
      BY <1>2, <3>1 DEF Moves
    <3> QED
      BY <1>4, <1>5, <2>12, <3>2
  <2>13. CASE j = 13
    <3>1. t[13] = "str"
      BY <1>3
    <3>2. Moves(t, 13, 3, 0, 3, 0)
      BY <1>2, <3>1 DEF Moves
    <3> QED
      BY <1>4, <1>5, <2>13, <3>2
  <2>14. CASE j = 14
    <3>1. t[14] = "rbrace"
      BY <1>3
    <3>2. Moves(t, 14, 3, 0, 2, 0)
      BY <1>2, <3>1 DEF Moves
    <3> QED
      BY <1>4, <1>5, <2>14, <3>2
  <2>15. CASE j = 15
    <3>1. t[15] = "rbrace"
      BY <1>3
    <3>2. Moves(t, 15, 2, 0, 1, 0)
      BY <1>2, <3>1 DEF Moves
    <3> QED
      BY <1>4, <1>5, <2>15, <3>2
  <2> QED
    BY <2>1, <2>2, <2>3, <2>4, <2>5, <2>6, <2>7, <2>8, <2>9, <2>10, <2>11, <2>12, <2>13,
       <2>14, <2>15
<1>8. Neutral(t)
  BY <1>2, <1>4, <1>5, <1>6, <1>7 DEF Neutral, Path
<1> QED
  BY <1>8 DEF t

\* The string "model" as a value is passed: no colon follows.
LEMMA BadRequestNeutral == Neutral(Text("badrequest"))
<1> DEFINE t == Text("badrequest")
           b == [j \in 0..3 |-> 1]
           c == [j \in 0..3 |-> 0]
<1>1. t = <<"str", ":", "model">>
  BY DEF Text
<1> HIDE DEF t
<1>2. Len(t) = 3
  BY <1>1
<1>3. /\ t[1] = "str" /\ t[2] = ":" /\ t[3] = "model"
  BY <1>1
<1>4. /\ b[0] = 1 /\ b[1] = 1 /\ b[2] = 1 /\ b[3] = 1
  OBVIOUS
<1>5. /\ c[0] = 0 /\ c[1] = 0 /\ c[2] = 0 /\ c[3] = 0
  OBVIOUS
<1>6. b \in [0..3 -> Int] /\ c \in [0..3 -> Int]
  OBVIOUS
<1> HIDE DEF b, c
<1>7. ASSUME NEW j \in 1..3 PROVE Moves(t, j, b[j - 1], c[j - 1], b[j], c[j])
  <2>1. CASE j = 1
    <3>1. t[1] = "str"
      BY <1>3
    <3>2. Moves(t, 1, 1, 0, 1, 0)
      BY <1>2, <3>1 DEF Moves
    <3> QED
      BY <1>4, <1>5, <2>1, <3>2
  <2>2. CASE j = 2
    <3>1. t[2] = ":"
      BY <1>3
    <3>2. Moves(t, 2, 1, 0, 1, 0)
      BY <1>2, <3>1 DEF Moves
    <3> QED
      BY <1>4, <1>5, <2>2, <3>2
  <2>3. CASE j = 3
    <3>1. t[3] = "model"
      BY <1>3
    <3>2. Moves(t, 3, 1, 0, 1, 0)
      BY <1>2, <3>1 DEF Moves
    <3> QED
      BY <1>4, <1>5, <2>3, <3>2
  <2> QED
    BY <2>1, <2>2, <2>3
<1>8. Neutral(t)
  BY <1>2, <1>4, <1>5, <1>6, <1>7 DEF Neutral, Path
<1> QED
  BY <1>8 DEF t

\* The role of a turn is passed.
LEMMA ContentsNeutral == Neutral(Text("contents"))
<1> DEFINE t == Text("contents")
           b == [j \in 0..9 |-> IF j < 4 THEN 1 ELSE IF j < 8 THEN 2 ELSE 1]
           c == [j \in 0..9 |-> IF j < 3 THEN 0 ELSE IF j < 9 THEN 1 ELSE 0]
<1>1. t = <<"str", ":", "lbracket", "lbrace", "str", ":", "model", "rbrace", "rbracket">>
  BY DEF Text
<1> HIDE DEF t
<1>2. Len(t) = 9
  BY <1>1
<1>3. /\ t[1] = "str" /\ t[2] = ":" /\ t[3] = "lbracket" /\ t[4] = "lbrace" /\ t[5] = "str"
      /\ t[6] = ":" /\ t[7] = "model" /\ t[8] = "rbrace" /\ t[9] = "rbracket"
  BY <1>1
<1>4. /\ b[0] = 1 /\ b[1] = 1 /\ b[2] = 1 /\ b[3] = 1 /\ b[4] = 2 /\ b[5] = 2 /\ b[6] = 2
      /\ b[7] = 2 /\ b[8] = 1 /\ b[9] = 1
  OBVIOUS
<1>5. /\ c[0] = 0 /\ c[1] = 0 /\ c[2] = 0 /\ c[3] = 1 /\ c[4] = 1 /\ c[5] = 1 /\ c[6] = 1
      /\ c[7] = 1 /\ c[8] = 1 /\ c[9] = 0
  OBVIOUS
<1>6. b \in [0..9 -> Int] /\ c \in [0..9 -> Int]
  OBVIOUS
<1> HIDE DEF b, c
<1>7. ASSUME NEW j \in 1..9 PROVE Moves(t, j, b[j - 1], c[j - 1], b[j], c[j])
  <2>1. CASE j = 1
    <3>1. t[1] = "str"
      BY <1>3
    <3>2. Moves(t, 1, 1, 0, 1, 0)
      BY <1>2, <3>1 DEF Moves
    <3> QED
      BY <1>4, <1>5, <2>1, <3>2
  <2>2. CASE j = 2
    <3>1. t[2] = ":"
      BY <1>3
    <3>2. Moves(t, 2, 1, 0, 1, 0)
      BY <1>2, <3>1 DEF Moves
    <3> QED
      BY <1>4, <1>5, <2>2, <3>2
  <2>3. CASE j = 3
    <3>1. t[3] = "lbracket"
      BY <1>3
    <3>2. Moves(t, 3, 1, 0, 1, 1)
      BY <1>2, <3>1 DEF Moves
    <3> QED
      BY <1>4, <1>5, <2>3, <3>2
  <2>4. CASE j = 4
    <3>1. t[4] = "lbrace"
      BY <1>3
    <3>2. Moves(t, 4, 1, 1, 2, 1)
      BY <1>2, <3>1 DEF Moves
    <3> QED
      BY <1>4, <1>5, <2>4, <3>2
  <2>5. CASE j = 5
    <3>1. t[5] = "str"
      BY <1>3
    <3>2. Moves(t, 5, 2, 1, 2, 1)
      BY <1>2, <3>1 DEF Moves
    <3> QED
      BY <1>4, <1>5, <2>5, <3>2
  <2>6. CASE j = 6
    <3>1. t[6] = ":"
      BY <1>3
    <3>2. Moves(t, 6, 2, 1, 2, 1)
      BY <1>2, <3>1 DEF Moves
    <3> QED
      BY <1>4, <1>5, <2>6, <3>2
  <2>7. CASE j = 7
    <3>1. t[7] = "model" /\ t[8] = "rbrace"
      BY <1>3
    <3>2. Moves(t, 7, 2, 1, 2, 1)
      BY <1>2, <3>1 DEF Moves
    <3> QED
      BY <1>4, <1>5, <2>7, <3>2
  <2>8. CASE j = 8
    <3>1. t[8] = "rbrace"
      BY <1>3
    <3>2. Moves(t, 8, 2, 1, 1, 1)
      BY <1>2, <3>1 DEF Moves
    <3> QED
      BY <1>4, <1>5, <2>8, <3>2
  <2>9. CASE j = 9
    <3>1. t[9] = "rbracket"
      BY <1>3
    <3>2. Moves(t, 9, 1, 1, 1, 0)
      BY <1>2, <3>1 DEF Moves
    <3> QED
      BY <1>4, <1>5, <2>9, <3>2
  <2> QED
    BY <2>1, <2>2, <2>3, <2>4, <2>5, <2>6, <2>7, <2>8, <2>9
<1>8. Neutral(t)
  BY <1>2, <1>4, <1>5, <1>6, <1>7 DEF Neutral, Path
<1> QED
  BY <1>8 DEF t

\* The parameters of a tool are passed: they are in an array.
LEMMA ToolsNeutral == Neutral(Text("tools"))
<1> DEFINE t == Text("tools")
           b == [j \in 0..11 |-> IF j < 4 THEN 1 ELSE IF j < 8 THEN 2 ELSE 1]
           c == [j \in 0..11 |-> IF j < 3 THEN 0 ELSE IF j < 11 THEN 1 ELSE 0]
<1>1. t = <<"str", ":", "lbracket", "lbrace", "model", ":", "str", "rbrace", ",", "model",
            "rbracket">>
  BY DEF Text
<1> HIDE DEF t
<1>2. Len(t) = 11
  BY <1>1
<1>3. /\ t[1] = "str" /\ t[2] = ":" /\ t[3] = "lbracket" /\ t[4] = "lbrace" /\ t[5] = "model"
      /\ t[6] = ":" /\ t[7] = "str" /\ t[8] = "rbrace" /\ t[9] = "," /\ t[10] = "model"
      /\ t[11] = "rbracket"
  BY <1>1
<1>4. /\ b[0] = 1 /\ b[1] = 1 /\ b[2] = 1 /\ b[3] = 1 /\ b[4] = 2 /\ b[5] = 2 /\ b[6] = 2
      /\ b[7] = 2 /\ b[8] = 1 /\ b[9] = 1 /\ b[10] = 1 /\ b[11] = 1
  OBVIOUS
<1>5. /\ c[0] = 0 /\ c[1] = 0 /\ c[2] = 0 /\ c[3] = 1 /\ c[4] = 1 /\ c[5] = 1 /\ c[6] = 1
      /\ c[7] = 1 /\ c[8] = 1 /\ c[9] = 1 /\ c[10] = 1 /\ c[11] = 0
  OBVIOUS
<1>6. b \in [0..11 -> Int] /\ c \in [0..11 -> Int]
  OBVIOUS
<1> HIDE DEF b, c
<1>7. ASSUME NEW j \in 1..11 PROVE Moves(t, j, b[j - 1], c[j - 1], b[j], c[j])
  <2>1. CASE j = 1
    <3>1. t[1] = "str"
      BY <1>3
    <3>2. Moves(t, 1, 1, 0, 1, 0)
      BY <1>2, <3>1 DEF Moves
    <3> QED
      BY <1>4, <1>5, <2>1, <3>2
  <2>2. CASE j = 2
    <3>1. t[2] = ":"
      BY <1>3
    <3>2. Moves(t, 2, 1, 0, 1, 0)
      BY <1>2, <3>1 DEF Moves
    <3> QED
      BY <1>4, <1>5, <2>2, <3>2
  <2>3. CASE j = 3
    <3>1. t[3] = "lbracket"
      BY <1>3
    <3>2. Moves(t, 3, 1, 0, 1, 1)
      BY <1>2, <3>1 DEF Moves
    <3> QED
      BY <1>4, <1>5, <2>3, <3>2
  <2>4. CASE j = 4
    <3>1. t[4] = "lbrace"
      BY <1>3
    <3>2. Moves(t, 4, 1, 1, 2, 1)
      BY <1>2, <3>1 DEF Moves
    <3> QED
      BY <1>4, <1>5, <2>4, <3>2
  <2>5. CASE j = 5
    <3>1. t[5] = "model" /\ t[6] = ":"
      BY <1>3
    <3>2. Moves(t, 5, 2, 1, 2, 1)
      BY <1>2, <3>1 DEF Moves
    <3> QED
      BY <1>4, <1>5, <2>5, <3>2
  <2>6. CASE j = 6
    <3>1. t[6] = ":"
      BY <1>3
    <3>2. Moves(t, 6, 2, 1, 2, 1)
      BY <1>2, <3>1 DEF Moves
    <3> QED
      BY <1>4, <1>5, <2>6, <3>2
  <2>7. CASE j = 7
    <3>1. t[7] = "str"
      BY <1>3
    <3>2. Moves(t, 7, 2, 1, 2, 1)
      BY <1>2, <3>1 DEF Moves
    <3> QED
      BY <1>4, <1>5, <2>7, <3>2
  <2>8. CASE j = 8
    <3>1. t[8] = "rbrace"
      BY <1>3
    <3>2. Moves(t, 8, 2, 1, 1, 1)
      BY <1>2, <3>1 DEF Moves
    <3> QED
      BY <1>4, <1>5, <2>8, <3>2
  <2>9. CASE j = 9
    <3>1. t[9] = ","
      BY <1>3
    <3>2. Moves(t, 9, 1, 1, 1, 1)
      BY <1>2, <3>1 DEF Moves
    <3> QED
      BY <1>4, <1>5, <2>9, <3>2
  <2>10. CASE j = 10
    <3>1. t[10] = "model" /\ t[11] = "rbracket"
      BY <1>3
    <3>2. Moves(t, 10, 1, 1, 1, 1)
      BY <1>2, <3>1 DEF Moves
    <3> QED
      BY <1>4, <1>5, <2>10, <3>2
  <2>11. CASE j = 11
    <3>1. t[11] = "rbracket"
      BY <1>3
    <3>2. Moves(t, 11, 1, 1, 1, 0)
      BY <1>2, <3>1 DEF Moves
    <3> QED
      BY <1>4, <1>5, <2>11, <3>2
  <2> QED
    BY <2>1, <2>2, <2>3, <2>4, <2>5, <2>6, <2>7, <2>8, <2>9, <2>10, <2>11
<1>8. Neutral(t)
  BY <1>2, <1>4, <1>5, <1>6, <1>7 DEF Neutral, Path
<1> QED
  BY <1>8 DEF t

\* A member other than the model leaves the scan where it was.
LEMMA PassesMember ==
  ASSUME NEW s \in Seq(Token), NEW g, ScanOf(g, s), NEW o \in Nat, g[o] = Root,
         NEW m \in Member \ {"model", "badmodel"}, Stands(Text(m), s, o),
         s[o + Len(Text(m)) + 1] # ":"
  PROVE  g[o + Len(Text(m))] = Root
<1> DEFINE t == Text(m)
<1>1. t \in Seq(Token)
  BY TextType
<1>2. Neutral(t)
  BY RequestNeutral, BadRequestNeutral, ContentsNeutral, ToolsNeutral DEF Member
<1>3. Stands(t, s, o) /\ s[o + Len(t) + 1] # ":"
  OBVIOUS
<1> HIDE DEF t
<1>4. PICK b, c : Path(t, b, c) /\ b[0] = 1 /\ c[0] = 0 /\ b[Len(t)] = 1 /\ c[Len(t)] = 0
  BY <1>2 DEF Neutral
<1>5. g[o] = At(b[0], c[0])
  BY <1>4 DEF Root
<1>6. g[o + Len(t)] = At(b[Len(t)], c[Len(t)])
  BY <1>1, <1>3, <1>4, <1>5, Passes
<1> QED
  BY <1>4, <1>6 DEF Root, t

\* What stands in a text when another is put behind it, and where that one stands.
LEMMA StandsConcat ==
  ASSUME NEW a \in Seq(Token), NEW b \in Seq(Token)
  PROVE  /\ a \o b \in Seq(Token) /\ Len(a \o b) = Len(a) + Len(b)
         /\ Stands(b, a \o b, Len(a))
         /\ \A t \in Seq(Token) : Stands(t, a, 0) => Stands(t, a \o b, 0)
<1>1. /\ a \o b \in Seq(Token) /\ Len(a \o b) = Len(a) + Len(b)
      /\ \A i \in 1..Len(a) : (a \o b)[i] = a[i]
      /\ \A i \in 1..Len(b) : (a \o b)[Len(a) + i] = b[i]
      /\ Len(a) \in Nat /\ Len(b) \in Nat
  <2>1. Len(a) \in Nat /\ Len(b) \in Nat
    BY LenProperties
  <2>2. a \o b \in Seq(Token) /\ Len(a \o b) = Len(a) + Len(b)
    BY ConcatProperties
  <2>3. \A i \in 1..(Len(a) + Len(b)) : (a \o b)[i] = IF i <= Len(a) THEN a[i] ELSE b[i - Len(a)]
    BY ConcatProperties
  <2>4. ASSUME NEW i \in 1..Len(b) PROVE (a \o b)[Len(a) + i] = b[i]
    <3>1. /\ Len(a) + i \in 1..(Len(a) + Len(b)) /\ ~(Len(a) + i <= Len(a))
          /\ (Len(a) + i) - Len(a) = i
      BY <2>1
    <3> QED
      BY <2>3, <3>1
  <2>5. \A i \in 1..Len(a) : (a \o b)[i] = a[i]
    BY <2>1, <2>3
  <2> QED
    BY <2>1, <2>2, <2>4, <2>5
<1> DEFINE ab == a \o b
<1> HIDE DEF ab
<1>2. Stands(b, ab, Len(a))
  BY <1>1 DEF Stands, ab
<1>3. ASSUME NEW t \in Seq(Token), Stands(t, a, 0) PROVE Stands(t, ab, 0)
  <2>1. Len(t) \in Nat /\ Len(t) <= Len(a) /\ \A j \in 1..Len(t) : 0 + j = j /\ a[0 + j] = t[j]
    BY <1>3, LenProperties DEF Stands
  <2>2. \A j \in 1..Len(t) : ab[0 + j] = t[j]
    BY <1>1, <2>1 DEF ab
  <2> QED
    BY <1>1, <2>1, <2>2 DEF Stands, ab
<1> QED
  BY <1>1, <1>2, <1>3 DEF ab

\* The whole text of members, and a run of the loop over it.
Reads(g, s, text, members) ==
  /\ Writes(text, members) /\ s = text[Len(members)] \o <<"rbrace">>
  /\ s \in Seq(Token) /\ ScanOf(g, s)

\* The text of the first members is where the whole text begins.
LEMMA Begins ==
  ASSUME NEW members \in Seq(Member), NEW text, NEW s, NEW g, Reads(g, s, text, members),
         NEW k \in 0..Len(members)
  PROVE  Stands(text[k], s, 0) /\ text[k] \in Seq(Token)
<1> DEFINE L == Len(members)
           P == {n \in k..L : Stands(text[k], text[n], 0)}
<1>1. L \in Nat /\ k \in Nat /\ k <= L /\ \A n \in 0..L : text[n] \in Seq(Token)
  <2>1. L \in Nat
    BY LenProperties
  <2>2. text \in [0..L -> Seq(Token)]
    BY DEF Reads, Writes
  <2> HIDE DEF L
  <2>3. k \in 0..L
    BY DEF L
  <2> QED
    BY <2>1, <2>2, <2>3
<1>2. k \in P
  <2>1. text[k] \in Seq(Token)
    BY <1>1
  <2>2. Len(text[k]) \in Nat
    BY <2>1, LenProperties
  <2> QED
    BY <1>1, <2>2 DEF Stands
<1>3. ASSUME NEW n \in (k + 1)..L, n - 1 \in P PROVE n \in P
  <2>1. n \in 1..L /\ n \in k..L /\ n - 1 \in 0..L
    BY <1>1
  <2>2. text[n - 1] \in Seq(Token) /\ text[k] \in Seq(Token) /\ Piece(members, n) \in Seq(Token)
    BY <1>1, <2>1, PieceType
  <2>3. Stands(text[k], text[n - 1] \o Piece(members, n), 0)
    BY <1>3, <2>2, StandsConcat
  <2>4. text[n] = text[n - 1] \o Piece(members, n)
    BY <2>1 DEF Reads, Writes
  <2> QED
    BY <2>1, <2>3, <2>4
<1> HIDE DEF P, L
<1>4. L \in P
  <2>1. k..L \subseteq P
    BY <1>1, <1>2, <1>3, UpTo
  <2> QED
    BY <1>1, <2>1
<1>5. text[L] \in Seq(Token) /\ text[k] \in Seq(Token) /\ <<"rbrace">> \in Seq(Token)
  <2>1. <<"rbrace">> \in Seq(Token)
    BY DEF Token
  <2> QED
    BY <1>1, <2>1
<1> DEFINE end == <<"rbrace">>
<1> HIDE DEF end
<1>6. Stands(text[k], text[L], 0) /\ s = text[L] \o end /\ end \in Seq(Token)
  BY <1>4, <1>5 DEF P, Reads, L, end
<1>7. Stands(text[k], text[L] \o end, 0)
  BY <1>5, <1>6, StandsConcat
<1> QED
  BY <1>5, <1>6, <1>7

\* After the text of the first members there is a comma, or the end.
LEMMA Behind ==
  ASSUME NEW members \in Seq(Member), NEW text, NEW s, NEW g, Reads(g, s, text, members),
         NEW k \in 0..Len(members)
  PROVE  /\ Len(text[k]) \in Nat /\ Len(text[k]) + 1 <= Len(s)
         /\ k >= 1 => s[Len(text[k]) + 1] # ":"
         /\ k = Len(members) =>
              s[Len(text[k]) + 1] = "rbrace" /\ Len(text[k]) + 1 = Len(s)
<1> DEFINE L == Len(members)
           end == <<"rbrace">>
<1>1. L \in Nat /\ k \in Nat /\ k <= L /\ text[k] \in Seq(Token) /\ text[L] \in Seq(Token)
  <2>1. L \in Nat
    BY LenProperties
  <2>2. text \in [0..L -> Seq(Token)]
    BY DEF Reads, Writes
  <2> HIDE DEF L
  <2>3. k \in 0..L /\ L \in 0..L
    BY <2>1 DEF L
  <2> QED
    BY <2>1, <2>2, <2>3
<1>2. end \in Seq(Token) /\ Len(end) = 1 /\ end[1] = "rbrace"
  BY DEF Token
<1>3. s = text[L] \o end
  BY DEF Reads
<1> HIDE DEF end, L
<1>4. /\ Len(s) = Len(text[L]) + 1 /\ Stands(end, s, Len(text[L]))
      /\ Len(text[L]) \in Nat /\ Len(text[k]) \in Nat
  BY <1>1, <1>2, <1>3, StandsConcat, LenProperties
<1>5. s[Len(text[L]) + 1] = "rbrace"
  BY <1>2, <1>4 DEF Stands
<1>6. CASE k = L
  BY <1>4, <1>5, <1>6 DEF L
<1>7. CASE k # L
  <2>1. k + 1 \in 1..L /\ k + 1 \in 0..L /\ (k + 1) - 1 = k
    BY <1>1, <1>7
  <2>2. text[k + 1] = text[k] \o Piece(members, k + 1) /\ Piece(members, k + 1) \in Seq(Token)
    BY <2>1, PieceType DEF Reads, Writes, L
  <2>3. /\ Stands(Piece(members, k + 1), text[k + 1], Len(text[k]))
        /\ Len(text[k + 1]) = Len(text[k]) + Len(Piece(members, k + 1))
    BY <1>1, <2>2, StandsConcat
  <2>4. Stands(text[k + 1], s, 0)
    BY <2>1, Begins DEF L
  <2>5. Len(Piece(members, k + 1)) >= 1 /\ (k >= 1 => Piece(members, k + 1)[1] = ",")
    <3> DEFINE m == members[k + 1]
    <3>1. m \in Member
      BY <2>1, ElementOfSeq DEF L
    <3> HIDE DEF m
    <3>2. Text(m) \in Seq(Token) /\ Len(Text(m)) \in Nat
      BY <3>1, TextType, LenProperties
    <3>3. ASSUME NEW u \in Seq(Token), Len(u) \in Nat
          PROVE  Len(<<",">> \o u) = 1 + Len(u) /\ (<<",">> \o u)[1] = ","
      BY <3>3
    <3>4. Len(<<",">> \o Text(m)) = 1 + Len(Text(m)) /\ (<<",">> \o Text(m))[1] = ","
      BY <3>2, <3>3
    <3>5. CASE k >= 1
      <4>1. Piece(members, k + 1) = <<",">> \o Text(m)
        <5>1. k + 1 # 1
          BY <1>1, <3>5
        <5> QED
          BY <5>1, Zenon DEF Piece, m
      <4>2. Len(Piece(members, k + 1)) >= 1
        <5>1. Len(Piece(members, k + 1)) = 1 + Len(Text(m))
          BY <3>4, <4>1, Zenon
        <5> QED
          BY <3>2, <5>1
      <4> QED
        BY <3>4, <4>1, <4>2
    <3>6. CASE ~(k >= 1)
      <4>1. Piece(members, k + 1) = Text(m)
        <5>1. k + 1 = 1
          BY <1>1, <3>6
        <5> QED
          BY <5>1, Zenon DEF Piece, m
      <4>2. Len(Text(m)) >= 1
        BY <3>1, TextLength
      <4> QED
        BY <3>6, <4>1, <4>2
    <3> QED
      BY <3>5, <3>6
  <2>6. Len(Piece(members, k + 1)) \in Nat
    BY <2>2, LenProperties
  <2> DEFINE piece == Piece(members, k + 1)
             next  == text[k + 1]
             o     == Len(text[k])
  <2>7. /\ Stands(piece, next, o) /\ Len(next) = o + Len(piece) /\ Stands(next, s, 0)
        /\ Len(piece) \in Nat /\ Len(piece) >= 1 /\ o \in Nat /\ Len(s) \in Nat
    <3>1. Len(s) \in Nat
      BY <1>4
    <3> QED
      BY <1>4, <2>3, <2>4, <2>5, <2>6, <3>1, Zenon
  <2>8. k >= 1 => piece[1] = ","
    BY <2>5
  <2> HIDE DEF piece, next, o
  <2>9. next[o + 1] = piece[1]
    BY <2>7 DEF Stands
  <2>10. o + 1 \in 1..Len(next) /\ o + 1 <= Len(s)
    BY <2>7 DEF Stands
  <2>11. s[o + 1] = piece[1]
    <3>1. s[0 + (o + 1)] = next[o + 1] /\ 0 + (o + 1) = o + 1
      BY <2>7, <2>10 DEF Stands
    <3> QED
      BY <2>9, <3>1
  <2> QED
    BY <1>7, <2>7, <2>8, <2>10, <2>11 DEF o, L
<1> QED
  BY <1>6, <1>7

\* u behind a comma.
BehindComma(piece, u) ==
  /\ Len(piece) = 1 + Len(u) /\ piece[1] = ","
  /\ \A j \in 1..Len(u) : piece[1 + j] = u[j]

\* A token put before a text is its first, and the others follow.
LEMMA CommaText ==
  ASSUME NEW u \in Seq(Token), NEW d \in Token
  PROVE  /\ Len(<<d>> \o u) = 1 + Len(u) /\ (<<d>> \o u)[1] = d
         /\ \A j \in 1..Len(u) : (<<d>> \o u)[1 + j] = u[j]
<1>1. Len(u) \in Nat
  BY LenProperties
<1> DEFINE one == <<d>>
<1>2. one \in Seq(Token) /\ Len(one) = 1 /\ one[1] = d
  OBVIOUS
<1> HIDE DEF one
<1>3. /\ Len(one \o u) = 1 + Len(u)
      /\ \A j \in 1..(1 + Len(u)) : (one \o u)[j] = IF j <= 1 THEN one[j] ELSE u[j - 1]
  <2>1. Len(one \o u) = Len(one) + Len(u)
    BY <1>2, ConcatProperties
  <2>2. \A j \in 1..(Len(one) + Len(u)) :
          (one \o u)[j] = IF j <= Len(one) THEN one[j] ELSE u[j - Len(one)]
    BY <1>2, ConcatProperties
  <2>3. Len(one) = 1
    BY <1>2
  <2> QED
    BY <2>1, <2>2, <2>3, Zenon
<1>4. (one \o u)[1] = d
  <2>1. 1 \in 1..(1 + Len(u)) /\ 1 <= 1
    BY <1>1
  <2> QED
    BY <1>2, <1>3, <2>1
<1>5. ASSUME NEW j \in 1..Len(u) PROVE (one \o u)[1 + j] = u[j]
  <2>1. 1 + j \in 1..(1 + Len(u)) /\ ~(1 + j <= 1) /\ (1 + j) - 1 = j
    BY <1>1
  <2> QED
    BY <1>3, <2>1
<1> QED
  BY <1>3, <1>4, <1>5 DEF one

\* It stands one token later.
LEMMA AfterComma ==
  ASSUME NEW u \in Seq(Token), NEW s, NEW p \in Nat, NEW piece, BehindComma(piece, u),
         Stands(piece, s, p)
  PROVE  s[p + 1] = "," /\ p + 1 <= Len(s) /\ Stands(u, s, p + 1)
<1>1. Len(u) \in Nat
  BY LenProperties
<1>2. Len(piece) = 1 + Len(u)
  BY DEF BehindComma
<1>3. p + Len(piece) <= Len(s)
  BY DEF Stands
<1>4. p + 1 <= Len(s) /\ (p + 1) + Len(u) <= Len(s)
  BY <1>1, <1>2, <1>3
<1>5. s[p + 1] = piece[1]
  <2>1. 1 \in 1..Len(piece)
    BY <1>1, <1>2
  <2> QED
    BY <2>1 DEF Stands
<1>6. ASSUME NEW j \in 1..Len(u) PROVE s[(p + 1) + j] = u[j]
  <2>1. 1 + j \in 1..Len(piece) /\ p + (1 + j) = (p + 1) + j
    BY <1>1, <1>2
  <2>2. s[p + (1 + j)] = piece[1 + j]
    BY <2>1 DEF Stands
  <2> QED
    BY <2>1, <2>2 DEF BehindComma
<1>7. Stands(u, s, p + 1)
  BY <1>4, <1>6 DEF Stands
<1> QED
  BY <1>4, <1>5, <1>7 DEF BehindComma

\* At the root object before a member, the scan is there at the member's text, too.
LEMMA AtMember ==
  ASSUME NEW members \in Seq(Member), NEW text, NEW s, NEW g, Reads(g, s, text, members),
         NEW k \in 1..Len(members), g[Len(text[k - 1])] = Root
  PROVE  \E o \in Nat : /\ o + Len(Text(members[k])) = Len(text[k])
                        /\ g[o] = Root /\ Stands(Text(members[k]), s, o)
<1> DEFINE m == members[k]
           p == Len(text[k - 1])
           piece == Piece(members, k)
<1>1. m \in Member /\ k \in 0..Len(members) /\ k - 1 \in 0..Len(members) /\ k \in Nat
  <2>1. Len(members) \in Nat
    BY LenProperties
  <2> QED
    BY <2>1, ElementOfSeq
<1>2. Text(m) \in Seq(Token) /\ Len(Text(m)) \in Nat /\ piece \in Seq(Token)
  BY <1>1, TextType, PieceType, LenProperties
<1>3. text[k] = text[k - 1] \o piece /\ text[k - 1] \in Seq(Token)
  BY <1>1 DEF Reads, Writes
<1>4. /\ Stands(piece, text[k], p) /\ Len(text[k]) = p + Len(piece) /\ Stands(text[k], s, 0)
      /\ p \in Nat /\ Len(piece) \in Nat /\ g[p] = Root
  <2>1. Stands(text[k], s, 0)
    BY <1>1, Begins
  <2> QED
    BY <1>2, <1>3, <2>1, StandsConcat, LenProperties
<1> DEFINE whole == text[k]
<1> HIDE DEF piece, p, whole
<1>5. Stands(piece, s, p)
  <2>1. p + Len(piece) <= Len(s)
    BY <1>4 DEF Stands, whole
  <2>2. ASSUME NEW j \in 1..Len(piece) PROVE s[p + j] = piece[j]
    <3>1. p + j \in 1..Len(whole) /\ 0 + (p + j) = p + j
      BY <1>4 DEF whole
    <3>2. s[0 + (p + j)] = whole[p + j]
      BY <1>4, <3>1 DEF Stands, whole
    <3>3. whole[p + j] = piece[j]
      BY <1>4 DEF Stands, whole
    <3> QED
      BY <3>1, <3>2, <3>3
  <2> QED
    BY <2>1, <2>2 DEF Stands
<1>6. CASE k = 1
  <2>1. piece = Text(m)
    BY <1>6, Zenon DEF piece, Piece, m
  <2> QED
    BY <1>4, <1>5, <2>1
<1>7. CASE k # 1
  <2> DEFINE u == Text(m)
  <2>1. piece = <<",">> \o u
    BY <1>7, Zenon DEF piece, Piece, m
  <2>2. u \in Seq(Token) /\ Len(u) \in Nat
    BY <1>2
  <2> HIDE DEF u
  <2>3. /\ Len(piece) = 1 + Len(u)
        /\ s[p + 1] = "," /\ p + 1 <= Len(s) /\ Stands(u, s, p + 1)
    <3>1. "," \in Token
      BY DEF Token
    <3>2. BehindComma(piece, u)
      BY <2>1, <2>2, <3>1, CommaText, Zenon DEF BehindComma
    <3> QED
      BY <1>4, <1>5, <2>2, <3>2, AfterComma DEF BehindComma
  <2>4. g[p + 1] = Root
    <3>1. s \in Seq(Token) /\ Len(s) \in Nat
      BY LenProperties DEF Reads
    <3>2. p + 1 \in 1..Len(s) /\ (p + 1) - 1 = p /\ p + 1 \in Int
      <4>1. p \in Nat /\ p + 1 <= Len(s)
        BY <1>4, <2>3
      <4> QED
        BY <3>1, <4>1
    <3>3. g[p + 1] = ScanToken(At(1, 0), s, p + 1)
      BY <1>4, <3>2 DEF Reads, ScanOf, Root
    <3>4. Steps(g[p + 1], s, p + 1, 1, 0)
      BY <3>1, <3>2, <3>3, ScanSteps
    <3> QED
      BY <2>3, <3>4 DEF Steps, Root
  <2>5. (p + 1) + Len(u) = Len(text[k]) /\ p + 1 \in Nat
    <3>1. Len(piece) = 1 + Len(u)
      BY <2>3
    <3> QED
      BY <1>4, <2>2, <3>1
  <2> QED
    BY <2>3, <2>4, <2>5 DEF u
<1> QED
  BY <1>6, <1>7

\* As long as no member names a model, the scan is at the root object.
LEMMA AtRootObject ==
  ASSUME NEW members \in Seq(Member), NEW text, NEW s, NEW g, Reads(g, s, text, members),
         NEW k \in 0..Len(members), \A i \in 1..k : members[i] \notin {"model", "badmodel"}
  PROVE  g[Len(text[k])] = Root
<1> DEFINE P == {n \in 0..k : g[Len(text[n])] = Root}
<1>1. Len(members) \in Nat /\ k \in Nat /\ s \in Seq(Token) /\ Len(s) \in Nat
  BY LenProperties DEF Reads
<1>2. 0 \in P
  <2>1. text[0] = <<"lbrace">> /\ 0 \in 0..Len(members)
    BY <1>1 DEF Reads, Writes
  <2>2. Stands(text[0], s, 0)
    BY <2>1, Begins
  <2>3. Len(text[0]) = 1 /\ text[0][1] = "lbrace"
    BY <2>1
  <2>4. 1 <= Len(s) /\ s[1] = "lbrace"
    <3> DEFINE open == text[0]
    <3> HIDE DEF open
    <3>1. s[0 + 1] = open[1] /\ 0 + 1 <= Len(s)
      BY <2>2, <2>3 DEF Stands, open
    <3> QED
      BY <2>3, <3>1 DEF open
  <2>5. g[1] = ScanToken(At(0, 0), s, 1)
    BY <1>1, <2>4 DEF Reads, ScanOf
  <2>6. Steps(g[1], s, 1, 0, 0)
    BY <1>1, <2>5, ScanSteps
  <2>7. g[1] = Root
    BY <2>4, <2>6 DEF Steps, Root
  <2>8. g[Len(text[0])] = Root
    BY <2>3, <2>7, Zenon
  <2>9. 0 \in 0..k
    BY <1>1
  <2> QED
    BY <2>8, <2>9
<1>3. ASSUME NEW n \in (0 + 1)..k, n - 1 \in P PROVE n \in P
  <2>1. n \in 1..Len(members) /\ n \in 0..k /\ n \in 1..k /\ n \in 0..Len(members) /\ n >= 1
    BY <1>1
  <2>2. PICK o \in Nat : /\ o + Len(Text(members[n])) = Len(text[n])
                         /\ g[o] = Root /\ Stands(Text(members[n]), s, o)
    BY <1>3, <2>1, AtMember
  <2>3. members[n] \in Member \ {"model", "badmodel"}
    BY <2>1, ElementOfSeq
  <2>4. s[o + Len(Text(members[n])) + 1] # ":"
    BY <2>1, <2>2, Behind
  <2>5. g[o + Len(Text(members[n]))] = Root
    BY <1>1, <2>2, <2>3, <2>4, PassesMember DEF Reads
  <2> QED
    BY <2>1, <2>2, <2>5
<1> HIDE DEF P
<1>4. 0..k \subseteq P
  BY <1>1, <1>2, <1>3, UpTo
<1>5. k \in P
  BY <1>1, <1>4
<1> QED
  BY <1>5 DEF P

-----------------------------------------------------------------------------
(* What the scanner finds *)

\* Where the scan of a text ends, at or before the first member that names a model.
LEMMA ScanResult ==
  ASSUME NEW members \in Seq(Member), NEW text, NEW s, NEW g, Reads(g, s, text, members)
  PROVE  /\ (\A i \in 1..Len(members) : members[i] \notin {"model", "badmodel"})
              => g[Len(s)].result = NotFound
         /\ \A k \in 1..Len(members) :
              /\ members[k] \in {"model", "badmodel"}
              /\ \A i \in 1..(k - 1) : members[i] \notin {"model", "badmodel"}
              => /\ g[Len(s)].result = IF members[k] = "badmodel" THEN InvalidValue
                                       ELSE Found(Len(text[k]))
                 /\ \E i \in 1..Len(s) : s[i] = "model"
<1>1. Len(members) \in Nat /\ s \in Seq(Token) /\ Len(s) \in Nat /\ ScanOf(g, s)
  BY LenProperties DEF Reads
<1>2. ASSUME \A i \in 1..Len(members) : members[i] \notin {"model", "badmodel"}
      PROVE  g[Len(s)].result = NotFound
  <2> DEFINE p == Len(text[Len(members)])
  <2>1. Len(members) \in 0..Len(members)
    BY <1>1
  <2>2. g[p] = At(1, 0)
    BY <1>2, <2>1, AtRootObject DEF Root
  <2>3. p \in Nat /\ p + 1 = Len(s) /\ s[p + 1] = "rbrace"
    BY <2>1, Behind
  <2> HIDE DEF p
  <2>4. Len(s) \in 1..Len(s) /\ Len(s) - 1 = p /\ Len(s) \in Int
    BY <1>1, <2>3
  <2>5. g[Len(s)] = ScanToken(At(1, 0), s, Len(s))
    BY <1>1, <2>2, <2>4 DEF ScanOf
  <2>6. Steps(g[Len(s)], s, Len(s), 1, 0)
    BY <1>1, <2>4, <2>5, ScanSteps
  <2>7. s[Len(s)] = "rbrace"
    BY <2>3
  <2> QED
    BY <2>6, <2>7 DEF Steps
<1>3. ASSUME NEW k \in 1..Len(members), members[k] \in {"model", "badmodel"},
             \A i \in 1..(k - 1) : members[i] \notin {"model", "badmodel"}
      PROVE  /\ g[Len(s)].result = IF members[k] = "badmodel" THEN InvalidValue
                                   ELSE Found(Len(text[k]))
             /\ \E i \in 1..Len(s) : s[i] = "model"
  <2>1. k - 1 \in 0..Len(members)
    BY <1>1
  <2>2. g[Len(text[k - 1])] = Root
    BY <1>3, <2>1, AtRootObject
  <2>3. PICK o \in Nat : /\ o + Len(Text(members[k])) = Len(text[k])
                         /\ g[o] = Root /\ Stands(Text(members[k]), s, o)
    BY <2>2, AtMember
  <2> DEFINE t == Text(members[k])
  <2>4. /\ Len(t) = 3 /\ t[1] = "model" /\ t[2] = ":"
        /\ t[3] = IF members[k] = "badmodel" THEN "num" ELSE "str"
    <3>1. CASE members[k] = "model"
      <4>1. t = <<"model", ":", "str">>
        BY <3>1 DEF Text
      <4> QED
        BY <3>1, <4>1
    <3>2. CASE members[k] = "badmodel"
      <4>1. t = <<"model", ":", "num">>
        BY <3>2 DEF Text
      <4> QED
        BY <3>2, <4>1
    <3> QED
      BY <1>3, <3>1, <3>2
  <2> HIDE DEF t
  <2>5. /\ o + 3 <= Len(s) /\ o + 3 = Len(text[k])
        /\ s[o + 1] = t[1] /\ s[o + 2] = t[2] /\ s[o + 3] = t[3]
    <3>1. Len(t) = 3 /\ Stands(t, s, o) /\ o + Len(t) = Len(text[k])
      BY <2>3, <2>4 DEF t
    <3>2. 1 \in 1..Len(t) /\ 2 \in 1..Len(t) /\ 3 \in 1..Len(t)
      BY <3>1
    <3> QED
      BY <3>1, <3>2 DEF Stands
  <2> DEFINE n == o + 1
  <2>6. /\ n \in 1..Len(s) /\ n - 1 = o /\ n + 1 = o + 2 /\ n + 2 = o + 3 /\ n \in Int
        /\ n \in 0..Len(s) /\ Len(s) \in n..Len(s) /\ n + 2 <= Len(s)
    BY <1>1, <2>5
  <2>7. s[n] = "model" /\ s[n + 1] = ":" /\ s[n + 2] = t[3]
    BY <2>4, <2>5, <2>6
  <2> HIDE DEF n
  <2>8. g[n] = ScanToken(At(1, 0), s, n)
    BY <1>1, <2>3, <2>6 DEF ScanOf, Root
  <2>9. Steps(g[n], s, n, 1, 0)
    BY <1>1, <2>6, <2>8, ScanSteps
  <2>10. g[n].result = IF IsString(t[3]) THEN Found(n + 2) ELSE InvalidValue
    BY <2>6, <2>7, <2>9 DEF Steps
  <2>11. g[n].result = IF members[k] = "badmodel" THEN InvalidValue ELSE Found(Len(text[k]))
    <3>1. n + 2 = Len(text[k])
      BY <2>5, <2>6
    <3>2. IsString(t[3]) <=> members[k] # "badmodel"
      BY <2>4 DEF IsString
    <3> QED
      BY <2>10, <3>1, <3>2, Zenon
  <2>12. g[n].result # Searching
    BY <2>11, ResultsDiffer
  <2>13. g[Len(s)] = g[n]
    BY <1>1, <2>6, <2>12, ScanOver
  <2> QED
    BY <2>6, <2>7, <2>11, <2>13
<1> QED
  BY <1>2, <1>3

\* The scanner finds the model of the root object.
LEMMA FindsRootModel ==
  ASSUME NEW members \in Seq(Member)
  PROVE  /\ Render(members) \in Seq(Token)
         /\ FindModelValueBounds(Render(members)) = RootModel(members)
<1> DEFINE s == Render(members)
<1>1. PICK text : Writes(text, members) /\ s = text[Len(members)] \o <<"rbrace">>
  BY Rendered
<1>2. Len(members) \in Nat /\ DOMAIN members = 1..Len(members)
  BY LenProperties
<1>3. s \in Seq(Token)
  <2> DEFINE end == <<"rbrace">>
  <2>1. end \in Seq(Token)
    BY DEF Token
  <2> HIDE DEF end
  <2>2. text[Len(members)] \in Seq(Token)
    BY <1>1, <1>2 DEF Writes
  <2>3. text[Len(members)] \o end \in Seq(Token)
    BY <2>1, <2>2, ConcatProperties
  <2> QED
    BY <1>1, <2>3 DEF end
<1> HIDE DEF s
<1>4. PICK g : /\ ScanOf(g, s)
               /\ FindModelValueBounds(s) =
                    IF Contains(s, "model") /\ g[Len(s)].result # Searching
                    THEN g[Len(s)].result ELSE NotFound
  BY <1>3, Scanned
<1>5. Reads(g, s, text, members)
  BY <1>1, <1>3, <1>4 DEF Reads
<1> DEFINE names == {i \in DOMAIN members : members[i] \in {"model", "badmodel"}}
           first == CHOOSE i \in names : \A j \in names : i <= j
<1>6. RootModel(members) =
        IF names = {} THEN NotFound
        ELSE IF members[first] = "badmodel" THEN InvalidValue
        ELSE Found(Len(Render(SubSeq(members, 1, first))) - 1)
  BY DEF RootModel
<1>7. CASE names = {}
  <2>1. g[Len(s)].result = NotFound
    BY <1>2, <1>5, <1>7, ScanResult
  <2>2. RootModel(members) = NotFound
    BY <1>6, <1>7, Zenon
  <2>3. FindModelValueBounds(s) = NotFound
    BY <1>4, <2>1, Zenon
  <2> QED
    BY <1>3, <2>2, <2>3, Zenon DEF s
<1>8. CASE names # {}
  <2>1. names \subseteq Nat
    BY <1>2
  <2>2. \E i \in names : \A j \in names : i <= j
    <3> HIDE DEF names
    <3> QED
      BY <1>8, <2>1, Least
  <2>3. first \in names /\ \A j \in names : first <= j
    BY <2>2
  <2> DEFINE k == first
  <2>4. k \in 1..Len(members) /\ members[k] \in {"model", "badmodel"}
    BY <1>2, <2>3
  <2>5. \A i \in 1..(k - 1) : members[i] \notin {"model", "badmodel"}
    BY <1>2, <2>3, <2>4
  <2> HIDE DEF first
  <2>6. /\ g[Len(s)].result = IF members[k] = "badmodel" THEN InvalidValue
                              ELSE Found(Len(text[k]))
        /\ \E i \in 1..Len(s) : s[i] = "model"
    BY <1>5, <2>4, <2>5, ScanResult
  <2>7. Contains(s, "model")
    BY <1>3, <2>6, LenProperties DEF Contains
  <2>8. Len(Render(SubSeq(members, 1, k))) - 1 = Len(text[k])
    <3>1. Len(Render(SubSeq(members, 1, k))) = Len(text[k]) + 1
      BY <1>1, <2>4, SameText
    <3>2. Len(text[k]) \in Nat
      BY <1>2, <1>5, <2>4, Behind
    <3> QED
      BY <3>1, <3>2
  <2>9. RootModel(members) = g[Len(s)].result
    BY <1>6, <1>8, <2>6, <2>8, Zenon
  <2>10. g[Len(s)].result # Searching
    BY <2>6, ResultsDiffer
  <2>11. FindModelValueBounds(s) = g[Len(s)].result
    BY <1>4, <2>7, <2>10, Zenon
  <2> QED
    BY <1>3, <2>9, <2>11, Zenon DEF s
<1> QED
  BY <1>3, <1>7, <1>8 DEF s

\* On a text that is cut short the scan finds the same, or none.
LEMMA PrefixFinds ==
  ASSUME NEW s \in Seq(Token), NEW n \in 0..Len(s),
         FindModelValueBounds(SubSeq(s, 1, n)).err = "none"
  PROVE  FindModelValueBounds(SubSeq(s, 1, n)) = FindModelValueBounds(s)
<1> DEFINE u == SubSeq(s, 1, n)
<1>1. Len(s) \in Nat /\ n \in Nat
  BY LenProperties
<1>2. u \in Seq(Token) /\ Len(u) = n /\ \A i \in 1..n : u[i] = s[i]
  <2>1. \A i \in 1..n : s[i] \in Token
    BY <1>1, ElementOfSeq
  <2> QED
    BY <1>1, <2>1, SubSeqProperties
<1>3. FindModelValueBounds(u).err = "none"
  OBVIOUS
<1> HIDE DEF u
<1>4. PICK g : /\ ScanOf(g, s)
               /\ FindModelValueBounds(s) =
                    IF Contains(s, "model") /\ g[Len(s)].result # Searching
                    THEN g[Len(s)].result ELSE NotFound
  BY Scanned
<1>5. PICK h : /\ ScanOf(h, u)
               /\ FindModelValueBounds(u) =
                    IF Contains(u, "model") /\ h[Len(u)].result # Searching
                    THEN h[Len(u)].result ELSE NotFound
  BY <1>2, Scanned
<1> DEFINE Same(i) == /\ i < n /\ h[i].result = Searching => h[i] = g[i]
                      /\ h[i].result.err = "none" => h[i] = g[i]
           P == {i \in 0..n : Same(i)}
<1>6. 0 \in P
  <2>1. h[0] = g[0] /\ 0 \in 0..n
    BY <1>1, <1>4, <1>5 DEF ScanOf
  <2> QED
    BY <2>1
<1>7. ASSUME NEW i \in (0 + 1)..n, i - 1 \in P PROVE i \in P
  <2>1. i \in 0..n /\ i \in 1..Len(s) /\ i \in 1..Len(u) /\ i - 1 < n /\ i \in 1..n /\ i \in Int
    BY <1>1, <1>2
  <2> DEFINE st == h[i - 1]
  <2>2. h[i] = ScanToken(st, u, i) /\ g[i] = ScanToken(g[i - 1], s, i) /\ u[i] = s[i]
    BY <1>2, <1>4, <1>5, <2>1 DEF ScanOf
  <2>3. (st.result = Searching => st = g[i - 1]) /\ (st.result.err = "none" => st = g[i - 1])
    BY <1>7, <2>1
  <2> HIDE DEF st
  <2>4. CASE st.result # Searching
    <3>1. h[i] = st
      BY <2>2, <2>4 DEF ScanToken
    <3>2. st = g[i - 1] => g[i] = st
      BY <2>2, <2>4 DEF ScanToken
    <3>3. Same(i)
      BY <2>3, <2>4, <3>1, <3>2
    <3> HIDE DEF Same
    <3> QED
      BY <2>1, <3>3
  <2>5. CASE st.result = Searching
    <3>1. g[i] = ScanToken(st, s, i)
      BY <2>2, <2>3, <2>5
    <3>2. CASE s[i] # "model"
      <4>1. ScanToken(st, s, i) = ScanToken(st, u, i)
        BY <2>2, <3>2 DEF ScanToken
      <4>2. Same(i)
        BY <2>2, <3>1, <4>1
      <4> HIDE DEF Same
      <4> QED
        BY <2>1, <4>2
    <3>3. CASE s[i] = "model"
      <4> DEFINE key(w) == i < Len(w) /\ w[i + 1] = ":" /\ AtRoot(st.braces, st.brackets)
                 value(w) == IF i + 2 <= Len(w) /\ IsString(w[i + 2])
                             THEN Found(i + 2) ELSE InvalidValue
      <4>1. /\ ScanToken(st, u, i) = IF key(u) THEN [st EXCEPT !.result = value(u)] ELSE st
            /\ ScanToken(st, s, i) = IF key(s) THEN [st EXCEPT !.result = value(s)] ELSE st
        BY <2>2, <2>5, <3>3 DEF ScanToken
      <4>2. i < n => (key(u) <=> key(s))
        <5>1. i < n => i + 1 \in 1..n /\ i < Len(u) /\ i < Len(s)
          BY <1>1, <1>2, <2>1
        <5> QED
          BY <1>2, <5>1
      <4>3. key(u) => i < n
        BY <1>2
      <4>4. i + 2 <= n => value(u) = value(s)
        <5>1. i + 2 <= n => i + 2 \in 1..n /\ i + 2 <= Len(u) /\ i + 2 <= Len(s)
          BY <1>1, <1>2, <2>1
        <5> QED
          BY <1>2, <5>1
      <4>5. ~(i + 2 <= n) => value(u) = InvalidValue
        BY <1>2
      <4>6. st \in ScanState
        <5>1. i - 1 \in 0..Len(u)
          BY <1>1, <1>2, <2>1
        <5> QED
          BY <1>5, <5>1 DEF ScanOf, st
      <4> HIDE DEF key, value
      <4>7. \A v : [st EXCEPT !.result = v].result = v
        BY <4>6 DEF ScanState
      <4>8. CASE key(u)
        <5>1. h[i] = [st EXCEPT !.result = value(u)] /\ h[i].result = value(u)
          BY <2>2, <4>1, <4>7, <4>8
        <5>2. g[i] = [st EXCEPT !.result = value(s)]
          BY <3>1, <4>1, <4>2, <4>3, <4>8
        <5>3. CASE i + 2 <= n
          <6>1. h[i] = g[i]
            BY <4>4, <5>1, <5>2, <5>3
          <6>2. Same(i)
            BY <6>1
          <6> HIDE DEF Same
          <6> QED
            BY <2>1, <6>2
        <5>4. CASE ~(i + 2 <= n)
          <6>1. h[i].result = InvalidValue
            BY <4>5, <5>1, <5>4
          <6>2. Same(i)
            BY <6>1, ResultsDiffer
          <6> HIDE DEF Same
          <6> QED
            BY <2>1, <6>2
        <5> QED
          BY <5>3, <5>4
      <4>9. CASE ~key(u)
        <5>1. h[i] = st /\ (i < n => g[i] = st)
          BY <2>2, <3>1, <4>1, <4>2, <4>9
        <5>2. h[i].result.err # "none"
          BY <2>5, <5>1, ResultsDiffer
        <5>3. Same(i)
          BY <5>1, <5>2
        <5> HIDE DEF Same
        <5> QED
          BY <2>1, <5>3
      <4> QED
        BY <4>8, <4>9
    <3> QED
      BY <3>2, <3>3
  <2> QED
    BY <2>4, <2>5
<1>8. Same(n)
  <2> HIDE DEF Same
  <2>1. \A i \in (0 + 1)..n : i - 1 \in P => i \in P
    BY <1>7
  <2> HIDE DEF P
  <2>2. 0..n \subseteq P
    BY <1>1, <1>6, <2>1, UpTo
  <2>3. n \in P
    BY <1>1, <2>2
  <2> QED
    BY <2>3 DEF P
<1>9. /\ Contains(u, "model") /\ FindModelValueBounds(u) = h[n].result
      /\ h[n].result # Searching /\ h[n].result.err = "none"
  BY <1>2, <1>3, <1>5, ResultsDiffer
<1>10. h[n] = g[n]
  BY <1>8, <1>9
<1>11. g[Len(s)] = g[n]
  <2>1. Len(s) \in n..Len(s)
    BY <1>1
  <2> QED
    BY <1>4, <1>9, <1>10, <2>1, ScanOver
<1>12. Contains(s, "model")
  <2>1. PICK i \in 1..n : u[i] = "model"
    BY <1>2, <1>9, LenProperties DEF Contains
  <2>2. i \in 1..Len(s) /\ s[i] = "model"
    BY <1>1, <1>2, <2>1
  <2> QED
    BY <2>2, LenProperties DEF Contains
<1>13. FindModelValueBounds(s) = g[Len(s)].result
  BY <1>4, <1>9, <1>10, <1>11, <1>12, Zenon
<1> QED
  BY <1>9, <1>10, <1>11, <1>13, Zenon DEF u

-----------------------------------------------------------------------------
(* The filter *)

\* The parts that are kept of the first n.
Filters(g, turn, k) ==
  g = [n \in 0..k |-> IF n = 0 THEN <<>>
                      ELSE IF turn[n].thought THEN g[n - 1] ELSE Append(g[n - 1], turn[n])]

\* Kept is the last value of such a function.
LEMMA KeptFilters ==
  ASSUME NEW S, NEW turn \in Seq(S)
  PROVE  \E g : Filters(g, turn, Len(turn)) /\ Kept(turn) = g[Len(turn)]
<1> DEFINE F == [n \in 1..Len(turn) |->
                   [s \in Seq(S) |-> IF turn[n].thought THEN s ELSE Append(s, turn[n])]]
<1>1. F \in [1..Len(turn) -> [Seq(S) -> Seq(S)]] /\ Len(turn) \in Nat
  <2>1. Len(turn) \in Nat /\ \A n \in 1..Len(turn) : turn[n] \in S
    BY LenProperties
  <2>2. \A n \in 1..Len(turn) : \A s \in Seq(S) : Append(s, turn[n]) \in Seq(S)
    BY <2>1, AppendProperties
  <2> QED
    BY <2>1, <2>2
<1>2. <<>> \in Seq(S)
  BY EmptySeq
<1> HIDE DEF F
<1>3. PICK f \in [0..Len(turn) -> Seq(S)] : Follows(f, <<>>, F, Len(turn))
  BY <1>1, <1>2, Recursion
<1>4. ASSUME NEW n \in 0..Len(turn)
      PROVE  f[n] = IF n = 0 THEN <<>>
                    ELSE IF turn[n].thought THEN f[n - 1] ELSE Append(f[n - 1], turn[n])
  <2>1. n # 0 => n \in 1..Len(turn) /\ n - 1 \in 0..Len(turn)
    BY <1>1
  <2>2. n # 0 => f[n] = F[n][f[n - 1]] /\ f[n - 1] \in Seq(S)
    BY <1>3, <2>1 DEF Follows
  <2> QED
    BY <1>3, <2>1, <2>2 DEF Follows, F
<1>5. f = [n \in 0..Len(turn) |-> f[n]]
  BY <1>3
<1>6. Filters(f, turn, Len(turn))
  BY <1>4, <1>5 DEF Filters
<1>7. Filters(CHOOSE g : Filters(g, turn, Len(turn)), turn, Len(turn))
  BY <1>6
<1>8. Kept(turn) = (CHOOSE g : Filters(g, turn, Len(turn)))[Len(turn)]
  BY DEF Kept, Filters
<1> QED
  BY <1>7, <1>8

\* What is kept are parts, none a thought; all of them, if none was a thought.
LEMMA KeptParts ==
  ASSUME NEW turn \in Seq(Part)
  PROVE  /\ Kept(turn) \in Seq(Part)
         /\ \A i \in DOMAIN Kept(turn) : ~Kept(turn)[i].thought
         /\ (\A i \in DOMAIN turn : ~turn[i].thought) => Kept(turn) = turn
<1>1. PICK g : Filters(g, turn, Len(turn)) /\ Kept(turn) = g[Len(turn)]
  BY KeptFilters
<1>2. Len(turn) \in Nat /\ DOMAIN turn = 1..Len(turn)
  BY LenProperties
<1> DEFINE Good(n) ==
             /\ g[n] \in Seq(Part)
             /\ \A i \in DOMAIN g[n] : ~g[n][i].thought
             /\ (\A i \in 1..n : ~turn[i].thought) =>
                  Len(g[n]) = n /\ \A i \in 1..n : g[n][i] = turn[i]
           P == {n \in 0..Len(turn) : Good(n)}
<1>3. ASSUME NEW n \in 1..Len(turn), Good(n - 1)
      PROVE  Good(n)
  <2>1. g[n] = IF turn[n].thought THEN g[n - 1] ELSE Append(g[n - 1], turn[n])
    <3>1. n \in 0..Len(turn) /\ n # 0
      BY <1>2
    <3>2. g[n] = IF n = 0 THEN <<>>
                 ELSE IF turn[n].thought THEN g[n - 1] ELSE Append(g[n - 1], turn[n])
      BY <1>1, <3>1 DEF Filters
    <3> QED
      BY <3>1, <3>2
  <2>2. turn[n] \in Part /\ n - 1 \in Nat
    BY <1>2
  <2>3. CASE turn[n].thought
    BY <2>1, <2>2, <2>3, <1>3
  <2>4. CASE ~turn[n].thought
    <3> DEFINE s == g[n - 1]
    <3>1. s \in Seq(Part) /\ \A i \in DOMAIN s : ~s[i].thought
      BY <1>3
    <3>2. g[n] = Append(s, turn[n])
      BY <2>1, <2>4
    <3> HIDE DEF s
    <3>3. /\ g[n] \in Seq(Part) /\ Len(g[n]) = Len(s) + 1 /\ DOMAIN g[n] = 1..(Len(s) + 1)
          /\ \A i \in 1..Len(s) : g[n][i] = s[i]
          /\ g[n][Len(s) + 1] = turn[n]
      BY <3>1, <3>2, <2>2, AppendProperties, LenProperties
    <3>4. Len(s) \in Nat /\ DOMAIN s = 1..Len(s)
      BY <3>1, LenProperties
    <3>5. \A i \in DOMAIN g[n] : ~g[n][i].thought
      BY <3>1, <3>3, <3>4, <2>4
    <3>6. ASSUME \A i \in 1..n : ~turn[i].thought
          PROVE  Len(g[n]) = n /\ \A i \in 1..n : g[n][i] = turn[i]
      <4>1. Len(s) = n - 1 /\ \A i \in 1..(n - 1) : s[i] = turn[i]
        BY <3>6, <1>3, <2>2 DEF s
      <4> QED
        BY <4>1, <3>3, <2>2
    <3> QED
      BY <3>3, <3>5, <3>6
  <2> QED
    BY <2>3, <2>4
<1>4. Good(0)
  <2>1. g[0] = <<>>
    BY <1>1, <1>2 DEF Filters
  <2> QED
    BY <2>1
<1>5. 0..Len(turn) \subseteq P
  <2> HIDE DEF Good
  <2>1. 0 \in P /\ \A n \in (0 + 1)..Len(turn) : n - 1 \in P => n \in P
    BY <1>2, <1>3, <1>4
  <2> HIDE DEF P
  <2> QED
    BY <1>2, <2>1, UpTo
<1>6. Good(Len(turn))
  <2> HIDE DEF Good
  <2> QED
    BY <1>5, <1>2
<1>7. (\A i \in DOMAIN turn : ~turn[i].thought) => Kept(turn) = turn
  <2>1. SUFFICES ASSUME \A i \in DOMAIN turn : ~turn[i].thought
                 PROVE  Kept(turn) = turn
    OBVIOUS
  <2>2. Kept(turn) \in Seq(Part) /\ Len(Kept(turn)) = Len(turn)
        /\ \A i \in 1..Len(turn) : Kept(turn)[i] = turn[i]
    BY <1>1, <1>2, <1>6, <2>1
  <2> QED
    BY <2>2, SeqEqual
<1> QED
  BY <1>1, <1>6, <1>7

-----------------------------------------------------------------------------
(* Changing the parts *)

\* What the visitors of the code are: they change a part to a part, and no thought into one.
Visitor(visit) == visit \in [Part -> Part] /\ \A p \in Part : visit[p].thought = p.thought

\* A turn stays one, without thoughts; its parts are empty texts or visited ones; and a
\* turn that was not empty is not.
LEMMA TurnMutated ==
  ASSUME NEW turn \in Seq(Part), NEW visit, Visitor(visit)
  PROVE  /\ MutateTurn(turn, visit) \in Seq(Part)
         /\ \A i \in DOMAIN MutateTurn(turn, visit) :
              /\ ~MutateTurn(turn, visit)[i].thought
              /\ \/ MutateTurn(turn, visit)[i] = Nothing
                 \/ \E p \in Part : MutateTurn(turn, visit)[i] = visit[p]
         /\ turn # <<>> => MutateTurn(turn, visit) # <<>>
<1> DEFINE kept == Kept(turn)
           seen == [i \in DOMAIN kept |-> visit[kept[i]]]
<1>1. Nothing \in Part /\ ~Nothing.thought
  BY DEF Nothing, Part
<1>2. kept \in Seq(Part) /\ \A i \in DOMAIN kept : ~kept[i].thought
  BY KeptParts
<1>3. MutateTurn(turn, visit) = IF kept = <<>> /\ turn # <<>> THEN <<Nothing>> ELSE seen
  BY DEF MutateTurn
<1>4. CASE kept = <<>> /\ turn # <<>>
  <2>1. MutateTurn(turn, visit) = <<Nothing>>
    BY <1>3, <1>4
  <2> QED
    BY <2>1, <1>1
<1>5. CASE ~(kept = <<>> /\ turn # <<>>)
  <2> HIDE DEF kept
  <2>1. DOMAIN kept = 1..Len(kept) /\ Len(kept) \in Nat
    BY <1>2, LenProperties
  <2>2. \A i \in DOMAIN kept : kept[i] \in Part
    BY <1>2
  <2>3. \A i \in DOMAIN kept : seen[i] = visit[kept[i]] /\ seen[i] \in Part /\ ~seen[i].thought
    BY <2>2, <1>2 DEF Visitor
  <2>4. seen \in Seq(Part) /\ DOMAIN seen = DOMAIN kept
    BY <2>1, <2>3, SeqDef
  <2>5. turn # <<>> => seen # <<>>
    <3>1. SUFFICES ASSUME turn # <<>> PROVE seen # <<>>
      OBVIOUS
    <3>2. kept # <<>>
      BY <3>1, <1>5
    <3>3. Len(kept) # 0
      BY <3>2, <1>2, EmptySeq
    <3>4. 1 \in DOMAIN seen
      BY <3>3, <2>1, <2>4
    <3> QED
      BY <3>4
  <2>6. MutateTurn(turn, visit) = seen
    BY <1>3, <1>5
  <2> QED
    BY <2>2, <2>3, <2>4, <2>5, <2>6
<1> QED
  BY <1>4, <1>5

\* A turn without thoughts, of parts the visitor leaves as they are, is left as it is.
LEMMA TurnFixed ==
  ASSUME NEW turn \in Seq(Part), NEW visit,
         \A i \in DOMAIN turn : ~turn[i].thought /\ visit[turn[i]] = turn[i]
  PROVE  MutateTurn(turn, visit) = turn
<1>1. Kept(turn) = turn
  BY KeptParts
<1>2. MutateTurn(turn, visit) = [i \in DOMAIN turn |-> visit[turn[i]]]
  BY <1>1 DEF MutateTurn
<1>3. MutateTurn(turn, visit) = [i \in DOMAIN turn |-> turn[i]]
  BY <1>2
<1>4. turn = [i \in DOMAIN turn |-> turn[i]]
  BY SeqDef
<1> QED
  BY <1>3, <1>4

\* The same of all turns.
LEMMA PartsMutated ==
  ASSUME NEW turns \in Seq(Seq(Part)), NEW visit, Visitor(visit)
  PROVE  /\ MutateParts(turns, visit) \in Seq(Seq(Part))
         /\ DOMAIN MutateParts(turns, visit) = DOMAIN turns
         /\ \A i \in DOMAIN turns :
              /\ turns[i] \in Seq(Part)
              /\ MutateParts(turns, visit)[i] = MutateTurn(turns[i], visit)
<1>1. Len(turns) \in Nat /\ DOMAIN turns = 1..Len(turns)
  BY LenProperties
<1>2. \A i \in DOMAIN turns : turns[i] \in Seq(Part)
  BY ElementOfSeq, <1>1
<1>3. \A i \in DOMAIN turns : MutateTurn(turns[i], visit) \in Seq(Part)
  BY <1>2, TurnMutated
<1>4. MutateParts(turns, visit) \in [1..Len(turns) -> Seq(Part)]
  BY <1>1, <1>3 DEF MutateParts
<1>5. MutateParts(turns, visit) \in Seq(Seq(Part))
  <2>1. Seq(Seq(Part)) = UNION {[1..n -> Seq(Part)] : n \in Nat}
    BY SeqDef
  <2> QED
    BY <1>1, <1>4, <2>1
<1>6. \A i \in DOMAIN turns : MutateParts(turns, visit)[i] = MutateTurn(turns[i], visit)
  BY DEF MutateParts
<1> QED
  BY <1>1, <1>2, <1>4, <1>5, <1>6

-----------------------------------------------------------------------------
(* Bodies *)

\* The visitors of the code.
LEMMA Visitors ==
  /\ Visitor(Unsigned) /\ \A p \in Part : Unsigned[p].sig = "none"
  /\ Visitor(SkippedIfMissing)
  /\ \A p \in Part : SkippedIfMissing[p].call => SkippedIfMissing[p].sig # "none"
  /\ Visitor(Skipped)
  /\ \A p \in Part : Skipped[p].call => Skipped[p].sig # "none"
  /\ \A p \in Part : Skipped[Skipped[p]] = Skipped[p]
  /\ Skipped[Nothing] = Nothing
<1>1. Visitor(Unsigned) /\ \A p \in Part : Unsigned[p].sig = "none"
  BY DEF Visitor, Unsigned, Part
<1>2. /\ Visitor(SkippedIfMissing)
      /\ \A p \in Part : SkippedIfMissing[p].call => SkippedIfMissing[p].sig # "none"
  BY DEF Visitor, SkippedIfMissing, Part
<1>3. Visitor(Skipped)
  BY DEF Visitor, Skipped, Part
<1>4. /\ \A p \in Part : Skipped[p].call => Skipped[p].sig # "none"
      /\ \A p \in Part : Skipped[Skipped[p]] = Skipped[p]
      /\ Skipped[Nothing] = Nothing
  BY DEF Skipped, Part, Nothing
<1> QED
  BY <1>1, <1>2, <1>3, <1>4

\* Sanitizing keeps a payload one, its members and its other fields, and its turns.
LEMMA SanitizeKeeps ==
  ASSUME NEW b \in Payload
  PROVE  LET s == SanitizeGeminiSignatures(b) IN
         /\ s \in Payload
         /\ s.members = b.members /\ s.model = b.model /\ s.max = b.max
         /\ s.thinking = b.thinking /\ s.budget = b.budget /\ s.labels = b.labels
         /\ DOMAIN s.turns = DOMAIN b.turns
         /\ s = b \/ s.turns = MutateParts(b.turns, Skipped)
         /\ \A i \in DOMAIN b.turns : b.turns[i] # <<>> => s.turns[i] # <<>>
<1> DEFINE turns == MutateParts(b.turns, Skipped)
<1>1. b.turns \in Seq(Seq(Part))
  BY DEF Payload
<1>2. /\ turns \in Seq(Seq(Part)) /\ DOMAIN turns = DOMAIN b.turns
      /\ \A i \in DOMAIN b.turns :
           b.turns[i] \in Seq(Part) /\ turns[i] = MutateTurn(b.turns[i], Skipped)
  BY <1>1, Visitors, PartsMutated
<1>3. \A i \in DOMAIN b.turns : b.turns[i] # <<>> => turns[i] # <<>>
  BY <1>2, Visitors, TurnMutated
<1>4. SanitizeGeminiSignatures(b) = b
      \/ SanitizeGeminiSignatures(b) = [b EXCEPT !.turns = turns]
  BY DEF SanitizeGeminiSignatures
<1> HIDE DEF turns
<1>5. /\ [b EXCEPT !.turns = turns] \in Payload
      /\ [b EXCEPT !.turns = turns].turns = turns
  BY <1>2 DEF Payload
<1>6. LET s == [b EXCEPT !.turns = turns]
      IN  /\ s.members = b.members /\ s.model = b.model /\ s.max = b.max
          /\ s.thinking = b.thinking /\ s.budget = b.budget /\ s.labels = b.labels
  BY DEF Payload
<1> QED
  BY <1>2, <1>3, <1>4, <1>5, <1>6 DEF turns

\* A second pass changes nothing.
LEMMA SanitizeTwice ==
  ASSUME NEW b \in Payload
  PROVE  SanitizeGeminiSignatures(SanitizeGeminiSignatures(b)) = SanitizeGeminiSignatures(b)
<1> DEFINE s     == SanitizeGeminiSignatures(b)
           turns == MutateParts(b.turns, Skipped)
<1>1. CASE ~Resolves(b)
  BY <1>1 DEF SanitizeGeminiSignatures
<1>2. CASE Resolves(b)
  <2>1. b.turns \in Seq(Seq(Part))
    BY DEF Payload
  <2>2. /\ turns \in Seq(Seq(Part)) /\ DOMAIN turns = DOMAIN b.turns
        /\ \A i \in DOMAIN b.turns :
             b.turns[i] \in Seq(Part) /\ turns[i] = MutateTurn(b.turns[i], Skipped)
    BY <2>1, Visitors, PartsMutated
  <2>3. s = [b EXCEPT !.turns = turns]
    BY <1>2 DEF SanitizeGeminiSignatures
  <2>4. s.turns = turns /\ s.members = b.members
    BY <2>3 DEF Payload
  <2>5. Resolves(s)
    BY <1>2, <2>4 DEF Resolves, Nested, Has
  <2>6. ASSUME NEW i \in DOMAIN turns
        PROVE  MutateTurn(turns[i], Skipped) = turns[i]
    <3> DEFINE t == turns[i]
    <3>1. /\ t \in Seq(Part)
          /\ \A j \in DOMAIN t : /\ ~t[j].thought
                                 /\ \/ t[j] = Nothing
                                    \/ \E p \in Part : t[j] = Skipped[p]
      <4>1. b.turns[i] \in Seq(Part) /\ t = MutateTurn(b.turns[i], Skipped)
        BY <2>2
      <4>2. Visitor(Skipped)
        BY Visitors
      <4> HIDE DEF t, turns
      <4> QED
        BY <4>1, <4>2, TurnMutated
    <3>2. \A j \in DOMAIN t : Skipped[t[j]] = t[j]
      BY <3>1, Visitors
    <3> HIDE DEF t
    <3>3. MutateTurn(t, Skipped) = t
      BY <3>1, <3>2, TurnFixed
    <3> QED
      BY <3>3 DEF t
  <2>7. MutateParts(turns, Skipped) = [i \in DOMAIN turns |-> turns[i]]
    BY <2>6 DEF MutateParts
  <2>8. MutateParts(turns, Skipped) = turns
    BY <2>2, <2>7, SeqDef
  <2>9. SanitizeGeminiSignatures(s) = [s EXCEPT !.turns = MutateParts(s.turns, Skipped)]
    BY <2>5 DEF SanitizeGeminiSignatures
  <2> HIDE DEF turns, s
  <2>10. SanitizeGeminiSignatures(s) = [s EXCEPT !.turns = turns]
    BY <2>4, <2>8, <2>9
  <2>11. SanitizeGeminiSignatures(s) = s
    BY <2>3, <2>10, <2>4 DEF Payload
  <2> QED
    BY <2>11 DEF s
<1> QED
  BY <1>1, <1>2

\* Labels stay labels; those that are present name the family and, if it is registered,
\* the model.
LEMMA LabelsAdapted ==
  ASSUME NEW b \in Payload, NEW m \in Name, NEW family \in {"claude_gpt", "gemini"}
  PROVE  LET labels == Labelled(b.labels, family, m) IN
         /\ [b EXCEPT !.labels = labels] \in Payload
         /\ labels.present => labels.family = family /\ (m \in Registered => labels.enum = m)
  BY DEF Labelled, Payload

\* The limit of a model is a number.
LEMMA LimitIsNat == \A m : MaxOutputTokensForModel(m) \in Nat
  BY DEF MaxOutputTokensForModel

\* What is adapted for a model is what that model accepts.
LEMMA Adapted ==
  ASSUME NEW b \in Payload, NEW m \in Name
  PROVE  LET a == Adapt(b, m) IN
         /\ a \in Payload /\ a.members = b.members /\ a.model = b.model
         /\ DOMAIN a.turns = DOMAIN b.turns
         /\ \A i \in DOMAIN b.turns : b.turns[i] # <<>> => a.turns[i] # <<>>
         /\ CategorizeModel(m) # "unknown" => AcceptedBy(a, m)
<1> DEFINE a == Adapt(b, m)
<1>1. b.turns \in Seq(Seq(Part))
  BY DEF Payload
<1>2. ASSUME NEW visit, Visitor(visit), NEW i \in DOMAIN b.turns
      PROVE  LET turn == MutateParts(b.turns, visit)[i] IN
             /\ turn \in Seq(Part)
             /\ b.turns[i] # <<>> => turn # <<>>
             /\ \A j \in DOMAIN turn :
                  ~turn[j].thought /\ (turn[j] = Nothing \/ \E p \in Part : turn[j] = visit[p])
  <2> DEFINE turn == MutateParts(b.turns, visit)[i]
  <2>1. b.turns[i] \in Seq(Part) /\ turn = MutateTurn(b.turns[i], visit)
    BY <1>1, <1>2, PartsMutated
  <2> HIDE DEF turn
  <2>2. /\ turn \in Seq(Part)
        /\ b.turns[i] # <<>> => turn # <<>>
        /\ \A j \in DOMAIN turn :
             ~turn[j].thought /\ (turn[j] = Nothing \/ \E p \in Part : turn[j] = visit[p])
    BY <1>2, <2>1, TurnMutated
  <2> QED
    BY <2>2 DEF turn
<1>3. CASE CategorizeModel(m) = "claude_gpt"
  <2> DEFINE turns  == MutateParts(b.turns, Unsigned)
             labels == Labelled(b.labels, "claude_gpt", m)
             max    == Lesser(b.max, MaxOutputTokensForModel(m))
             budget == IF b.thinking /\ b.budget < 1024 THEN 1024 ELSE b.budget
  <2>1. a = [b EXCEPT !.max = max, !.budget = budget, !.turns = turns, !.labels = labels]
    BY <1>3 DEF Adapt, ClaudeAdapt
  <2>2. turns \in Seq(Seq(Part)) /\ DOMAIN turns = DOMAIN b.turns
    BY <1>1, Visitors, PartsMutated
  <2>3. /\ \A i \in DOMAIN b.turns : b.turns[i] # <<>> => turns[i] # <<>>
        /\ \A i \in DOMAIN turns : \A j \in DOMAIN turns[i] :
             ~turns[i][j].thought /\ turns[i][j].sig = "none"
    <3>1. Nothing.sig = "none"
      BY DEF Nothing
    <3>2. Visitor(Unsigned)
      BY Visitors
    <3>3. \A p \in Part : Unsigned[p].sig = "none"
      BY Visitors
    <3>4. ASSUME NEW i \in DOMAIN b.turns
          PROVE  /\ b.turns[i] # <<>> => turns[i] # <<>>
                 /\ \A j \in DOMAIN turns[i] :
                      /\ ~turns[i][j].thought
                      /\ \/ turns[i][j] = Nothing
                         \/ \E p \in Part : turns[i][j] = Unsigned[p]
      BY <1>2, <3>2
    <3>5. DOMAIN turns = DOMAIN b.turns
      BY <2>2
    <3> HIDE DEF turns
    <3>6. ASSUME NEW i \in DOMAIN b.turns, NEW j \in DOMAIN turns[i]
          PROVE  ~turns[i][j].thought /\ (turns[i][j].sig = "none")
      BY <3>1, <3>3, <3>4
    <3> QED
      BY <3>4, <3>5, <3>6
  <2>4. max \in Nat /\ max <= MaxOutputTokensForModel(m)
    BY LimitIsNat DEF Lesser, Payload
  <2>5. budget \in Nat /\ (b.thinking => budget >= 1024)
    BY DEF Payload
  <2>6. /\ [b EXCEPT !.labels = labels] \in Payload
        /\ labels.present =>
             labels.family = "claude_gpt" /\ (m \in Registered => labels.enum = m)
    BY LabelsAdapted
  <2> HIDE DEF turns, labels, max, budget
  <2>7. /\ a \in Payload /\ a.members = b.members /\ a.model = b.model
        /\ a.turns = turns /\ a.labels = labels /\ a.max = max /\ a.budget = budget
        /\ a.thinking = b.thinking
    <3>1. labels \in [present : BOOLEAN, family : {"unset", "claude_gpt", "gemini"},
                      enum : Name \cup {None}]
      BY <2>6 DEF Payload
    <3> HIDE DEF a
    <3> QED
      BY <2>1, <2>2, <2>4, <2>5, <3>1 DEF Payload
  <2> HIDE DEF a
  <2>8. AcceptedBy(a, m)
    BY <1>3, <2>3, <2>4, <2>5, <2>6, <2>7 DEF AcceptedBy
  <2> QED
    BY <2>2, <2>3, <2>7, <2>8 DEF a
<1>4. CASE CategorizeModel(m) = "gemini"
  <2> DEFINE turns  == MutateParts(b.turns, SkippedIfMissing)
             labels == Labelled(b.labels, "gemini", m)
             max    == Lesser(b.max, MaxOutputTokensForModel(m))
  <2>1. a = [b EXCEPT !.max = max, !.turns = turns, !.labels = labels]
    BY <1>4 DEF Adapt, GeminiAdapt
  <2>2. turns \in Seq(Seq(Part)) /\ DOMAIN turns = DOMAIN b.turns
    BY <1>1, Visitors, PartsMutated
  <2>3. /\ \A i \in DOMAIN b.turns : b.turns[i] # <<>> => turns[i] # <<>>
        /\ \A i \in DOMAIN turns : \A j \in DOMAIN turns[i] :
             ~turns[i][j].thought /\ (turns[i][j].call => turns[i][j].sig # "none")
    <3>1. ~Nothing.call
      BY DEF Nothing
    <3>2. Visitor(SkippedIfMissing)
      BY Visitors
    <3>3. \A p \in Part : SkippedIfMissing[p].call => SkippedIfMissing[p].sig # "none"
      BY Visitors
    <3>4. ASSUME NEW i \in DOMAIN b.turns
          PROVE  /\ b.turns[i] # <<>> => turns[i] # <<>>
                 /\ \A j \in DOMAIN turns[i] :
                      /\ ~turns[i][j].thought
                      /\ \/ turns[i][j] = Nothing
                         \/ \E p \in Part : turns[i][j] = SkippedIfMissing[p]
      BY <1>2, <3>2
    <3>5. DOMAIN turns = DOMAIN b.turns
      BY <2>2
    <3> HIDE DEF turns
    <3>6. ASSUME NEW i \in DOMAIN b.turns, NEW j \in DOMAIN turns[i]
          PROVE  ~turns[i][j].thought /\ (turns[i][j].call => turns[i][j].sig # "none")
      BY <3>1, <3>3, <3>4
    <3> QED
      BY <3>4, <3>5, <3>6
  <2>4. max \in Nat /\ max <= MaxOutputTokensForModel(m)
    BY LimitIsNat DEF Lesser, Payload
  <2>5. /\ [b EXCEPT !.labels = labels] \in Payload
        /\ labels.present =>
             labels.family = "gemini" /\ (m \in Registered => labels.enum = m)
    BY LabelsAdapted
  <2> HIDE DEF turns, labels, max
  <2>6. /\ a \in Payload /\ a.members = b.members /\ a.model = b.model
        /\ a.turns = turns /\ a.labels = labels /\ a.max = max
    <3>1. labels \in [present : BOOLEAN, family : {"unset", "claude_gpt", "gemini"},
                      enum : Name \cup {None}]
      BY <2>5 DEF Payload
    <3> HIDE DEF a
    <3> QED
      BY <2>1, <2>2, <2>4, <3>1 DEF Payload
  <2> HIDE DEF a
  <2>7. AcceptedBy(a, m)
    BY <1>4, <2>3, <2>4, <2>5, <2>6 DEF AcceptedBy
  <2> QED
    BY <2>2, <2>3, <2>6, <2>7 DEF a
<1>5. CASE CategorizeModel(m) = "unknown"
  BY <1>5 DEF Adapt
<1>6. CategorizeModel(m) \in {"claude_gpt", "gemini", "unknown"}
  BY DEF CategorizeModel
<1> QED
  BY <1>3, <1>4, <1>5, <1>6

\* A body rewritten for a model, whose own one is found, asks for it; and a nested request
\* is what that model accepts.
LEMMA BodyRewritten ==
  ASSUME NEW b \in Payload, NEW m \in Name
  PROVE  LET r == RewriteModelInBody(b, m) IN
         /\ r \in Payload /\ r.members = b.members
         /\ DOMAIN r.turns = DOMAIN b.turns
         /\ \A i \in DOMAIN b.turns : b.turns[i] # <<>> => r.turns[i] # <<>>
         /\ BodyModel(r) \in {None, m}
         /\ Nested(r) /\ BodyModel(r) # None /\ CategorizeModel(m) # "unknown"
              => AcceptedBy(r, m)
<1> DEFINE r       == RewriteModelInBody(b, m)
           err     == FindModelValueBounds(Render(b.members)).err
           renamed == [b EXCEPT !.model = m]
<1>1. CASE err # "none"
  <2>1. r = b
    BY <1>1 DEF RewriteModelInBody
  <2>2. BodyModel(b) = None
    BY <1>1 DEF BodyModel
  <2> QED
    BY <2>1, <2>2
<1>2. CASE err = "none"
  <2>1. /\ renamed \in Payload /\ renamed.members = b.members /\ renamed.model = m
        /\ renamed.turns = b.turns
    BY DEF Payload
  <2>2. r = IF Nested(b) THEN Adapt(renamed, m) ELSE renamed
    BY <1>2 DEF RewriteModelInBody
  <2>3. LET a == Adapt(renamed, m) IN
        /\ a \in Payload /\ a.members = renamed.members /\ a.model = renamed.model
        /\ DOMAIN a.turns = DOMAIN renamed.turns
        /\ \A i \in DOMAIN renamed.turns : renamed.turns[i] # <<>> => a.turns[i] # <<>>
        /\ CategorizeModel(m) # "unknown" => AcceptedBy(a, m)
    BY <2>1, Adapted
  <2>4. Nested(r) <=> Nested(b)
    BY <2>1, <2>2, <2>3 DEF Nested, Has
  <2>5. BodyModel(r) = m
    BY <1>2, <2>1, <2>2, <2>3 DEF BodyModel
  <2> HIDE DEF r, err, renamed
  <2> QED
    BY <2>1, <2>2, <2>3, <2>4, <2>5 DEF r
<1> QED
  BY <1>1, <1>2

-----------------------------------------------------------------------------
(* One request *)

Request == [path : Name \cup {None}, query : Name \cup {None}, body : Payload]

\* r is what became of a client's request o: it names a model where o does, with the same
\* members in its body, as many turns, and none of them emptied.
Of(r, o) ==
  /\ r \in Request
  /\ (r.path = None) <=> (o.path = None)
  /\ (r.query = None) <=> (o.query = None)
  /\ r.body.members = o.body.members
  /\ DOMAIN r.body.turns = DOMAIN o.body.turns
  /\ \A i \in DOMAIN o.body.turns : o.body.turns[i] # <<>> => r.body.turns[i] # <<>>

\* r asks for m wherever it names a model, and in a form that m accepts.
Asks(r, m) ==
  /\ r.path \in {None, m} /\ r.query \in {None, m}
  /\ BodyModel(r.body) \in {None, m}
  /\ Nested(r.body) /\ BodyModel(r.body) # None /\ CategorizeModel(m) # "unknown"
       => AcceptedBy(r.body, m)

\* What a request is taken for that was not rewritten, or was restored; only one that
\* names a model is ever rewritten.
Taken ==
  /\ pc \in {"force", "predict", "loop"}
  /\ origModel = IF Forced /\ pc # "force" THEN primary ELSE ExtractModelFromRequest(orig)
  /\ target = None => model = origModel /\ ~(Forced /\ pc = "predict")
  /\ target # None => ExtractModelFromRequest(orig) # None

\* What is sent of it.
Unchanged ==
  target = None => cur \in {orig, [orig EXCEPT !.body = SanitizeGeminiSignatures(@)]}

\* The inductive invariant.
IInv ==
  /\ primary \in Name /\ secondary \in Name
  /\ orig \in Request /\ Of(cur, orig)
  /\ target # None => target \in Name /\ model = target /\ Asks(cur, target)
  /\ Taken /\ Unchanged
  /\ SanitizedOnce

\* What became of a request names a model if the request did: the one it asks for.
LEMMA Named ==
  ASSUME NEW o \in Request, NEW r, Of(r, o), ExtractModelFromRequest(o) # None
  PROVE  /\ ExtractModelFromRequest(r) # None
         /\ \A m \in Name : Asks(r, m) => ExtractModelFromRequest(r) = m
<1>1. /\ r \in Request /\ r.body.members = o.body.members
      /\ (r.path = None) <=> (o.path = None)
      /\ (r.query = None) <=> (o.query = None)
  BY DEF Of
<1>2. r.body.model \in Name /\ o.body.model \in Name
  BY <1>1 DEF Request, Payload
<1>3. BodyModel(r.body) = None <=> BodyModel(o.body) = None
  BY <1>1, <1>2, RewriterAssumption DEF BodyModel
<1>4. ExtractModelFromRequest(r) # None
  BY <1>1, <1>3 DEF ExtractModelFromRequest
<1> QED
  BY <1>4 DEF ExtractModelFromRequest, Asks

\* ... and none if the request did not.
LEMMA Unnamed ==
  ASSUME NEW o \in Request, NEW r, Of(r, o), ExtractModelFromRequest(r) # None
  PROVE  ExtractModelFromRequest(o) # None
<1>1. /\ r \in Request /\ r.body.members = o.body.members
      /\ (r.path = None) <=> (o.path = None)
      /\ (r.query = None) <=> (o.query = None)
  BY DEF Of
<1>2. r.body.model \in Name /\ o.body.model \in Name
  BY <1>1 DEF Request, Payload
<1>3. BodyModel(r.body) = None <=> BodyModel(o.body) = None
  BY <1>1, <1>2, RewriterAssumption DEF BodyModel
<1> QED
  BY <1>1, <1>3 DEF ExtractModelFromRequest

\* A request rewritten for a model asks for it.
LEMMA RequestRewritten ==
  ASSUME NEW o \in Request, NEW r, Of(r, o), NEW m \in Name
  PROVE  Of(Rewritten(r, m), o) /\ Asks(Rewritten(r, m), m)
<1> DEFINE w == Rewritten(r, m)
           b == RewriteModelInBody(r.body, m)
<1>1. r.body \in Payload
  BY DEF Of, Request
<1>2. /\ b \in Payload /\ b.members = r.body.members
      /\ DOMAIN b.turns = DOMAIN r.body.turns
      /\ \A i \in DOMAIN r.body.turns : r.body.turns[i] # <<>> => b.turns[i] # <<>>
      /\ BodyModel(b) \in {None, m}
      /\ Nested(b) /\ BodyModel(b) # None /\ CategorizeModel(m) # "unknown"
           => AcceptedBy(b, m)
  BY <1>1, BodyRewritten
<1>3. /\ w.path \in {None, m} /\ w.query \in {None, m} /\ w.body = b /\ w \in Request
      /\ (w.path = None) <=> (r.path = None)
      /\ (w.query = None) <=> (r.query = None)
  BY <1>2, RewriterAssumption DEF Rewritten, Request
<1> HIDE DEF w, b
<1>4. Of(w, o)
  BY <1>2, <1>3 DEF Of
<1>5. Asks(w, m)
  BY <1>2, <1>3 DEF Asks
<1> QED
  BY <1>4, <1>5 DEF w

\* So does one that is sanitized, which only a Gemini model's is.
LEMMA RequestSanitized ==
  ASSUME NEW o \in Request, NEW r, Of(r, o)
  PROVE  LET s == [r EXCEPT !.body = SanitizeGeminiSignatures(@)] IN
         /\ Of(s, o)
         /\ \A m \in Name : Asks(r, m) /\ CategorizeModel(m) = "gemini" => Asks(s, m)
<1> DEFINE s == [r EXCEPT !.body = SanitizeGeminiSignatures(@)]
           b == SanitizeGeminiSignatures(r.body)
<1>1. r.body \in Payload /\ r \in Request
  BY DEF Of, Request
<1>2. /\ b \in Payload
      /\ b.members = r.body.members /\ b.model = r.body.model /\ b.max = r.body.max
      /\ b.thinking = r.body.thinking /\ b.budget = r.body.budget /\ b.labels = r.body.labels
      /\ DOMAIN b.turns = DOMAIN r.body.turns
      /\ b = r.body \/ b.turns = MutateParts(r.body.turns, Skipped)
      /\ \A i \in DOMAIN r.body.turns : r.body.turns[i] # <<>> => b.turns[i] # <<>>
  BY <1>1, SanitizeKeeps
<1>3. s.path = r.path /\ s.query = r.query /\ s.body = b /\ s \in Request
  BY <1>1, <1>2 DEF Request
<1>4. Nested(b) = Nested(r.body) /\ BodyModel(b) = BodyModel(r.body)
  BY <1>2 DEF Nested, Has, BodyModel
<1>5. b.turns = MutateParts(r.body.turns, Skipped) =>
        \A i \in DOMAIN b.turns : \A j \in DOMAIN b.turns[i] :
          ~b.turns[i][j].thought /\ (b.turns[i][j].call => b.turns[i][j].sig # "none")
  <2> SUFFICES ASSUME b.turns = MutateParts(r.body.turns, Skipped), NEW i \in DOMAIN b.turns,
                      NEW j \in DOMAIN b.turns[i]
               PROVE  /\ ~b.turns[i][j].thought
                      /\ b.turns[i][j].call => b.turns[i][j].sig # "none"
    OBVIOUS
  <2>1. r.body.turns \in Seq(Seq(Part))
    BY <1>1 DEF Payload
  <2>2. Visitor(Skipped)
    BY Visitors
  <2> HIDE DEF b
  <2>3. /\ r.body.turns[i] \in Seq(Part)
        /\ b.turns[i] = MutateTurn(r.body.turns[i], Skipped)
    BY <1>2, <2>1, <2>2, PartsMutated
  <2>4. /\ ~b.turns[i][j].thought
        /\ \/ b.turns[i][j] = Nothing
           \/ \E p \in Part : b.turns[i][j] = Skipped[p]
    BY <2>2, <2>3, TurnMutated
  <2>5. ~Nothing.call
    BY DEF Nothing
  <2> QED
    BY <2>4, <2>5, Visitors
<1>6. ASSUME NEW m \in Name, Asks(r, m), CategorizeModel(m) = "gemini"
      PROVE  Asks(s, m)
  <2> HIDE DEF b, s
  <2>1. AcceptedBy(r.body, m) => AcceptedBy(b, m)
    BY <1>2, <1>5, <1>6 DEF AcceptedBy
  <2> QED
    BY <1>3, <1>4, <1>6, <2>1 DEF Asks
<1> HIDE DEF s, b
<1>7. Of(s, o)
  BY <1>2, <1>3 DEF Of
<1> QED
  BY <1>6, <1>7 DEF s

\* The request as it comes.
LEMMA InitInv == Init => IInv
<1> SUFFICES ASSUME Init PROVE IInv
  OBVIOUS
<1>1. orig \in Request
  BY RewriterAssumption DEF Init, Request
<1>2. Taken /\ Unchanged
  BY DEF Init, Taken, Unchanged
<1> QED
  BY <1>1, <1>2 DEF Init, IInv, Of, SanitizedOnce

\* The steps that rewrite, or restore: what is sent.
LEMMA RewritingStep ==
  ASSUME IInv, ForcePrimary \/ Predict \/ Fallback \/ Rotate
  PROVE  /\ primary' \in Name /\ secondary' \in Name
         /\ orig' \in Request /\ Of(cur', orig')
         /\ target' # None => target' \in Name /\ model' = target' /\ Asks(cur', target')
         /\ Unchanged' /\ SanitizedOnce'
<1> DEFINE Goal == /\ primary' \in Name /\ secondary' \in Name
                   /\ orig' \in Request /\ Of(cur', orig')
                   /\ target' # None => /\ target' \in Name /\ model' = target'
                                        /\ Asks(cur', target')
                   /\ Unchanged' /\ SanitizedOnce'
<1> SUFFICES Goal
  OBVIOUS
<1> USE DEF IInv
<1>1. ASSUME NEW r, Of(r, orig), NEW m \in Name, RewritesTo(r, m),
             UNCHANGED <<primary, secondary, orig>>
      PROVE  Goal
  <2>1. Of(Rewritten(r, m), orig) /\ Asks(Rewritten(r, m), m)
    BY <1>1, RequestRewritten
  <2>2. cur' = Rewritten(r, m) /\ target' = m /\ model' = m /\ sanitized' = FALSE
    BY <1>1 DEF RewritesTo
  <2>3. Of(cur', orig') /\ Asks(cur', target')
    BY <1>1, <2>1, <2>2
  <2>4. target' # None
    BY <2>2, RewriterAssumption
  <2> QED
    BY <1>1, <2>2, <2>3, <2>4 DEF SanitizedOnce, Unchanged
<1>2. ASSUME UNCHANGED <<cur, target, sanitized, model, primary, secondary, orig>>
      PROVE  Goal
  BY <1>2 DEF Of, Asks, SanitizedOnce, Unchanged
<1>3. ASSUME Restores, UNCHANGED <<primary, secondary, orig>>
      PROVE  Goal
  <2>1. Of(orig, orig)
    BY DEF Of
  <2> QED
    BY <1>3, <2>1 DEF Restores, SanitizedOnce, Unchanged
<1>4. Of(orig, orig)
  BY DEF Of
<1> HIDE DEF Goal
<1>5. CASE ForcePrimary
  BY <1>1, <1>2, <1>5 DEF ForcePrimary
<1>6. CASE Predict
  BY <1>1, <1>2, <1>6 DEF Predict
<1>7. CASE Fallback
  BY <1>1, <1>4, <1>7 DEF Fallback
<1>8. CASE Rotate
  BY <1>1, <1>3, <1>4, <1>8 DEF Rotate
<1> QED
  BY <1>5, <1>6, <1>7, <1>8

\* ... and what it is taken for.
LEMMA TakingStep ==
  ASSUME IInv, ForcePrimary \/ Predict \/ Fallback \/ Rotate
  PROVE  Taken'
<1> DEFINE asked == ExtractModelFromRequest(orig)
<1>1. /\ pc \in {"force", "predict", "loop"}
      /\ origModel = IF Forced /\ pc # "force" THEN primary ELSE asked
      /\ target = None => model = origModel /\ ~(Forced /\ pc = "predict")
      /\ target # None => asked # None
      /\ primary \in Name /\ secondary \in Name
  BY DEF IInv, Taken
<1>2. Forced <=> asked \notin {None, primary, secondary}
  BY DEF Forced
<1>3. primary' = primary /\ secondary' = secondary /\ orig' = orig
  BY DEF ForcePrimary, Predict, Fallback, Rotate
<1>4. asked' = asked /\ (Forced' <=> Forced)
  BY <1>3 DEF Forced
<1>5. Taken' <=>
        /\ pc' \in {"force", "predict", "loop"}
        /\ origModel' = IF Forced /\ pc' # "force" THEN primary ELSE asked
        /\ target' = None => model' = origModel' /\ ~(Forced /\ pc' = "predict")
        /\ target' # None => asked # None
  BY <1>3, <1>4 DEF Taken
<1>6. ExtractModelFromRequest(cur) # None => asked # None
  BY Unnamed DEF IInv
<1>7. None \notin Name
  BY RewriterAssumption
<1> HIDE DEF asked
<1>8. CASE ForcePrimary
  BY <1>1, <1>2, <1>5, <1>7, <1>8 DEF ForcePrimary, RewritesTo
<1>9. CASE Predict
  BY <1>1, <1>2, <1>5, <1>6, <1>7, <1>9 DEF Predict, RewritesTo
<1>10. CASE Fallback
  BY <1>1, <1>2, <1>5, <1>7, <1>10 DEF Fallback, RewritesTo
<1>11. CASE Rotate
  BY <1>1, <1>2, <1>5, <1>7, <1>11 DEF Rotate, RewritesTo, Restores
<1> QED
  BY <1>8, <1>9, <1>10, <1>11

\* The step that sanitizes.
LEMMA SanitizingStep ==
  ASSUME IInv, Sanitize
  PROVE  IInv'
<1> DEFINE s == [cur EXCEPT !.body = SanitizeGeminiSignatures(@)]
<1>1. /\ cur' = s /\ sanitized'
      /\ model # None /\ CategorizeModel(model) = "gemini"
      /\ UNCHANGED <<primary, secondary, orig, model, target, origModel, pc>>
  BY DEF Sanitize
<1>2. orig \in Request /\ Of(cur, orig)
  BY DEF IInv
<1>3. /\ Of(s, orig)
      /\ \A m \in Name : Asks(cur, m) /\ CategorizeModel(m) = "gemini" => Asks(s, m)
  BY <1>2, RequestSanitized
<1>4. cur.body \in Payload /\ s.body = SanitizeGeminiSignatures(cur.body)
  BY <1>2 DEF Of, Request
<1>5. SanitizeGeminiSignatures(s.body) = s.body
  BY <1>4, SanitizeTwice
<1> HIDE DEF s
<1>6. Of(cur', orig') /\ SanitizedOnce'
  BY <1>1, <1>3, <1>5 DEF SanitizedOnce
<1>7. target' # None => target' \in Name /\ model' = target' /\ Asks(cur', target')
  BY <1>1, <1>3 DEF IInv
<1>8. Taken'
  BY <1>1 DEF IInv, Taken, Forced
<1>9. Unchanged'
  <2> SUFFICES ASSUME target = None
               PROVE  cur' = [orig EXCEPT !.body = SanitizeGeminiSignatures(@)]
    BY <1>1 DEF Unchanged
  <2>1. CASE cur = orig
    BY <1>1, <2>1 DEF s
  <2>2. CASE cur = [orig EXCEPT !.body = SanitizeGeminiSignatures(@)]
    <3>1. orig.body \in Payload
      BY <1>2 DEF Request
    <3>2. SanitizeGeminiSignatures(cur.body) = cur.body
      BY <1>2, <2>2, <3>1, SanitizeTwice DEF Request
    <3> QED
      BY <3>2 DEF Sanitize
  <2> QED
    BY <2>1, <2>2 DEF IInv, Unchanged
<1> QED
  BY <1>1, <1>6, <1>7, <1>8, <1>9 DEF IInv

\* The invariant in every state.
LEMMA Inductive == Spec => []IInv
<1>1. IInv /\ [Next]_vars => IInv'
  <2> SUFFICES ASSUME IInv, [Next]_vars PROVE IInv'
    OBVIOUS
  <2>1. CASE UNCHANGED vars
    BY <2>1 DEF vars, IInv, Of, Asks, SanitizedOnce, Taken, Unchanged, Forced
  <2>2. CASE ForcePrimary \/ Predict \/ Fallback \/ Rotate
    BY <2>2, RewritingStep, TakingStep DEF IInv
  <2> QED
    BY <2>1, <2>2, SanitizingStep DEF Next
<1> QED
  BY <1>1, InitInv, PTL DEF Spec

\* Whatever of rewriting, restoring and sanitizing came before: what was rewritten for a
\* model is taken for it, asks for it wherever it names one, a nested request in the form
\* its family accepts, and no turn was emptied (ServeHTTP, RewriteModelInBody, the
\* adapters); the rest is what the client sent, taken for the model it names, but that a
\* rotation restores a request whose model was forced while taking it for the primary one:
\* for every registry of models, and bodies of any length.
THEOREM SentAsTaken == Spec => []SentForModel
<1>1. ASSUME IInv PROVE SentForModel
  <2>1. ASSUME target = None
        PROVE  /\ cur \in {orig, [orig EXCEPT !.body = SanitizeGeminiSignatures(@)]}
               /\ model = IF Forced /\ pc = "loop" THEN primary
                          ELSE ExtractModelFromRequest(orig)
    BY <1>1, <2>1 DEF IInv, Taken, Unchanged
  <2>2. ASSUME target # None
        PROVE  model = target /\ ExtractModelFromRequest(cur) = target
    BY <1>1, <2>2, Named DEF IInv, Taken
  <2> QED
    BY <1>1, <2>1, <2>2 DEF IInv, Asks, Of, SentForModel
<1> QED
  BY <1>1, Inductive, PTL

\* What SanitizeGeminiSignatures returned it returns unchanged: a request that was sanitized
\* and is refused again for its signatures is not sent a third time.
THEOREM SanitizingOnce == Spec => []SanitizedOnce
<1>1. IInv => SanitizedOnce
  BY DEF IInv
<1> QED
  BY <1>1, Inductive, PTL

\* What the scan finds in the body, however often it was rewritten, is the model of the root
\* object and no other, wherever in the object it stands; and so it is, or nothing, in any
\* beginning of that body.
THEOREM ScanFinds == Spec => []ScanFindsRootModel
<1>1. ASSUME IInv PROVE ScanFindsRootModel
  <2> DEFINE members == cur.body.members
             text    == Render(members)
  <2>1. members \in Seq(Member)
    BY <1>1 DEF IInv, Of, Request, Payload
  <2> HIDE DEF members
  <2>2. text \in Seq(Token) /\ FindModelValueBounds(text) = RootModel(members)
    BY <2>1, FindsRootModel
  <2> HIDE DEF text
  <2>3. ASSUME NEW n \in 0..Len(text), FindModelValueBounds(SubSeq(text, 1, n)).err = "none"
        PROVE  FindModelValueBounds(SubSeq(text, 1, n)) = RootModel(members)
    BY <2>2, <2>3, PrefixFinds
  <2> QED
    BY <2>2, <2>3 DEF ScanFindsRootModel, text, members
<1> QED
  BY <1>1, Inductive, PTL

=============================================================================
