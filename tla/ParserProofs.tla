---------------------------- MODULE ParserProofs ----------------------------
(***************************************************************************)
(* Proofs about the parser, for every source: its type invariant, that     *)
(* looking ahead never disturbs the sequence of the tokens, and that a     *)
(* source which is accepted has been read to its end with every bracket    *)
(* closed.                                                                 *)
(***************************************************************************)
EXTENDS Parser, CallStackProofs, TLAPS

-----------------------------------------------------------------------------
(* The tokens.                                                             *)

position == delivered - Len(bufferedTokens)
At(i) == IF i \in DOMAIN source THEN source[i] ELSE EndOfFile

\* The buffer holds the tokens between the current one and those the lexer has
\* still to deliver.
TokensOK ==
    /\ source \in Seq(Tokens)
    /\ delivered \in 0 .. Len(source) + 1
    /\ bufferedTokens \in Seq(Tokens \cup {EndOfFile})
    /\ Len(bufferedTokens) <= delivered
    /\ \A i \in 1 .. Len(bufferedTokens) : bufferedTokens[i] = At(position + i)
    /\ diagnostic \in {"none", "lexical", "syntax"}
    /\ current = IF failed THEN EndOfFile ELSE At(position)

LEMMA EndIsNoToken == EndOfFile \notin Tokens
BY DEF EndOfFile, Token, Tokens, Texted, Keywords, TypeKeywords, Operators, Marks

LEMMA AtOK ==
    ASSUME TokensOK
    PROVE  /\ \A i : At(i) \in Tokens \cup {EndOfFile}
           /\ \A i \in Int : At(i) = EndOfFile <=> i \notin 1 .. Len(source)
           /\ Lexed = At(delivered + 1)
           /\ position \in Nat /\ Len(bufferedTokens) \in Nat
           /\ Len(source) \in Nat /\ delivered \in Nat
<1>1. source \in Seq(Tokens) /\ Len(source) \in Nat /\ DOMAIN source = 1 .. Len(source)
  BY DEF TokensOK
<1>2. Len(bufferedTokens) \in Nat /\ delivered \in Nat /\ position \in Nat
  BY DEF TokensOK, position
<1>3. \A i \in 1 .. Len(source) : source[i] \in Tokens
  BY <1>1
<1>4. Lexed = At(delivered + 1)
  BY <1>1, <1>2 DEF Lexed, At
<1>5. QED
  BY <1>1, <1>2, <1>3, <1>4, EndIsNoToken DEF At

\* What an action may do to the tokens.
Unread == failed \/ delivered <= Len(source)
TokenMove ==
    \/ UNCHANGED tokenVars
    \/ advance
    \/ setDiagnostic("syntax")
    \/ peekToken /\ ~failed /\ Unread

streamVars == <<source, position, current, failed>>

\* It passes a token, gives up, or leaves the stream as it is; it never goes
\* back, and what it ends with is in order.
Moved ==
    /\ TokensOK'
    /\ source' = source
    /\ position' >= position
    /\ failed => failed'
    /\ [Stream!Next]_streamVars

LEMMA MovedNot ==
    ASSUME TokensOK, UNCHANGED tokenVars
    PROVE  Moved
<1>1. position \in Nat
  BY AtOK
<1>2. QED
  BY <1>1 DEF TokensOK, tokenVars, Moved, streamVars, position, At, failed

LEMMA MovedByFailing ==
    ASSUME TokensOK, NEW message \in {"lexical", "syntax"}, setDiagnostic(message)
    PROVE  Moved
<1>1. position \in Nat
  BY AtOK
<1>2. /\ UNCHANGED <<source, delivered, bufferedTokens>> /\ position' = position
      /\ \A i : At(i)' = At(i)
  BY DEF setDiagnostic, position, At
<1>3. CASE failed
  BY <1>1, <1>2, <1>3 DEF TokensOK, setDiagnostic, Moved, streamVars, failed
<1>4. CASE ~failed
  <2>1. failed' /\ diagnostic' \in {"none", "lexical", "syntax"} /\ current' = EndOfFile
    BY <1>4 DEF setDiagnostic, failed
  <2>2. TokensOK'
    BY <1>2, <2>1 DEF TokensOK
  <2>3. Stream!GiveUp
    BY <1>2, <2>1 DEF Stream!GiveUp, position
  <2>4. QED
    BY <1>1, <1>2, <1>4, <2>1, <2>2, <2>3 DEF Moved, Stream!Next
<1>5. QED
  BY <1>3, <1>4

LEMMA MovedByAdvance ==
    ASSUME TokensOK, advance
    PROVE  Moved
<1> DEFINE n == Len(bufferedTokens)
<1>1. /\ n \in Nat /\ position \in Nat /\ delivered \in Nat /\ Len(source) \in Nat
      /\ delivered = position + n /\ n <= delivered /\ delivered <= Len(source) + 1
      /\ bufferedTokens \in Seq(Tokens \cup {EndOfFile})
      /\ \A i : At(i) \in Tokens \cup {EndOfFile}
      /\ \A i \in Int : At(i) = EndOfFile <=> i \notin 1 .. Len(source)
      /\ Lexed = At(delivered + 1)
  BY AtOK DEF TokensOK, position
<1>2. CASE failed
  BY <1>2, MovedNot DEF advance
<1>3. CASE ~failed /\ bufferedTokens # <<>>
  <2>1. /\ current' = Head(bufferedTokens) /\ bufferedTokens' = Tail(bufferedTokens)
        /\ UNCHANGED <<source, delivered, diagnostic>>
    BY <1>3 DEF advance
  <2>2. n \in Nat \ {0} /\ Len(bufferedTokens') = n - 1 /\ position' = position + 1
        /\ bufferedTokens' \in Seq(Tokens \cup {EndOfFile})
    BY <1>1, <1>3, <2>1 DEF position
  <2>3. \A i : At(i)' = At(i)
    BY <2>1 DEF At
  <2>4. current' = At(position + 1)
    <3>1. Head(bufferedTokens) = bufferedTokens[1] /\ 1 \in 1 .. n
      BY <1>1, <1>3, <2>2
    <3>2. QED
      BY <2>1, <3>1 DEF TokensOK
  <2>5. ASSUME NEW i \in 1 .. n - 1 PROVE bufferedTokens'[i] = At(position' + i)
    <3>1. i + 1 \in 1 .. n /\ position' + i = position + (i + 1)
      BY <1>1, <2>2
    <3>2. bufferedTokens'[i] = bufferedTokens[i + 1]
      BY <1>1, <2>1, <2>2
    <3>3. QED
      BY <3>1, <3>2 DEF TokensOK
  <2>6. ~failed' /\ diagnostic' \in {"none", "lexical", "syntax"}
    BY <1>3, <2>1 DEF failed, TokensOK
  <2>7. TokensOK'
    <3>1. Len(bufferedTokens') <= delivered'
      BY <1>1, <2>1, <2>2
    <3>2. current' = At(position)'
      BY <2>2, <2>3, <2>4
    <3>3. \A i \in 1 .. Len(bufferedTokens') : bufferedTokens'[i] = At(position + i)'
      BY <2>2, <2>3, <2>5
    <3>4. source' \in Seq(Tokens) /\ delivered' \in 0 .. Len(source') + 1
      BY <2>1 DEF TokensOK
    <3>5. QED
      BY <2>2, <2>6, <3>1, <3>2, <3>3, <3>4 DEF TokensOK
  <2>8. Stream!Advance
    <3>1. position <= Len(source)
      BY <1>1, <2>2
    <3>2. current' = At(position + 1)
      BY <2>4
    <3>3. source' = source /\ failed' = failed
      BY <2>1 DEF failed
    <3>4. QED
      BY <1>3, <2>2, <3>1, <3>2, <3>3 DEF Stream!Advance, Stream!TokenAt, At, position
  <2>9. QED
    BY <1>1, <1>3, <2>1, <2>2, <2>7, <2>8 DEF Moved, Stream!Next
<1>4. CASE ~failed /\ bufferedTokens = <<>> /\ Lexed.type = "error"
  <2>1. setDiagnostic("lexical")
    BY <1>4 DEF advance
  <2>2. QED
    BY <2>1, MovedByFailing
<1>5. CASE ~failed /\ bufferedTokens = <<>> /\ Lexed.type # "error"
  <2>1. /\ current' = Lexed /\ Deliver
        /\ UNCHANGED <<source, bufferedTokens, diagnostic>>
    BY <1>5 DEF advance
  <2>2. n = 0 /\ position = delivered
    BY <1>1, <1>5
  <2>3. \A i : At(i)' = At(i)
    BY <2>1 DEF At
  <2>4. ~failed' /\ diagnostic' \in {"none", "lexical", "syntax"}
    BY <1>5, <2>1 DEF failed, TokensOK
  <2>5. current' = At(delivered + 1)
    BY <1>1, <2>1
  <2>6. CASE delivered <= Len(source)
    <3>1. delivered' = delivered + 1 /\ position' = position + 1
      BY <1>1, <2>1, <2>2, <2>6 DEF Deliver, position
    <3>2. TokensOK'
      <4>1. Len(bufferedTokens') = 0 /\ Len(bufferedTokens') <= delivered'
        BY <1>1, <2>1, <2>2, <3>1
      <4>2. current' = At(position)'
        BY <2>2, <2>3, <2>5, <3>1
      <4>3. source' \in Seq(Tokens) /\ delivered' \in 0 .. Len(source') + 1
        BY <1>1, <2>1, <2>6, <3>1 DEF TokensOK
      <4>4. bufferedTokens' \in Seq(Tokens \cup {EndOfFile})
        BY <1>1, <2>1
      <4>5. \A i \in 1 .. Len(bufferedTokens') : bufferedTokens'[i] = At(position + i)'
        BY <4>1
      <4>6. QED
        BY <2>4, <4>1, <4>2, <4>3, <4>4, <4>5 DEF TokensOK
    <3>3. Stream!Advance
      <4>1. position <= Len(source) /\ current' = At(position + 1)
        BY <2>2, <2>5, <2>6
      <4>2. source' = source /\ failed' = failed
        BY <2>1 DEF failed
      <4>3. QED
        BY <1>5, <3>1, <4>1, <4>2 DEF Stream!Advance, Stream!TokenAt, At, position
    <3>4. QED
      BY <1>1, <1>5, <2>1, <3>1, <3>2, <3>3 DEF Moved, Stream!Next
  <2>7. CASE delivered = Len(source) + 1
    <3>1. delivered' = delivered
      BY <1>1, <2>1, <2>7 DEF Deliver
    <3>2. current' = EndOfFile /\ current = EndOfFile
      <4>1. delivered + 1 \notin 1 .. Len(source) /\ delivered \notin 1 .. Len(source)
        BY <1>1, <2>7
      <4>2. At(delivered + 1) = EndOfFile /\ At(delivered) = EndOfFile
        BY <1>1, <4>1
      <4>3. current = At(delivered)
        BY <1>5, <2>2 DEF TokensOK
      <4>4. QED
        BY <2>5, <4>2, <4>3
    <3>3. UNCHANGED tokenVars
      BY <2>1, <3>1, <3>2 DEF tokenVars
    <3>4. QED
      BY <3>3, MovedNot
  <2>8. QED
    BY <1>1, <2>6, <2>7
<1>6. QED
  BY <1>2, <1>3, <1>4, <1>5

LEMMA MovedByPeeking ==
    ASSUME TokensOK, peekToken, ~failed, Unread
    PROVE  Moved
<1> DEFINE n == Len(bufferedTokens)
<1>1. /\ n \in Nat /\ position \in Nat /\ delivered \in Nat /\ Len(source) \in Nat
      /\ delivered = position + n /\ n <= delivered /\ delivered <= Len(source)
      /\ bufferedTokens \in Seq(Tokens \cup {EndOfFile})
      /\ \A i : At(i) \in Tokens \cup {EndOfFile}
      /\ Lexed = At(delivered + 1)
  BY AtOK DEF TokensOK, position, Unread
<1>2. CASE Lexed.type = "error"
  <2>1. setDiagnostic("lexical")
    BY <1>2 DEF peekToken
  <2>2. QED
    BY <2>1, MovedByFailing
<1>3. CASE Lexed.type # "error"
  <2>1. /\ bufferedTokens' = Append(bufferedTokens, Lexed) /\ delivered' = delivered + 1
        /\ UNCHANGED <<source, current, diagnostic>>
    BY <1>1, <1>3 DEF peekToken, Deliver
  <2>2. /\ bufferedTokens' \in Seq(Tokens \cup {EndOfFile})
        /\ Len(bufferedTokens') = n + 1
        /\ \A i \in 1 .. n : bufferedTokens'[i] = bufferedTokens[i]
        /\ bufferedTokens'[n + 1] = At(delivered + 1)
    <3>1. Lexed \in Tokens \cup {EndOfFile}
      BY <1>1
    <3>2. QED
      BY <1>1, <2>1, <3>1
  <2>3. position' = position /\ \A i : At(i)' = At(i)
    BY <1>1, <2>1, <2>2 DEF position, At
  <2>4. ASSUME NEW i \in 1 .. n + 1 PROVE bufferedTokens'[i] = At(position + i)
    <3>1. CASE i \in 1 .. n
      BY <2>2, <3>1 DEF TokensOK
    <3>2. CASE i = n + 1
      <4>1. position + i = delivered + 1
        BY <1>1, <3>2
      <4>2. QED
        BY <2>2, <3>2, <4>1
    <3>3. QED
      BY <1>1, <3>1, <3>2
  <2>5. TokensOK'
    <3>1. /\ source' \in Seq(Tokens) /\ delivered' \in 0 .. Len(source') + 1
          /\ Len(bufferedTokens') <= delivered'
          /\ diagnostic' \in {"none", "lexical", "syntax"}
      BY <1>1, <2>1, <2>2 DEF TokensOK
    <3>2. current' = IF failed' THEN EndOfFile ELSE At(position)'
      BY <2>1, <2>3 DEF TokensOK, failed
    <3>3. \A i \in 1 .. Len(bufferedTokens') : bufferedTokens'[i] = At(position + i)'
      BY <2>2, <2>3, <2>4
    <3>4. QED
      BY <2>2, <3>1, <3>2, <3>3 DEF TokensOK
  <2>6. QED
    BY <1>1, <2>1, <2>3, <2>5 DEF Moved, streamVars, failed
<1>4. QED
  BY <1>2, <1>3

LEMMA MoveMoves ==
    ASSUME TokensOK, TokenMove
    PROVE  Moved
BY MovedNot, MovedByFailing, MovedByAdvance, MovedByPeeking DEF TokenMove

-----------------------------------------------------------------------------
(* Nodes, names and activations.                                           *)

LEMMA NodesOK ==
    /\ \A k \in NodeKinds : N(k) \in Nodes
    /\ \A k \in NodeKinds, x \in Texts : Named(k, x) \in Nodes
    /\ \A k \in NodeKinds, x \in Seq(Texts) : [node |-> k, text |-> x] \in Nodes
<1>1. \A x \in Texts : <<x>> \in Seq(Texts)
  OBVIOUS
<1>2. <<>> \in Seq(Texts)
  OBVIOUS
<1>3. QED
  BY <1>1, <1>2 DEF N, Named, Nodes

\* The activations below the top one but for the one of parseProgram; any
\* number of them can be the top one.
PlainItems == {it \in Activations : it.task \notin {"start", "program", "genericCall"}}
FreeTasks == SimpleTasks \cup {"expect", "arrayType", "statements", "letName", "arguments", "primaryName"}

LEMMA ItemsOK ==
    /\ \A t \in SimpleTasks : Go(t) \in PlainItems
    /\ \A t \in FreeTasks, x \in Remembered : GoWith(t, x) \in PlainItems
    /\ \A t \in {"initializer", "initialized"}, x \in Texts : GoWith(t, x) \in PlainItems
    /\ \A t \in TokenTypes : expect(t) \in PlainItems
    /\ \A k \in NodeKinds : Build(k) \in PlainItems
<1>1. \A t \in Tasks, x \in Remembered :
          Item(t, x, <<>>, 0) \in [task : Tasks, text : Remembered,
                                   names : Seq(Names \cup {"separator", "call"}), start : Nat]
  <2>1. <<>> \in Seq(Names \cup {"separator", "call"})
    OBVIOUS
  <2>2. QED
    BY <2>1 DEF Item
<1>2. \A t, x : /\ Item(t, x, <<>>, 0).task = t /\ Item(t, x, <<>>, 0).text = x
                /\ Item(t, x, <<>>, 0).start = 0
  BY DEF Item
<1>3. ASSUME NEW t \in Tasks, NEW x \in Remembered,
             t \notin {"start", "program", "genericCall", "aliasTarget", "aliasEnd", "level",
                       "namespaceBody"},
             t = "build" => x \in NodeKinds,
             t \in {"initializer", "initialized"} => x \in Texts
      PROVE  Item(t, x, <<>>, 0) \in PlainItems
  BY <1>1, <1>2, <1>3 DEF PlainItems, Activations
<1>4. FreeTasks \subseteq Tasks /\ {"initializer", "initialized", "build"} \subseteq Tasks
  BY DEF FreeTasks, Tasks
<1>5. \A t \in FreeTasks : t \notin {"start", "program", "genericCall", "aliasTarget", "aliasEnd", "level",
                                     "namespaceBody", "build", "initializer", "initialized"}
  BY DEF FreeTasks, SimpleTasks
<1>6. /\ "" \in Remembered /\ Texts \subseteq Remembered
      /\ NodeKinds \subseteq Remembered /\ TokenTypes \subseteq Remembered
  BY DEF Remembered, Texts, Names
<1>7. \A t \in FreeTasks, x \in Remembered : GoWith(t, x) \in PlainItems
  BY <1>3, <1>4, <1>5 DEF GoWith
<1>8. \A t \in SimpleTasks : Go(t) \in PlainItems
  BY <1>3, <1>4, <1>5, <1>6 DEF Go, FreeTasks
<1>9. \A t \in {"initializer", "initialized"}, x \in Texts : GoWith(t, x) \in PlainItems
  BY <1>3, <1>4, <1>6 DEF GoWith
<1>10. \A t \in TokenTypes : expect(t) \in PlainItems
  BY <1>6, <1>7 DEF expect, FreeTasks
<1>11. \A k \in NodeKinds : Build(k) \in PlainItems
  BY <1>3, <1>4, <1>6 DEF Build, GoWith
<1>12. QED
  BY <1>7, <1>8, <1>9, <1>10, <1>11

\* What is known of the token the methods look at and of the last node.
LEMMA CurrentOK ==
    ASSUME TypeOK
    PROVE  /\ current.lexeme \in Names /\ current.lexeme \in Texts /\ current.lexeme \in Remembered
           /\ tree \in Seq(Nodes)
           /\ LastName \in Texts
<1>1. current.lexeme \in Names
  <2>1. CASE current \in Tokens
    BY <2>1 DEF Tokens, Names
  <2>2. CASE current = EndOfFile
    BY <2>2 DEF EndOfFile, Token, Names
  <2>3. QED
    BY <2>1, <2>2 DEF TypeOK
<1>2. Names \subseteq Texts /\ Texts \subseteq Remembered
  BY DEF Texts, Remembered
<1>3. tree \in Seq(Nodes)
  BY DEF TypeOK
<1>4. LastName \in Texts
  <2>1. CASE tree = <<>> \/ Last(tree).text = <<>>
    BY <1>2, <2>1 DEF LastName, Names
  <2>2. CASE tree # <<>> /\ Last(tree).text # <<>>
    <3>1. Last(tree) \in Nodes
      BY <1>3, <2>2 DEF Last
    <3>2. Last(tree).text \in Seq(Texts)
      BY <3>1 DEF Nodes
    <3>3. Last(Last(tree).text) \in Texts
      BY <2>2, <3>2 DEF Last
    <3>4. QED
      BY <2>2, <3>3 DEF LastName
  <2>3. QED
    BY <2>1, <2>2
<1>5. QED
  BY <1>1, <1>2, <1>3, <1>4

-----------------------------------------------------------------------------
(* What most actions do: a move of the tokens, and plain activations.      *)

RestOK ==
    /\ structTypeNames \subseteq Texts
    /\ \A a \in DOMAIN typeAliases : a \in Texts /\ typeAliases[a] \in Seq(Nodes)
    /\ currentNamespace \in Seq(Names)
    /\ tree \in Seq(Nodes)

Move == TokenMove /\ RestOK' /\ \E items \in Seq(PlainItems) : Then(items)

LEMMA RestKept ==
    ASSUME TypeOK, UNCHANGED nameVars, tree' \in Seq(Nodes)
    PROVE  RestOK'
BY DEF TypeOK, RestOK, nameVars

LEMMA TreeGrows ==
    ASSUME TypeOK, NEW nodes \in Seq(Nodes)
    PROVE  tree \o nodes \in Seq(Nodes)
BY DEF TypeOK

LEMMA StepMoves ==
    ASSUME TypeOK, NEW nodes \in Seq(Nodes), NEW items \in Seq(PlainItems), Step(nodes, items)
    PROVE  Move
BY TreeGrows, RestKept DEF Step, Move, TokenMove

LEMMA PassMoves ==
    ASSUME TypeOK, NEW nodes \in Seq(Nodes), NEW items \in Seq(PlainItems), Pass(nodes, items)
    PROVE  Move
BY TreeGrows, RestKept DEF Pass, Move, TokenMove

LEMMA FailMoves ==
    ASSUME TypeOK, NEW items \in Seq(PlainItems), FailAnd(items)
    PROVE  Move
BY RestKept DEF FailAnd, Move, TokenMove, TypeOK

LEMMA NoneAreSeqs ==
    <<>> \in Seq(PlainItems) /\ <<>> \in Seq(Nodes)
OBVIOUS

LEMMA FailTypeMoves ==
    ASSUME TypeOK, FailType
    PROVE  Move
<1>1. Type("unknown") \in Nodes
  <2>1. "unknown" \in Texts /\ "type" \in NodeKinds
    <3>1. TypeOf["var"] = "unknown" /\ "var" \in TypeKeywords
      BY DEF TypeOf, TypeKeywords
    <3>2. QED
      BY <3>1 DEF Texts, NodeKinds
  <2>2. QED
    BY <2>1, NodesOK DEF Type
<1>2. tree' \in Seq(Nodes)
  BY <1>1 DEF FailType, TypeOK
<1>3. QED
  BY <1>2, RestKept, NoneAreSeqs DEF FailType, Move, TokenMove

-----------------------------------------------------------------------------
(* One lemma for each method, or piece of one.                             *)

\* The sequences that are written down are sequences.
LEMMA OneInSeq ==
    ASSUME NEW S, NEW a \in S
    PROVE  <<a>> \in Seq(S)
OBVIOUS

LEMMA TwoInSeq ==
    ASSUME NEW S, NEW a \in S, NEW b \in S
    PROVE  <<a, b>> \in Seq(S)
OBVIOUS

LEMMA ThreeInSeq ==
    ASSUME NEW S, NEW a \in S, NEW b \in S, NEW c \in S
    PROVE  <<a, b, c>> \in Seq(S)
OBVIOUS

LEMMA FourInSeq ==
    ASSUME NEW S, NEW a \in S, NEW b \in S, NEW c \in S, NEW d \in S
    PROVE  <<a, b, c, d>> \in Seq(S)
OBVIOUS

LEMMA FiveInSeq ==
    ASSUME NEW S, NEW a \in S, NEW b \in S, NEW c \in S, NEW d \in S, NEW e \in S
    PROVE  <<a, b, c, d, e>> \in Seq(S)
OBVIOUS

LEMMA SixInSeq ==
    ASSUME NEW S, NEW a \in S, NEW b \in S, NEW c \in S, NEW d \in S, NEW e \in S, NEW f \in S
    PROVE  <<a, b, c, d, e, f>> \in Seq(S)
OBVIOUS

LEMMA SevenInSeq ==
    ASSUME NEW S, NEW a \in S, NEW b \in S, NEW c \in S, NEW d \in S, NEW e \in S, NEW f \in S,
           NEW g \in S
    PROVE  <<a, b, c, d, e, f, g>> \in Seq(S)
OBVIOUS

LEMMA EightInSeq ==
    ASSUME NEW S, NEW a \in S, NEW b \in S, NEW c \in S, NEW d \in S, NEW e \in S, NEW f \in S,
           NEW g \in S, NEW h \in S
    PROVE  <<a, b, c, d, e, f, g, h>> \in Seq(S)
OBVIOUS

LEMMA NineInSeq ==
    ASSUME NEW S, NEW a \in S, NEW b \in S, NEW c \in S, NEW d \in S, NEW e \in S, NEW f \in S,
           NEW g \in S, NEW h \in S, NEW i \in S
    PROVE  <<a, b, c, d, e, f, g, h, i>> \in Seq(S)
OBVIOUS

\* The words of the methods, one by one.
LEMMA GoOK ==
    /\ Go("afterDefault") \in PlainItems /\ Go("afterField") \in PlainItems
    /\ Go("afterName") \in PlainItems /\ Go("alias") \in PlainItems
    /\ Go("arraySize") \in PlainItems /\ Go("assignment") \in PlainItems
    /\ Go("block") \in PlainItems /\ Go("call") \in PlainItems /\ Go("cases") \in PlainItems
    /\ Go("else") \in PlainItems /\ Go("expression") \in PlainItems
    /\ Go("fail") \in PlainItems /\ Go("failType") \in PlainItems
    /\ Go("fieldName") \in PlainItems /\ Go("fieldRead") \in PlainItems
    /\ Go("fields") \in PlainItems /\ Go("forInitializer") \in PlainItems
    /\ Go("forUpdate") \in PlainItems /\ Go("functionName") \in PlainItems
    /\ Go("moreArguments") \in PlainItems /\ Go("moreFields") \in PlainItems
    /\ Go("moreParameters") \in PlainItems /\ Go("moreTypeParameters") \in PlainItems
    /\ Go("moreTypes") \in PlainItems /\ Go("namespaceName") \in PlainItems
    /\ Go("parameterName") \in PlainItems /\ Go("parameters") \in PlainItems
    /\ Go("primary") \in PlainItems /\ Go("qualified") \in PlainItems
    /\ Go("returnValue") \in PlainItems /\ Go("statement") \in PlainItems
    /\ Go("struct") \in PlainItems /\ Go("structField") \in PlainItems
    /\ Go("structLiteral") \in PlainItems /\ Go("type") \in PlainItems
    /\ Go("typeParameters") \in PlainItems /\ Go("unary") \in PlainItems
    /\ Go("varDecl") \in PlainItems
BY ItemsOK DEF SimpleTasks

LEMMA ExpectOK ==
    /\ expect("Identifier") \in PlainItems /\ expect("IntLiteral") \in PlainItems
    /\ expect("break") \in PlainItems /\ expect("cast") \in PlainItems
    /\ expect("continue") \in PlainItems /\ expect("for") \in PlainItems
    /\ expect("if") \in PlainItems /\ expect("namespace") \in PlainItems
    /\ expect("print") \in PlainItems /\ expect("return") \in PlainItems
    /\ expect("struct") \in PlainItems /\ expect("switch") \in PlainItems
    /\ expect("type") \in PlainItems /\ expect("while") \in PlainItems
    /\ expect("(") \in PlainItems /\ expect(")") \in PlainItems /\ expect(":") \in PlainItems
    /\ expect(";") \in PlainItems /\ expect("<") \in PlainItems /\ expect("=") \in PlainItems
    /\ expect(">") \in PlainItems /\ expect("]") \in PlainItems /\ expect("{") \in PlainItems
    /\ expect("}") \in PlainItems
<1>1. \A t \in {"Identifier", "IntLiteral", "break", "cast", "continue", "for", "if", "namespace", "print",
                "return", "struct", "switch", "type", "while", "(", ")", ":", ";", "<", "=", ">", "]", "{",
                "}"} : t \in TokenTypes
  BY DEF TokenTypes, Texted, Keywords, TypeKeywords, Operators, Marks
<1>2. QED
  BY <1>1, ItemsOK

LEMMA BuildOK ==
    /\ Build("arrayAssign") \in PlainItems /\ Build("arrayLiteral") \in PlainItems
    /\ Build("assign") \in PlainItems /\ Build("block") \in PlainItems
    /\ Build("break") \in PlainItems /\ Build("call") \in PlainItems
    /\ Build("case") \in PlainItems /\ Build("cast") \in PlainItems
    /\ Build("continue") \in PlainItems /\ Build("default") \in PlainItems
    /\ Build("exprStmt") \in PlainItems /\ Build("field") \in PlainItems
    /\ Build("fieldAssign") \in PlainItems /\ Build("for") \in PlainItems
    /\ Build("function") \in PlainItems /\ Build("ifElse") \in PlainItems
    /\ Build("index") \in PlainItems /\ Build("let") \in PlainItems
    /\ Build("list") \in PlainItems /\ Build("member") \in PlainItems
    /\ Build("print") \in PlainItems /\ Build("return") \in PlainItems
    /\ Build("structDecl") \in PlainItems /\ Build("structLiteral") \in PlainItems
    /\ Build("switch") \in PlainItems /\ Build("while") \in PlainItems
BY ItemsOK DEF NodeKinds

LEMMA NOK ==
    /\ N("aliasDecl") \in Nodes /\ N("array") \in Nodes /\ N("assign") \in Nodes
    /\ N("empty") \in Nodes /\ N("fieldAccess") \in Nodes /\ N("if") \in Nodes
    /\ N("list") \in Nodes /\ N("none") \in Nodes /\ N("program") \in Nodes
    /\ N("returnVoid") \in Nodes /\ N("variable") \in Nodes
BY NodesOK DEF NodeKinds

LEMMA ExpectedMoves ==
    ASSUME TypeOK, Expected \/ NotExpected
    PROVE  Move
<1>1. NodeOf(current) \in Seq(Nodes)
  <2>1. Named("name", current.lexeme) \in Nodes /\ Named("int", current.lexeme) \in Nodes
    BY CurrentOK, NodesOK DEF NodeKinds
  <2>2. QED
    BY <2>1 DEF NodeOf
<1>2. QED
  BY <1>1, NoneAreSeqs, PassMoves, FailMoves DEF Expected, NotExpected, Fail

LEMMA TopTyped ==
    ASSUME TypeOK, work # <<>>
    PROVE  /\ Top \in Activations
           /\ Top.task \notin {"start", "program", "genericCall"} => Top \in PlainItems
BY DEF TypeOK, Top, PlainItems

LEMMA BuiltMoves ==
    ASSUME TypeOK, Built
    PROVE  Move
<1>1. N(Top.text) \in Nodes
  BY TopTyped, NodesOK DEF Built, Running, Activations
<1>2. <<N(Top.text)>> \in Seq(Nodes)
  BY <1>1
<1>3. QED
  BY <1>2, NoneAreSeqs, StepMoves DEF Built

LEMMA FailsMoves ==
    ASSUME TypeOK, Fails
    PROVE  Move
BY NoneAreSeqs, FailMoves, FailTypeMoves DEF Fails, Fail

LEMMA ParseTypeMoves ==
    ASSUME TypeOK, parseType
    PROVE  Move
<1> DEFINE name == current.lexeme
<1>1. CASE checkAny(TypeKeywords)
  <2>1. TypeOf[current.type] \in Texts /\ TypeOf[current.type] \in Remembered
    BY <1>1 DEF checkAny, Texts, Remembered
  <2>2. Type(TypeOf[current.type]) \in Nodes /\ GoWith("arrayType", TypeOf[current.type]) \in PlainItems
    BY <2>1, NodesOK, ItemsOK DEF Type, NodeKinds, FreeTasks
  <2>3. /\ <<Type(TypeOf[current.type])>> \in Seq(Nodes)
        /\ <<GoWith("arrayType", TypeOf[current.type])>> \in Seq(PlainItems)
    BY <2>2
  <2>4. ~check("Identifier")
    BY <1>1 DEF check, checkAny, TypeKeywords
  <2>5. Pass(<<Type(TypeOf[current.type])>>, <<GoWith("arrayType", TypeOf[current.type])>>)
    BY <1>1, <2>4 DEF parseType
  <2>6. QED
    BY <2>3, <2>5, PassMoves
<1>2. CASE ~checkAny(TypeKeywords) /\ check("Identifier")
  <2>1. /\ Named("struct", name) \in Nodes /\ Named("generic", name) \in Nodes
        /\ GoWith("arrayType", "struct") \in PlainItems /\ GoWith("arrayType", "generic") \in PlainItems
    BY CurrentOK, NodesOK, ItemsOK DEF NodeKinds, FreeTasks, Remembered
  <2>2. IF name \in DOMAIN typeAliases
        THEN Pass(typeAliases[name], <<>>)
        ELSE IF name \in structTypeNames
        THEN Pass(<<Named("struct", name)>>, <<GoWith("arrayType", "struct")>>)
        ELSE Pass(<<Named("generic", name)>>, <<GoWith("arrayType", "generic")>>)
    BY <1>2 DEF parseType
  <2>3. name \in DOMAIN typeAliases => typeAliases[name] \in Seq(Nodes)
    BY DEF TypeOK
  <2>4. /\ <<Named("struct", name)>> \in Seq(Nodes) /\ <<Named("generic", name)>> \in Seq(Nodes)
        /\ <<GoWith("arrayType", "struct")>> \in Seq(PlainItems)
        /\ <<GoWith("arrayType", "generic")>> \in Seq(PlainItems)
    BY <2>1
  <2>5. QED
    BY <2>2, <2>3, <2>4, NoneAreSeqs, PassMoves
<1>3. CASE ~checkAny(TypeKeywords) /\ ~check("Identifier")
  BY <1>3, FailTypeMoves DEF parseType
<1>4. QED
  BY <1>1, <1>2, <1>3

LEMMA ArrayTypeMoves ==
    ASSUME TypeOK, ArrayType
    PROVE  Move
<1>1. <<Go("failType")>> \in Seq(PlainItems)
  BY GoOK
<1>2. <<expect("IntLiteral"), expect("]"), Go("arraySize")>> \in Seq(PlainItems)
  BY GoOK, ExpectOK, ThreeInSeq
<1>3. QED
  BY <1>1, <1>2, NoneAreSeqs, StepMoves, PassMoves DEF ArrayType

LEMMA ArraySizeMoves ==
    ASSUME TypeOK, ArraySize
    PROVE  Move
<1>1. <<N("array")>> \in Seq(Nodes)
  BY NOK
<1>2. QED
  BY <1>1, NoneAreSeqs, StepMoves, FailTypeMoves DEF ArraySize

LEMMA MoreMoves ==
    ASSUME TypeOK, NEW task, NEW items \in Seq(PlainItems), MoreOf(task, items)
    PROVE  Move
BY NoneAreSeqs, StepMoves, PassMoves DEF MoreOf

LEMMA WithOK ==
    /\ GoWith("statements", "block") \in PlainItems /\ GoWith("statements", "case") \in PlainItems
    /\ GoWith("letName", "let") \in PlainItems
    /\ GoWith("initializer", "let") \in PlainItems /\ GoWith("initializer", "mutable") \in PlainItems
    /\ GoWith("arguments", ")") \in PlainItems /\ GoWith("arguments", "]") \in PlainItems
    /\ GoWith("cases", "default") \in PlainItems
<1>1. /\ {"block", "case"} \subseteq Remembered /\ {"let", "mutable"} \subseteq Remembered
      /\ {")", "]"} \subseteq Remembered
  BY DEF Remembered, Texts, NodeKinds, TokenTypes, Marks
<1>2. QED
  BY <1>1, ItemsOK DEF FreeTasks, SimpleTasks, Remembered, Texts, NodeKinds

LEMMA ParseStructFieldsMoves ==
    ASSUME TypeOK, parseStructFields
    PROVE  Move
<1>1. <<type, Go("fieldName")>> \in Seq(PlainItems)
  BY GoOK, TwoInSeq DEF type
<1>2. QED
  BY <1>1, NoneAreSeqs, StepMoves DEF parseStructFields

LEMMA FieldNameMoves ==
    ASSUME TypeOK, FieldName
    PROVE  Move
<1>1. <<expect("Identifier"), expect(";"), Build("field"), Go("structField")>> \in Seq(PlainItems)
  BY GoOK, ExpectOK, BuildOK, FourInSeq
<1>2. QED
  BY <1>1, NoneAreSeqs, StepMoves, FailMoves DEF FieldName, Fail

LEMMA TypeParametersMoves ==
    ASSUME TypeOK, TypeParameters
    PROVE  Move
<1>1. <<expect("Identifier"), Go("moreTypeParameters"), expect(">")>> \in Seq(PlainItems)
  BY GoOK, ExpectOK, ThreeInSeq
<1>2. QED
  BY <1>1, NoneAreSeqs, StepMoves, PassMoves DEF TypeParameters

LEMMA ParseParametersMoves ==
    ASSUME TypeOK, parseParameters
    PROVE  Move
<1>1. <<type, Go("parameterName")>> \in Seq(PlainItems)
  BY GoOK, TwoInSeq DEF type
<1>2. <<N("list")>> \in Seq(Nodes)
  BY NOK
<1>3. QED
  BY <1>1, <1>2, NoneAreSeqs, StepMoves DEF parseParameters

LEMMA ParameterNameMoves ==
    ASSUME TypeOK, ParameterName
    PROVE  Move
<1>1. <<expect("Identifier"), Go("moreParameters")>> \in Seq(PlainItems)
  BY GoOK, ExpectOK, TwoInSeq
<1>2. QED
  BY <1>1, NoneAreSeqs, StepMoves, FailMoves DEF ParameterName, Fail

LEMMA ParseBlockMoves ==
    ASSUME TypeOK, parseBlock
    PROVE  Move
<1>1. <<expect("{"), GoWith("statements", "block"), expect("}"), Build("block")>> \in Seq(PlainItems)
  BY ExpectOK, BuildOK, WithOK, FourInSeq
<1>2. <<N("list")>> \in Seq(Nodes)
  BY NOK
<1>3. QED
  BY <1>1, <1>2, NoneAreSeqs, StepMoves DEF parseBlock

LEMMA StatementsMoves ==
    ASSUME TypeOK, Statements
    PROVE  Move
<1>1. Top \in PlainItems
  BY TopTyped DEF Statements, Running
<1>2. <<statement, Top>> \in Seq(PlainItems)
  BY <1>1, GoOK, TwoInSeq DEF statement
<1>3. QED
  BY <1>1, <1>2, NoneAreSeqs, StepMoves DEF Statements

LEMMA AfterFieldMoves ==
    ASSUME TypeOK, AfterField
    PROVE  Move
<1>1. /\ <<expression, expect("]"), expect("="), expression, Build("arrayAssign")>> \in Seq(PlainItems)
      /\ <<expect("="), expression, Build("fieldAssign")>> \in Seq(PlainItems)
  BY GoOK, ExpectOK, BuildOK, ThreeInSeq, FiveInSeq DEF expression
<1>2. <<N("fieldAccess")>> \in Seq(Nodes)
  BY NOK
<1>3. QED
  BY <1>1, <1>2, NoneAreSeqs, StepMoves, PassMoves DEF AfterField

LEMMA ElseMoves ==
    ASSUME TypeOK, Else
    PROVE  Move
<1>1. <<statement, Build("ifElse")>> \in Seq(PlainItems)
  BY GoOK, BuildOK, TwoInSeq DEF statement
<1>2. <<N("if")>> \in Seq(Nodes)
  BY NOK
<1>3. QED
  BY <1>1, <1>2, NoneAreSeqs, StepMoves, PassMoves DEF Else

LEMMA AfterNameMoves ==
    ASSUME TypeOK, AfterName
    PROVE  Move
<1>1. /\ <<Go("qualified"), Build("exprStmt")>> \in Seq(PlainItems)
      /\ <<Go("call"), Build("exprStmt")>> \in Seq(PlainItems)
  BY GoOK, BuildOK, TwoInSeq
<1>2. /\ <<expression, expect("]"), expect("="), expression, Build("arrayAssign")>> \in Seq(PlainItems)
      /\ <<expect("Identifier"), Go("afterField")>> \in Seq(PlainItems)
  BY GoOK, ExpectOK, BuildOK, TwoInSeq, FiveInSeq DEF expression
<1>3. <<Go("assignment")>> \in Seq(PlainItems)
  BY GoOK
<1>4. QED
  BY <1>1, <1>2, <1>3, NoneAreSeqs, StepMoves, PassMoves DEF AfterName

LEMMA MoreTypeParametersMoves ==
    ASSUME TypeOK, MoreTypeParameters
    PROVE  Move
<1>1. Top \in PlainItems
  BY TopTyped DEF MoreTypeParameters, MoreOf, Running
<1>2. <<expect("Identifier"), Top>> \in Seq(PlainItems)
  BY <1>1, ExpectOK, TwoInSeq
<1>3. QED
  BY <1>2, MoreMoves DEF MoreTypeParameters

LEMMA MoreParametersMoves ==
    ASSUME TypeOK, MoreParameters
    PROVE  Move
<1>1. <<type, Go("parameterName")>> \in Seq(PlainItems)
  BY GoOK, TwoInSeq DEF type
<1>2. QED
  BY <1>1, MoreMoves DEF MoreParameters

LEMMA MoreArgumentsMoves ==
    ASSUME TypeOK, MoreArguments
    PROVE  Move
<1>1. Top \in PlainItems
  BY TopTyped DEF MoreArguments, MoreOf, Running
<1>2. <<expression, Top>> \in Seq(PlainItems)
  BY <1>1, GoOK, TwoInSeq DEF expression
<1>3. QED
  BY <1>2, MoreMoves DEF MoreArguments

LEMMA MoreTypesMoves ==
    ASSUME TypeOK, MoreTypes
    PROVE  Move
<1>1. Top \in PlainItems
  BY TopTyped DEF MoreTypes, MoreOf, Running
<1>2. <<type, Top>> \in Seq(PlainItems)
  BY <1>1, GoOK, TwoInSeq DEF type
<1>3. QED
  BY <1>2, MoreMoves DEF MoreTypes

\* The lists of activations that have a name.
LEMMA ListsOK ==
    /\ functionRest \in Seq(PlainItems) /\ fieldValue \in Seq(PlainItems)
    /\ parseIfStatement \in Seq(PlainItems) /\ parseWhileStatement \in Seq(PlainItems)
    /\ parseForStatement \in Seq(PlainItems) /\ parseSwitchStatement \in Seq(PlainItems)
    /\ parsePrintStatement \in Seq(PlainItems)
    /\ parseIdentifierStatement \in Seq(PlainItems) /\ parseAssignmentStatement \in Seq(PlainItems)
<1>1. functionRest \in Seq(PlainItems)
  BY GoOK, ExpectOK, BuildOK, SixInSeq DEF functionRest
<1>2. fieldValue \in Seq(PlainItems)
  BY GoOK, ExpectOK, FourInSeq DEF fieldValue, expression
<1>3. parseIfStatement \in Seq(PlainItems)
  BY GoOK, ExpectOK, SixInSeq DEF parseIfStatement, expression, statement
<1>4. parseWhileStatement \in Seq(PlainItems)
  BY GoOK, ExpectOK, BuildOK, SixInSeq DEF parseWhileStatement, expression, statement
<1>5. parseForStatement \in Seq(PlainItems)
  <2> DEFINE a == expect("for")
             b == expect("(")
             c == Go("forInitializer")
             d == expect(";")
             e == Go("forUpdate")
             f == expect(")")
             g == Build("for")
  <2>1. a \in PlainItems /\ b \in PlainItems /\ c \in PlainItems /\ d \in PlainItems
    BY GoOK, ExpectOK
  <2>2. e \in PlainItems /\ f \in PlainItems /\ g \in PlainItems
    BY GoOK, ExpectOK, BuildOK
  <2>3. expression \in PlainItems /\ statement \in PlainItems
    BY GoOK DEF expression, statement
  <2>4. parseForStatement = <<a, b, c, d, expression, d, e, f, statement, g>>
    BY DEF parseForStatement
  <2> HIDE DEF a, b, c, d, e, f, g
  <2>5. <<a, b, c, d, expression, d, e, f, statement, g>> \in Seq(PlainItems)
    BY <2>1, <2>2, <2>3
  <2>6. QED
    BY <2>4, <2>5, Zenon
<1>6. parseSwitchStatement \in Seq(PlainItems)
  BY GoOK, ExpectOK, BuildOK, SevenInSeq DEF parseSwitchStatement, expression
<1>7. parsePrintStatement \in Seq(PlainItems)
  BY WithOK, ExpectOK, BuildOK, FiveInSeq DEF parsePrintStatement
<1>8. parseIdentifierStatement \in Seq(PlainItems) /\ parseAssignmentStatement \in Seq(PlainItems)
  BY GoOK, ExpectOK, TwoInSeq DEF parseIdentifierStatement, parseAssignmentStatement
<1>9. QED
  BY <1>1, <1>2, <1>3, <1>4, <1>5, <1>6, <1>7, <1>8

LEMMA ParseVarDeclStatementMoves ==
    ASSUME TypeOK, parseVarDeclStatement
    PROVE  Move
<1>1. /\ <<GoWith("letName", "let")>> \in Seq(PlainItems)
      /\ <<type, expect("Identifier"), GoWith("initializer", "mutable")>> \in Seq(PlainItems)
  BY GoOK, ExpectOK, WithOK, OneInSeq, ThreeInSeq DEF type
<1>2. QED
  BY <1>1, NoneAreSeqs, StepMoves, PassMoves DEF parseVarDeclStatement

LEMMA LetNameMoves ==
    ASSUME TypeOK, LetName
    PROVE  Move
<1>1. /\ <<expect("Identifier"), expect("="), expression, Build("let")>> \in Seq(PlainItems)
      /\ <<type, expect("Identifier"), GoWith("initializer", "let")>> \in Seq(PlainItems)
  BY GoOK, ExpectOK, BuildOK, WithOK, ThreeInSeq, FourInSeq DEF type, expression
<1>2. QED
  BY <1>1, NoneAreSeqs, StepMoves DEF LetName

LEMMA InitializerMoves ==
    ASSUME TypeOK, Initializer
    PROVE  Move
<1>1. Top.text \in Texts
  BY TopTyped DEF Initializer, Running, Activations
<1>2. GoWith("initialized", Top.text) \in PlainItems /\ Named("declare", Top.text) \in Nodes
  BY <1>1, ItemsOK, NodesOK DEF NodeKinds
<1>3. <<expression, GoWith("initialized", Top.text)>> \in Seq(PlainItems)
  BY <1>1, <1>2, GoOK, WithOK, TwoInSeq DEF expression
<1>4. <<Named("declare", Top.text)>> \in Seq(Nodes)
  BY <1>1, <1>2, NodesOK, CurrentOK DEF NodeKinds, Texts
<1>5. QED
  BY <1>1, <1>2, <1>3, <1>4, NoneAreSeqs, StepMoves, PassMoves DEF Initializer

LEMMA InitializedMoves ==
    ASSUME TypeOK, Initialized
    PROVE  Move
<1>1. Top.text \in Texts
  BY TopTyped DEF Initialized, Running, Activations
<1>2. Named("initialize", Top.text) \in Nodes
  BY <1>1, NodesOK DEF NodeKinds
<1>3. <<Named("initialize", Top.text)>> \in Seq(Nodes)
  BY <1>1, <1>2, NodesOK, CurrentOK DEF NodeKinds, Texts
<1>4. QED
  BY <1>1, <1>2, <1>3, NoneAreSeqs, StepMoves DEF Initialized


LEMMA AssignmentMoves ==
    ASSUME TypeOK, Assignment
    PROVE  Move
<1>1. /\ Named("name", LastName) \in Nodes /\ Named("int", "1") \in Nodes
      /\ N("variable") \in Nodes /\ N("assign") \in Nodes /\ N("+") \in Nodes /\ N("-") \in Nodes
      /\ Build("+") \in PlainItems /\ Build("-") \in PlainItems
  BY NodesOK, ItemsOK, CurrentOK DEF NodeKinds, Operators, Texts
<1>2. <<expression, Build("assign")>> \in Seq(PlainItems)
  BY GoOK, BuildOK, TwoInSeq DEF expression
<1>3. CASE checkAny({"+=", "-="})
  <2>1. OperatorOf[current.type] \in {"+", "-"}
    BY <1>3 DEF OperatorOf, checkAny
  <2>2. <<expression, Build(OperatorOf[current.type]), Build("assign")>> \in Seq(PlainItems)
    BY <1>1, <2>1, GoOK, BuildOK, ThreeInSeq DEF expression
  <2>3. <<Named("name", LastName), N("variable")>> \in Seq(Nodes)
    BY <1>1, TwoInSeq
  <2>4. Pass(<<Named("name", LastName), N("variable")>>,
             <<expression, Build(OperatorOf[current.type]), Build("assign")>>)
    BY <1>3 DEF Assignment, check, checkAny
  <2>5. QED
    BY <2>2, <2>3, <2>4, PassMoves
<1>4. CASE checkAny({"++", "--"})
  <2>1. OperatorOf[current.type] \in {"+", "-"}
    BY <1>4 DEF OperatorOf, checkAny
  <2>2. <<Named("name", LastName), N("variable"), Named("int", "1"),
          N(OperatorOf[current.type]), N("assign")>> \in Seq(Nodes)
    BY <1>1, <2>1, FiveInSeq
  <2>3. Pass(<<Named("name", LastName), N("variable"), Named("int", "1"),
               N(OperatorOf[current.type]), N("assign")>>, <<>>)
    BY <1>4 DEF Assignment, check, checkAny
  <2>4. QED
    BY <2>2, <2>3, NoneAreSeqs, PassMoves
<1>5. CASE ~checkAny({"+=", "-="}) /\ ~checkAny({"++", "--"})
  BY <1>2, <1>5, NoneAreSeqs, PassMoves, FailMoves DEF Assignment, Fail
<1>6. QED
  BY <1>3, <1>4, <1>5

LEMMA ParseForInitializerMoves ==
    ASSUME TypeOK, parseForInitializer
    PROVE  Move
<1>1. /\ <<Go("varDecl")>> \in Seq(PlainItems)
      /\ parseAssignmentStatement \in Seq(PlainItems)
  BY GoOK, ListsOK, OneInSeq
<1>2. <<N("none")>> \in Seq(Nodes)
  BY NOK
<1>3. QED
  BY <1>1, <1>2, NoneAreSeqs, StepMoves, FailMoves DEF parseForInitializer, Fail

LEMMA ParseForUpdateMoves ==
    ASSUME TypeOK, parseForUpdate
    PROVE  Move
<1>1. parseAssignmentStatement \in Seq(PlainItems)
  BY ListsOK
<1>2. <<N("none")>> \in Seq(Nodes)
  BY NOK
<1>3. QED
  BY <1>1, <1>2, NoneAreSeqs, StepMoves, FailMoves DEF parseForUpdate, Fail

LEMMA CasesMoves ==
    ASSUME TypeOK, Cases
    PROVE  Move
<1>1. Top \in PlainItems
  BY TopTyped DEF Cases, Running
<1>2. /\ <<expect("}"), Build("switch")>> \in Seq(PlainItems)
      /\ <<expect("IntLiteral"), expect(":"), Build("list"), GoWith("statements", "case"),
         Build("case"), Top>> \in Seq(PlainItems)
  BY <1>1, ExpectOK, BuildOK, WithOK, TwoInSeq, SixInSeq
<1>3. /\ <<expect(":"), Build("list"), GoWith("statements", "case"), Build("default"),
         Go("afterDefault")>> \in Seq(PlainItems)
      /\ <<Go("fail")>> \in Seq(PlainItems)
  BY <1>1, GoOK, ExpectOK, BuildOK, WithOK, OneInSeq, FiveInSeq
<1>4. QED
  BY <1>1, <1>2, <1>3, NoneAreSeqs, StepMoves, PassMoves, FailMoves DEF Cases, Fail

LEMMA AfterDefaultMoves ==
    ASSUME TypeOK, AfterDefault
    PROVE  Move
<1>1. <<GoWith("cases", "default")>> \in Seq(PlainItems)
  BY WithOK
<1>2. QED
  BY <1>1, NoneAreSeqs, StepMoves, FailMoves DEF AfterDefault, Fail

LEMMA ReturnValueMoves ==
    ASSUME TypeOK, ReturnValue
    PROVE  Move
<1>1. <<expression, Build("return")>> \in Seq(PlainItems)
  BY GoOK, BuildOK, TwoInSeq DEF expression
<1>2. <<N("returnVoid")>> \in Seq(Nodes)
  BY NOK
<1>3. QED
  BY <1>1, <1>2, NoneAreSeqs, StepMoves DEF ReturnValue

LEMMA ArgumentsMoves ==
    ASSUME TypeOK, Arguments
    PROVE  Move
<1>1. <<expression, Go("moreArguments")>> \in Seq(PlainItems)
  BY GoOK, TwoInSeq DEF expression
<1>2. <<N("list")>> \in Seq(Nodes)
  BY NOK
<1>3. QED
  BY <1>1, <1>2, NoneAreSeqs, StepMoves DEF Arguments

LEMMA FieldReadMoves ==
    ASSUME TypeOK, FieldRead
    PROVE  Move
<1>1. <<expression, expect("]"), Build("index")>> \in Seq(PlainItems)
  BY GoOK, ExpectOK, BuildOK, ThreeInSeq DEF expression
<1>2. <<N("fieldAccess")>> \in Seq(Nodes)
  BY NOK
<1>3. QED
  BY <1>1, <1>2, NoneAreSeqs, StepMoves, PassMoves DEF FieldRead

LEMMA ParseStructLiteralMoves ==
    ASSUME TypeOK, parseStructLiteral
    PROVE  Move
<1>1. <<expect("{"), Go("fields"), expect("}"), Build("structLiteral")>> \in Seq(PlainItems)
  BY GoOK, ExpectOK, BuildOK, FourInSeq
<1>2. QED
  BY <1>1, NoneAreSeqs, StepMoves DEF parseStructLiteral


LEMMA FieldsMoves ==
    ASSUME TypeOK, Fields \/ MoreFields
    PROVE  Move
BY ListsOK, NoneAreSeqs, StepMoves, MoreMoves DEF Fields, MoreFields

\* The activations of a level are those of the levels behind it.
LEMMA LevelOK ==
    ASSUME NEW k \in 1 .. Unary
    PROVE  Level(k) \in Seq(PlainItems)
<1>1. Unary = 11 /\ DOMAIN Levels = 1 .. 10
  BY DEF Unary, Levels
<1>2. ASSUME NEW i \in 1 .. Unary - k PROVE Item("level", "", <<>>, Unary - i) \in PlainItems
  <2> DEFINE s  == Unary - i
             it == Item("level", "", <<>>, s)
  <2>1. s \in 1 .. 10 /\ s \in Nat
    BY <1>1
  <2>2. "level" \in Tasks /\ "" \in Remembered
    BY DEF Tasks, Remembered, Texts, Names
  <2>3. <<>> \in Seq(Names \cup {"separator", "call"})
    OBVIOUS
  <2> HIDE DEF s
  <2>4. it \in [task : Tasks, text : Remembered, names : Seq(Names \cup {"separator", "call"}), start : Nat]
    BY <2>1, <2>2, <2>3 DEF Item
  <2>5. it.task = "level" /\ it.start \in DOMAIN Levels
    BY <1>1, <2>1 DEF Item
  <2> HIDE DEF it
  <2>6. it \in PlainItems
    BY <2>4, <2>5 DEF PlainItems, Activations
  <2>7. QED
    BY <2>6 DEF it, s
<1> DEFINE loops == [i \in 1 .. Unary - k |-> Item("level", "", <<>>, Unary - i)]
<1>3. loops \in Seq(PlainItems)
  <2>1. Unary - k \in Nat
    BY <1>1
  <2> DEFINE n == Unary - k
             f(i) == Item("level", "", <<>>, Unary - i)
  <2>2. n \in Nat /\ \A i \in 1 .. n : f(i) \in PlainItems
    BY <1>2, <2>1
  <2> HIDE DEF n, f
  <2>3. [i \in 1 .. n |-> f(i)] \in Seq(PlainItems)
    BY <2>2
  <2>4. QED
    BY <2>3 DEF n, f
<1>4. <<Go("unary")>> \in Seq(PlainItems)
  BY GoOK
<1> HIDE DEF loops
<1>5. <<Go("unary")>> \o loops \in Seq(PlainItems)
  BY <1>3, <1>4, ConcatElements
<1>6. QED
  BY <1>5 DEF Level, loops

LEMMA ParseExpressionMoves ==
    ASSUME TypeOK, parseExpression
    PROVE  Move
<1>1. Level(1) \in Seq(PlainItems)
  BY LevelOK DEF Unary, Levels
<1>2. QED
  BY <1>1, NoneAreSeqs, StepMoves DEF parseExpression

LEMMA ParseStatementMoves ==
    ASSUME TypeOK, parseStatement
    PROVE  Move
<1>1. <<N("empty")>> \in Seq(Nodes)
  BY NOK
<1>2. parseIdentifierStatement \o <<expect(";")>> \in Seq(PlainItems)
  BY ListsOK, ExpectOK, OneInSeq, ConcatElements
<1>3. parsePrintStatement \o <<expect(";")>> \in Seq(PlainItems)
  BY ListsOK, ExpectOK, OneInSeq, ConcatElements
<1>4. <<Go("varDecl"), expect(";")>> \in Seq(PlainItems) /\ <<Go("block")>> \in Seq(PlainItems)
  BY GoOK, ExpectOK, OneInSeq, TwoInSeq
<1>5. <<expect("return"), Go("returnValue"), expect(";")>> \in Seq(PlainItems)
  BY GoOK, ExpectOK, ThreeInSeq
<1>6. /\ <<expect("break"), Build("break"), expect(";")>> \in Seq(PlainItems)
      /\ <<expect("continue"), Build("continue"), expect(";")>> \in Seq(PlainItems)
  BY ExpectOK, BuildOK, ThreeInSeq
<1>7. /\ parseIfStatement \in Seq(PlainItems) /\ parseWhileStatement \in Seq(PlainItems)
      /\ parseForStatement \in Seq(PlainItems) /\ parseSwitchStatement \in Seq(PlainItems)
  BY ListsOK
<1>8. \/ \E nodes \in Seq(Nodes), items \in Seq(PlainItems) : Step(nodes, items) \/ Pass(nodes, items)
      \/ Fail
  BY <1>1, <1>2, <1>3, <1>4, <1>5, <1>6, <1>7, NoneAreSeqs DEF parseStatement
<1>9. QED
  BY <1>8, NoneAreSeqs, StepMoves, PassMoves, FailMoves DEF Fail

LEMMA BinaryLevelMoves ==
    ASSUME TypeOK, BinaryLevel
    PROVE  Move
<1> DEFINE level == Levels[Top.start]
           items == Level(level.operand) \o <<Build(current.type), Top>>
<1>1. Top \in PlainItems /\ Top.start \in 1 .. 10
  BY TopTyped DEF BinaryLevel, Running, Activations, Levels
<1>2. level.operand \in 1 .. Unary /\ level.operators \subseteq Operators
  BY <1>1 DEF Levels, Unary, Operators
<1>3. CASE checkAny(level.operators)
  <2>1. current.type \in NodeKinds
    BY <1>2, <1>3 DEF checkAny, NodeKinds
  <2>2. <<Build(current.type), Top>> \in Seq(PlainItems)
    BY <1>1, <2>1, ItemsOK, TwoInSeq
  <2>3. Level(level.operand) \in Seq(PlainItems)
    BY <1>2, LevelOK
  <2>4. items \in Seq(PlainItems)
    BY <2>2, <2>3, ConcatElements
  <2>5. Pass(<<>>, items)
    BY <1>3 DEF BinaryLevel
  <2> HIDE DEF items
  <2>6. QED
    BY <2>4, <2>5, NoneAreSeqs, PassMoves
<1>4. CASE ~checkAny(level.operators)
  <2>1. Step(<<>>, <<>>)
    BY <1>4 DEF BinaryLevel
  <2>2. QED
    BY <2>1, NoneAreSeqs, StepMoves
<1>5. QED
  BY <1>3, <1>4

LEMMA ParseUnaryMoves ==
    ASSUME TypeOK, parseUnary
    PROVE  Move
<1>1. <<expect("cast"), expect("<"), type, expect(">"), expect("("), expression,
        expect(")"), Build("cast")>> \in Seq(PlainItems)
  BY GoOK, ExpectOK, BuildOK, EightInSeq DEF type, expression
<1>2. <<Go("primary")>> \in Seq(PlainItems)
  BY GoOK, OneInSeq
<1>3. CASE checkAny(DOMAIN PrefixOperator)
  <2>1. PrefixOperator[current.type] \in NodeKinds /\ ~check("cast")
    BY <1>3 DEF checkAny, check, PrefixOperator, NodeKinds
  <2>2. <<Go("unary"), Build(PrefixOperator[current.type])>> \in Seq(PlainItems)
    BY <2>1, GoOK, ItemsOK, TwoInSeq
  <2>3. Pass(<<>>, <<Go("unary"), Build(PrefixOperator[current.type])>>)
    BY <1>3, <2>1 DEF parseUnary
  <2>4. QED
    BY <2>2, <2>3, NoneAreSeqs, PassMoves
<1>4. CASE ~checkAny(DOMAIN PrefixOperator)
  BY <1>1, <1>2, <1>4, NoneAreSeqs, StepMoves DEF parseUnary
<1>5. QED
  BY <1>3, <1>4

LEMMA ParsePrimaryMoves ==
    ASSUME TypeOK, parsePrimary
    PROVE  Move
<1> DEFINE lexeme == current.lexeme
<1>1. /\ <<GoWith("arguments", "]"), expect("]"), Build("arrayLiteral")>> \in Seq(PlainItems)
      /\ <<expression, expect(")")>> \in Seq(PlainItems)
  BY GoOK, WithOK, ExpectOK, BuildOK, TwoInSeq, ThreeInSeq DEF expression
<1>2. /\ Named("int", lexeme) \in Nodes /\ Named("float", lexeme) \in Nodes
      /\ Named("string", lexeme) \in Nodes /\ Named("name", lexeme) \in Nodes
  BY CurrentOK, NodesOK DEF NodeKinds
<1>3. /\ <<Named("int", lexeme)>> \in Seq(Nodes) /\ <<Named("float", lexeme)>> \in Seq(Nodes)
      /\ <<Named("string", lexeme)>> \in Seq(Nodes) /\ <<Named("name", lexeme)>> \in Seq(Nodes)
  BY <1>2, OneInSeq
<1>4. <<GoWith("primaryName", lexeme)>> \in Seq(PlainItems)
  <2>1. GoWith("primaryName", lexeme) \in PlainItems
    BY CurrentOK, ItemsOK DEF FreeTasks
  <2>2. QED
    BY <2>1, OneInSeq
<1>5. checkAny({"true", "false"}) => <<N(current.type)>> \in Seq(Nodes)
  BY NodesOK, OneInSeq DEF checkAny, NodeKinds
<1>6. \/ \E nodes \in Seq(Nodes), items \in Seq(PlainItems) : Pass(nodes, items)
      \/ Fail
  BY <1>1, <1>3, <1>4, <1>5, NoneAreSeqs DEF parsePrimary
<1>7. QED
  BY <1>6, NoneAreSeqs, PassMoves, FailMoves DEF Fail

LEMMA ParseCallExpressionMoves ==
    ASSUME TypeOK, parseCallExpression
    PROVE  Move
<1> DEFINE types == <<type, Go("moreTypes"), expect(">")>>
           rest  == <<expect("("), GoWith("arguments", ")"), expect(")"), Build("call")>>
<1>1. types \in Seq(PlainItems) /\ rest \in Seq(PlainItems)
  BY GoOK, WithOK, ExpectOK, BuildOK, ThreeInSeq, FourInSeq DEF type
<1>2. <<N("list")>> \in Seq(Nodes)
  BY NOK, OneInSeq
<1>3. Pass(<<N("list")>>, types \o rest) \/ Step(<<N("list")>>, rest)
  BY DEF parseCallExpression
<1> HIDE DEF types, rest
<1>4. types \o rest \in Seq(PlainItems)
  BY <1>1, ConcatElements
<1>5. QED
  BY <1>1, <1>2, <1>3, <1>4, StepMoves, PassMoves

LEMMA NamespaceNameMoves ==
    ASSUME TypeOK, NamespaceName
    PROVE  Move
<1> DEFINE body == Item("namespaceBody", "", currentNamespace, 0)
           name == IF check("Identifier") THEN current.lexeme ELSE ""
<1>1. TokenMove
  BY DEF NamespaceName, TokenMove
<1>2. RestOK'
  <2>1. currentNamespace \in Seq(Names) /\ name \in Names
    BY CurrentOK DEF TypeOK, Names
  <2>2. currentNamespace' = Append(currentNamespace, name)
    BY DEF NamespaceName
  <2> HIDE DEF name
  <2>3. currentNamespace' \in Seq(Names)
    BY <2>1, <2>2
  <2>4. UNCHANGED <<typeAliases, structTypeNames, tree>>
    BY DEF NamespaceName
  <2>5. QED
    BY <2>3, <2>4 DEF RestOK, TypeOK
<1>3. body \in PlainItems
  <2>1. currentNamespace \in Seq(Names) /\ currentNamespace \in Seq(Names \cup {"separator", "call"})
    BY DEF TypeOK
  <2>2. "namespaceBody" \in Tasks /\ "" \in Remembered
    BY DEF Tasks, Remembered, Texts, Names
  <2>3. body \in [task : Tasks, text : Remembered, names : Seq(Names \cup {"separator", "call"}), start : Nat]
    BY <2>1, <2>2 DEF Item
  <2>4. body.task = "namespaceBody" /\ body.names = currentNamespace
    BY DEF Item
  <2> HIDE DEF body
  <2>5. QED
    BY <2>1, <2>3, <2>4 DEF PlainItems, Activations
<1>4. <<expect("{"), body>> \in Seq(PlainItems)
  <2> HIDE DEF body
  <2>1. QED
    BY <1>3, ExpectOK, TwoInSeq
<1>5. Then(<<expect("{"), body>>)
  BY DEF NamespaceName
<1> HIDE DEF body
<1>6. QED
  BY <1>1, <1>2, <1>4, <1>5 DEF Move

LEMMA NamespaceBodyMoves ==
    ASSUME TypeOK, NamespaceBody
    PROVE  Move
<1>1. Top \in PlainItems /\ Top.names \in Seq(Names)
  BY TopTyped DEF NamespaceBody, Running, Activations
<1>2. CASE checkAny({"}", "EndOfFile"})
  <2>1. TokenMove
    BY <1>2 DEF NamespaceBody, TokenMove, check, checkAny
  <2>2. /\ currentNamespace' = Top.names /\ Then(<<>>)
        /\ UNCHANGED <<typeAliases, structTypeNames, tree>>
    BY <1>2 DEF NamespaceBody, check, checkAny
  <2>3. RestOK'
    BY <1>1, <2>2 DEF RestOK, TypeOK
  <2>4. QED
    BY <2>1, <2>2, <2>3, NoneAreSeqs DEF Move
<1>3. CASE ~checkAny({"}", "EndOfFile"})
  <2>1. <<expect("namespace"), Go("namespaceName"), Top>> \in Seq(PlainItems)
    BY <1>1, GoOK, ExpectOK, ThreeInSeq
  <2>2. <<type, Go("functionName"), Top>> \in Seq(PlainItems)
    BY <1>1, GoOK, ThreeInSeq DEF type
  <2>3. QED
    BY <1>3, <2>1, <2>2, NoneAreSeqs, StepMoves, FailMoves DEF NamespaceBody, Fail
<1>4. QED
  BY <1>2, <1>3

LEMMA ParseStructDeclMoves ==
    ASSUME TypeOK, parseStructDecl
    PROVE  Move
<1> DEFINE items == <<expect("{"), Go("structField"), expect("}"), Build("structDecl")>>
<1>1. CASE LastName \in structTypeNames
  BY <1>1, NoneAreSeqs, FailMoves DEF parseStructDecl, Fail
<1>2. CASE LastName \notin structTypeNames
  <2>1. /\ structTypeNames' = structTypeNames \cup {LastName}
        /\ tree' = Append(tree, N("list"))
        /\ Then(items)
        /\ UNCHANGED <<tokenVars, typeAliases, currentNamespace>>
    BY <1>2 DEF parseStructDecl
  <2>2. items \in Seq(PlainItems)
    BY GoOK, ExpectOK, BuildOK, FourInSeq
  <2>3. RestOK'
    <3>1. tree' \in Seq(Nodes)
      <4> DEFINE node == N("list")
      <4>1. tree \in Seq(Nodes)
        BY CurrentOK
      <4>2. node \in Nodes
        BY NOK
      <4>3. tree' = Append(tree, node)
        BY <2>1
      <4> HIDE DEF node
      <4>4. QED
        BY <4>1, <4>2, <4>3
    <3>2. structTypeNames' \subseteq Texts
      BY <2>1, CurrentOK DEF TypeOK
    <3>3. QED
      BY <2>1, <3>1, <3>2 DEF RestOK, TypeOK
  <2> HIDE DEF items
  <2>4. QED
    BY <2>1, <2>2, <2>3 DEF Move, TokenMove
<1>3. QED
  BY <1>1, <1>2

LEMMA ParseTypeAliasDeclMoves ==
    ASSUME TypeOK, parseTypeAliasDecl
    PROVE  Move
<1> DEFINE it == Item("aliasTarget", LastName, <<>>, Len(tree) + 1)
<1>1. it \in PlainItems
  <2> DEFINE n == Len(tree) + 1
  <2>1. n \in Nat /\ n > 0
    BY CurrentOK
  <2>2. LastName \in Texts /\ LastName \in Remembered /\ "aliasTarget" \in Tasks
    BY CurrentOK DEF Remembered, Tasks
  <2>3. <<>> \in Seq(Names \cup {"separator", "call"})
    OBVIOUS
  <2> HIDE DEF n
  <2>4. Item("aliasTarget", LastName, <<>>, n)
            \in [task : Tasks, text : Remembered, names : Seq(Names \cup {"separator", "call"}), start : Nat]
    BY <2>1, <2>2, <2>3 DEF Item
  <2>5. /\ Item("aliasTarget", LastName, <<>>, n).task = "aliasTarget"
        /\ Item("aliasTarget", LastName, <<>>, n).text = LastName
        /\ Item("aliasTarget", LastName, <<>>, n).start = n
    BY DEF Item
  <2>6. Item("aliasTarget", LastName, <<>>, n) \in PlainItems
    BY <2>1, <2>2, <2>4, <2>5 DEF PlainItems, Activations
  <2>7. QED
    BY <2>6 DEF n
<1>2. Fail \/ Step(<<>>, <<expect("="), type, it>>)
  BY DEF parseTypeAliasDecl
<1> HIDE DEF it
<1>3. <<expect("="), type, it>> \in Seq(PlainItems)
  BY <1>1, GoOK, ExpectOK, ThreeInSeq DEF type
<1>4. QED
  BY <1>2, <1>3, NoneAreSeqs, StepMoves, FailMoves DEF Fail

LEMMA AliasTargetMoves ==
    ASSUME TypeOK, AliasTarget
    PROVE  Move
<1> DEFINE it == [Top EXCEPT !.task = "aliasEnd"]
<1>1. it \in PlainItems
  <2>1. Top \in Activations /\ Top.task = "aliasTarget"
    BY TopTyped DEF AliasTarget, Running
  <2>2. /\ Top \in [task : Tasks, text : Remembered, names : Seq(Names \cup {"separator", "call"}), start : Nat]
        /\ Top.text \in Texts /\ Top.start > 0
    BY <2>1 DEF Activations
  <2>3. "aliasEnd" \in Tasks
    BY DEF Tasks
  <2>4. /\ it \in [task : Tasks, text : Remembered, names : Seq(Names \cup {"separator", "call"}), start : Nat]
        /\ it.task = "aliasEnd" /\ it.text = Top.text /\ it.start = Top.start
    BY <2>2, <2>3
  <2> HIDE DEF it
  <2>5. QED
    BY <2>2, <2>4 DEF PlainItems, Activations
<1>2. Fail \/ Step(<<>>, <<expect(";"), it>>)
  BY DEF AliasTarget
<1> HIDE DEF it
<1>3. <<expect(";"), it>> \in Seq(PlainItems)
  BY <1>1, ExpectOK, TwoInSeq
<1>4. QED
  BY <1>2, <1>3, NoneAreSeqs, StepMoves, FailMoves DEF Fail

LEMMA AliasEndMoves ==
    ASSUME TypeOK, AliasEnd
    PROVE  Move
<1>1. Top.text \in Texts /\ Top.start \in Nat /\ Top.start > 0
  BY TopTyped DEF AliasEnd, Running, Activations
<1>2. tree \in Seq(Nodes) /\ Len(tree) \in Nat
  BY CurrentOK
<1>3. SubSeq(tree, Top.start, Len(tree)) \in Seq(Nodes)
  <2> DEFINE s == Top.start
  <2>1. s \in Nat /\ s > 0
    BY <1>1
  <2> HIDE DEF s
  <2>2. SubSeq(tree, s, Len(tree)) \in Seq(Nodes)
    BY <1>2, <2>1
  <2>3. QED
    BY <2>2 DEF s
<1>4. /\ typeAliases' = [a \in DOMAIN typeAliases \cup {Top.text} |->
             IF a = Top.text THEN SubSeq(tree, Top.start, Len(tree)) ELSE typeAliases[a]]
      /\ tree' = Append(tree, N("aliasDecl")) /\ Then(<<>>)
      /\ UNCHANGED <<tokenVars, structTypeNames, currentNamespace>>
  BY DEF AliasEnd
<1>5. RestOK'
  <2>1. \A a \in DOMAIN typeAliases' : a \in Texts /\ typeAliases'[a] \in Seq(Nodes)
    BY <1>1, <1>3, <1>4 DEF TypeOK
  <2>2. tree' \in Seq(Nodes)
    BY <1>2, <1>4, NOK
  <2>3. QED
    BY <1>4, <2>1, <2>2 DEF RestOK, TypeOK
<1>6. QED
  BY <1>4, <1>5, NoneAreSeqs DEF Move, TokenMove

LEMMA ParseFunctionDeclMoves ==
    ASSUME TypeOK, parseFunctionDecl
    PROVE  Move
<1> DEFINE last == IF check("main") THEN "main" ELSE current.lexeme
           node == [node |-> "name", text |-> Append(currentNamespace, last)]
<1>1. node \in Nodes
  <2>1. last \in Texts
    BY CurrentOK DEF Texts
  <2>2. currentNamespace \in Seq(Texts)
    BY DEF TypeOK, Texts
  <2> HIDE DEF last
  <2>3. Append(currentNamespace, last) \in Seq(Texts)
    BY <2>1, <2>2
  <2>4. QED
    BY <2>3, NodesOK DEF NodeKinds
<1>2. Fail \/ FailAnd(functionRest) \/ Pass(<<node, N("list")>>, functionRest)
  BY DEF parseFunctionDecl
<1> HIDE DEF node
<1>3. <<node, N("list")>> \in Seq(Nodes)
  BY <1>1, NOK, TwoInSeq
<1>4. QED
  BY <1>2, <1>3, ListsOK, NoneAreSeqs, PassMoves, FailMoves DEF Fail

-----------------------------------------------------------------------------
(* The invariant.                                                          *)

\* parseProgram is at the bottom, and below it nothing; a look ahead for a
\* generic call is at the top.
StackOK ==
    /\ work # <<>> => work[1].task \in {"start", "program"}
    /\ \A i \in 1 .. Len(work) : work[i].task = "start" => Len(work) = 1
    /\ \A i \in 2 .. Len(work) : work[i].task # "program"
    /\ \A i \in 1 .. Len(work) - 1 : work[i].task # "genericCall"

\* A look ahead has not passed the end of the file.
SeenOK(n) ==
    ~failed => /\ current # EndOfFile
               /\ n <= Len(bufferedTokens)
               /\ \A j \in 1 .. n : bufferedTokens[j] # EndOfFile
Ahead == Running("genericCall") => SeenOK(Top.start)

\* A token has been read but for the start, and at the end there is none left.
Started == ~failed => IF Running("start") THEN delivered = 0 ELSE position >= 1
Ended   == work = <<>> => current = EndOfFile

PInv == TypeOK /\ TokensOK /\ StackOK /\ Ahead /\ Started /\ Ended

LEMMA TypedAfter ==
    ASSUME TokensOK', RestOK', work' \in Seq(Activations)
    PROVE  TypeOK'
<1>1. current' \in Tokens \cup {EndOfFile}
  BY DEF TokensOK, At
<1>2. QED
  BY <1>1 DEF TokensOK, RestOK, TypeOK

\* What a plain move does to the stack.
LEMMA StackAfter ==
    ASSUME PInv, work # <<>>, Top.task \notin {"start", "program"},
           NEW items \in Seq(PlainItems), Then(items)
    PROVE  /\ work' \in Seq(Activations)
           /\ work' # <<>>
           /\ work'[1].task = "program"
           /\ \A i \in 2 .. Len(work') : work'[i].task \notin {"start", "program"}
           /\ \A i \in 1 .. Len(work') : work'[i].task # "genericCall"
<1> DEFINE n == Len(work)  m == Len(work')  k == Len(items)
<1>1. work \in Seq(Activations) /\ n \in Nat \ {0} /\ k \in Nat
  BY DEF PInv, TypeOK
<1>2. items \in Seq(Activations) /\ \A j \in 1 .. k : items[j] \in PlainItems
  BY DEF PlainItems
<1>3. /\ work' \in Seq(Activations)
      /\ m = n - 1 + k
      /\ \A i \in 1 .. n - 1 : work'[i] = work[i]
      /\ \A i \in n .. m : work'[i] = items[k + n - i]
  <2>1. work \in Seq(Activations) /\ items \in Seq(Activations)
    BY <1>1, <1>2
  <2>2. /\ Replaced(work, items) \in Seq(Activations)
        /\ Len(Replaced(work, items)) = n - 1 + k
        /\ \A i \in 1 .. n - 1 : Replaced(work, items)[i] = work[i]
        /\ \A i \in n .. Len(Replaced(work, items)) : Replaced(work, items)[i] = items[k + n - i]
    BY <2>1, ReplacedProperties
  <2>3. work' = Replaced(work, items)
    BY DEF Then
  <2>4. QED
    BY <2>2, <2>3
<1>4. n > 1 /\ work[1].task = "program"
  <2>1. work[1].task \in {"start", "program"} /\ (work[1].task = "start" => n = 1)
    BY <1>1 DEF PInv, StackOK
  <2>2. n # 1
    BY <2>1 DEF Top
  <2>3. work[1].task = "program"
    BY <2>1, <2>2
  <2> HIDE DEF n
  <2>4. n > 1
    BY <1>1, <2>2
  <2>5. QED
    BY <2>3, <2>4
<1>5. \A i \in 1 .. n - 1 : work[i].task # "genericCall"
  BY DEF PInv, StackOK
<1>6. \A i \in 2 .. n - 1 : work[i].task \notin {"start", "program"}
  <2>1. SUFFICES ASSUME NEW i \in 2 .. n - 1 PROVE work[i].task \notin {"start", "program"}
    OBVIOUS
  <2> HIDE DEF n
  <2>2. i \in 1 .. n /\ i \in 2 .. n /\ n # 1
    BY <1>1, <1>4, <2>1
  <2> USE DEF n
  <2>3. QED
    BY <2>2 DEF PInv, StackOK
<1>7. \A i \in n .. m : work'[i].task \notin {"start", "program", "genericCall"}
  <2>1. SUFFICES ASSUME NEW i \in n .. m
                 PROVE  work'[i].task \notin {"start", "program", "genericCall"}
    OBVIOUS
  <2>2. k + n - i \in 1 .. k
    BY <1>1, <1>3, <2>1
  <2>3. work'[i] \in PlainItems
    BY <1>2, <1>3, <2>1, <2>2
  <2>4. QED
    BY <2>3 DEF PlainItems
<1>8. m \in Nat /\ m >= 1
  BY <1>1, <1>3, <1>4
<1>9. work'[1].task = "program" /\ 1 \in 1 .. n - 1
  BY <1>1, <1>3, <1>4
<1>10. \A i \in 2 .. m : i \in 2 .. n - 1 \/ i \in n .. m
  BY <1>1, <1>3
<1>11. \A i \in 1 .. m : i \in 1 .. n - 1 \/ i \in n .. m
  BY <1>1, <1>3
<1>12. \A i \in 2 .. m : work'[i].task \notin {"start", "program"}
  <2>1. \A i \in 2 .. n - 1 : work'[i] = work[i]
    BY <1>1, <1>3
  <2>2. QED
    BY <1>6, <1>7, <1>10, <2>1
<1>13. \A i \in 1 .. m : work'[i].task # "genericCall"
  BY <1>3, <1>5, <1>7, <1>11
<1>14. work' # <<>>
  BY <1>3, <1>8
<1>15. QED
  BY <1>3, <1>9, <1>12, <1>13, <1>14

\* A stack with nothing special on top of parseProgram.
LEMMA PlainStack ==
    ASSUME work' \in Seq(Activations), work' # <<>>, work'[1].task = "program",
           \A i \in 2 .. Len(work') : work'[i].task \notin {"start", "program"},
           \A i \in 1 .. Len(work') : work'[i].task # "genericCall"
    PROVE  StackOK' /\ Ahead' /\ Ended' /\ ~Running("start")'
<1>1. Len(work') \in Nat \ {0} /\ Len(work') \in 1 .. Len(work')
  OBVIOUS
<1>2. \A i \in 1 .. Len(work') : i = 1 \/ i \in 2 .. Len(work')
  BY <1>1
<1>3. \A i \in 1 .. Len(work') : work'[i].task # "start"
  BY <1>2
<1>4. \A i \in 1 .. Len(work') - 1 : work'[i].task # "genericCall"
  BY <1>1
<1>5. StackOK'
  BY <1>3, <1>4 DEF StackOK
<1>6. ~Running("genericCall")' /\ ~Running("start")'
  BY <1>1, <1>3 DEF Running, Top
<1>7. QED
  BY <1>5, <1>6 DEF Ahead, Ended

LEMMA MoveKeeps ==
    ASSUME PInv, work # <<>>, Top.task \notin {"start", "program"}, Move
    PROVE  PInv' /\ [Stream!Next]_streamVars
<1>1. Moved
  BY MoveMoves DEF Move, PInv
<1>2. PICK items \in Seq(PlainItems) : Then(items)
  BY DEF Move
<1>3. /\ work' \in Seq(Activations)
      /\ work' # <<>>
      /\ work'[1].task = "program"
      /\ \A i \in 2 .. Len(work') : work'[i].task \notin {"start", "program"}
      /\ \A i \in 1 .. Len(work') : work'[i].task # "genericCall"
  BY <1>2, StackAfter
<1>4. StackOK' /\ Ahead' /\ Ended' /\ ~Running("start")'
  BY <1>3, PlainStack
<1>5. TokensOK' /\ TypeOK'
  BY <1>1, <1>3, TypedAfter DEF Moved, Move
<1>6. Started'
  <2>1. position \in Nat /\ position' \in Nat
    BY AtOK, <1>5 DEF TokensOK, position, PInv
  <2>2. ~failed => position >= 1
    BY DEF PInv, Started, Running
  <2>3. (failed => failed') /\ position' >= position
    BY <1>1 DEF Moved
  <2>4. ~failed' => position' >= 1
    BY <2>1, <2>2, <2>3
  <2>5. QED
    BY <1>4, <2>4 DEF Started
<1>7. QED
  BY <1>1, <1>4, <1>5, <1>6 DEF PInv, Moved

\* The look ahead that is pushed, or goes on.
LEMMA LookingKeeps ==
    ASSUME PInv, work # <<>>, Top.task \notin {"start", "program"},
           NEW it \in Activations, it.task = "genericCall", SeenOK(it.start), Step(<<>>, <<it>>)
    PROVE  PInv' /\ [Stream!Next]_streamVars
<1> DEFINE n == Len(work)
<1>1. work \in Seq(Activations) /\ n \in Nat \ {0} /\ <<it>> \in Seq(Activations)
  BY DEF PInv, TypeOK
<1>2. UNCHANGED <<tokenVars, nameVars>> /\ tree' = tree \o <<>> /\ work' = Replaced(work, <<it>>)
  BY DEF Step, Then
<1>3. /\ work' \in Seq(Activations)
      /\ Len(work') = n
      /\ \A i \in 1 .. n - 1 : work'[i] = work[i]
      /\ work'[n] = it
  <2>1. /\ Replaced(work, <<it>>) \in Seq(Activations)
        /\ Len(Replaced(work, <<it>>)) = n - 1 + Len(<<it>>)
        /\ \A i \in 1 .. n - 1 : Replaced(work, <<it>>)[i] = work[i]
        /\ \A i \in n .. Len(Replaced(work, <<it>>)) :
               Replaced(work, <<it>>)[i] = <<it>>[Len(<<it>>) + n - i]
    <3> DEFINE items == <<it>>
    <3>1. work \in Seq(Activations) /\ work # <<>> /\ items \in Seq(Activations)
      BY <1>1
    <3> HIDE DEF items
    <3>2. /\ Replaced(work, items) \in Seq(Activations)
          /\ Len(Replaced(work, items)) = n - 1 + Len(items)
          /\ \A i \in 1 .. n - 1 : Replaced(work, items)[i] = work[i]
          /\ \A i \in n .. Len(Replaced(work, items)) :
                 Replaced(work, items)[i] = items[Len(items) + n - i]
      BY <3>1, ReplacedProperties
    <3>3. QED
      BY <3>2 DEF items
  <2>2. Len(<<it>>) = 1 /\ <<it>>[1] = it
    OBVIOUS
  <2>3. Len(work') = n
    BY <1>1, <1>2, <2>1, <2>2
  <2>4. work'[n] = <<it>>[1 + n - n]
    BY <1>1, <1>2, <2>1, <2>2, <2>3
  <2>5. QED
    BY <1>1, <1>2, <2>1, <2>2, <2>3, <2>4
<1>4. n > 1 /\ work[1].task = "program"
  <2>1. work[1].task \in {"start", "program"} /\ (work[1].task = "start" => n = 1)
    BY <1>1 DEF PInv, StackOK
  <2>2. n # 1
    BY <2>1 DEF Top
  <2>3. work[1].task = "program"
    BY <2>1, <2>2
  <2> HIDE DEF n
  <2>4. n > 1
    BY <1>1, <2>2
  <2>5. QED
    BY <2>3, <2>4
<1>5. /\ \A i \in 1 .. n : work[i].task # "start"
      /\ \A i \in 2 .. n : work[i].task # "program"
      /\ \A i \in 1 .. n - 1 : work[i].task # "genericCall"
  <2> HIDE DEF n
  <2>1. n # 1
    BY <1>1, <1>4
  <2> USE DEF n
  <2>2. QED
    BY <2>1 DEF PInv, StackOK
<1> HIDE DEF n
<1>6. work' # <<>> /\ \A i \in 1 .. n : i \in 1 .. n - 1 \/ i = n
  BY <1>1, <1>3, <1>4
<1>7. StackOK'
  <2>1. work'[1].task = "program"
    BY <1>1, <1>3, <1>4
  <2>2. \A i \in 1 .. n : work'[i].task # "start"
    BY <1>3, <1>5, <1>6
  <2>3. \A i \in 2 .. n : work'[i].task # "program"
    <3>1. \A i \in 2 .. n : i \in 1 .. n
      BY <1>1
    <3>2. QED
      BY <1>3, <1>5, <1>6, <3>1
  <2>4. \A i \in 1 .. n - 1 : work'[i].task # "genericCall"
    BY <1>3, <1>5
  <2>5. QED
    BY <1>3, <2>1, <2>2, <2>3, <2>4 DEF StackOK
<1>8. Moved
  BY <1>2, MovedNot DEF PInv
<1>9. Top' = it /\ SeenOK(it.start)'
  BY <1>2, <1>3 DEF Top, SeenOK, tokenVars, failed
<1>10. Ahead' /\ Ended' /\ ~Running("start")'
  BY <1>6, <1>9 DEF Ahead, Ended, Running
<1>11. tree \in Seq(Nodes) /\ tree \o <<>> \in Seq(Nodes)
  BY TreeGrows, NoneAreSeqs DEF PInv, TypeOK
<1>12. RestOK'
  BY <1>2, <1>11, RestKept DEF PInv
<1>13. TokensOK' /\ TypeOK'
  BY <1>3, <1>8, <1>12, TypedAfter DEF Moved
<1>14. Started'
  BY <1>2, <1>10 DEF PInv, Started, Running, tokenVars, failed, position
<1>15. QED
  BY <1>7, <1>8, <1>10, <1>13, <1>14 DEF PInv, Moved

\* A trip through the loop of peekToken.
LEMMA PeekKeeps ==
    ASSUME PInv, work # <<>>, Top.task \notin {"start", "program"},
           peekToken, ~failed, Unread, UNCHANGED <<nameVars, work, tree>>
    PROVE  PInv' /\ [Stream!Next]_streamVars
<1>1. Moved
  BY MovedByPeeking DEF PInv
<1>2. TokensOK' /\ TypeOK' /\ StackOK' /\ Ended' /\ ~Running("start")'
  <2>1. RestOK' /\ work' \in Seq(Activations)
    BY RestKept DEF PInv, TypeOK
  <2>2. TokensOK' /\ TypeOK'
    BY <1>1, <2>1, TypedAfter DEF Moved
  <2>3. StackOK' /\ Ended' /\ ~Running("start")'
    BY DEF PInv, StackOK, Ended, Running, Top
  <2>4. QED
    BY <2>2, <2>3
<1>3. Started'
  <2>1. position >= 1 /\ position' >= position /\ position \in Int /\ position' \in Int
    BY AtOK, <1>1, <1>2 DEF PInv, Started, Running, Moved, TokensOK, position
  <2>2. QED
    BY <1>2, <2>1 DEF Started
<1>4. Ahead'
  <2>1. SUFFICES ASSUME Running("genericCall") PROVE SeenOK(Top.start)'
    BY DEF Ahead, Running, Top
  <2>2. SeenOK(Top.start) /\ Top' = Top
    BY <2>1 DEF PInv, Ahead, Top
  <2>3. CASE Lexed.type = "error"
    BY <2>3 DEF peekToken, setDiagnostic, SeenOK, failed
  <2>4. CASE Lexed.type # "error"
    <3> DEFINE n == Top.start
    <3>1. bufferedTokens' = Append(bufferedTokens, Lexed) /\ UNCHANGED <<current, diagnostic>>
      BY <2>4 DEF peekToken
    <3>2. bufferedTokens \in Seq(Tokens \cup {EndOfFile}) /\ n \in Nat
      BY TopTyped DEF PInv, TypeOK, Activations
    <3>3. /\ current # EndOfFile
          /\ n <= Len(bufferedTokens)
          /\ \A j \in 1 .. n : bufferedTokens[j] # EndOfFile
      BY <2>2 DEF SeenOK
    <3> HIDE DEF n
    <3>4. n <= Len(bufferedTokens') /\ \A j \in 1 .. n : bufferedTokens'[j] = bufferedTokens[j]
      BY <3>1, <3>2, <3>3
    <3>5. /\ current' # EndOfFile
          /\ n <= Len(bufferedTokens')
          /\ \A j \in 1 .. n : bufferedTokens'[j] # EndOfFile
      BY <3>1, <3>3, <3>4
    <3> USE DEF n
    <3>6. QED
      BY <2>2, <3>5 DEF SeenOK
  <2>5. QED
    BY <2>3, <2>4
<1>5. QED
  BY <1>1, <1>2, <1>3, <1>4 DEF PInv, Moved

LEMMA TypeOfEnd == EndOfFile.type = "EndOfFile"
BY DEF EndOfFile, Token

LEMMA LookBehindLetKeeps ==
    ASSUME PInv, LookBehindLet
    PROVE  PInv' /\ [Stream!Next]_streamVars
<1>1. /\ work # <<>> /\ Top.task = "letName" /\ check("Identifier")
      /\ ~failed /\ ~(Len(bufferedTokens) >= 1) /\ peekToken
      /\ UNCHANGED <<nameVars, work, tree>>
  BY DEF LookBehindLet, Running, Peeked
<1>2. Unread
  <2>1. Len(bufferedTokens) = 0 /\ delivered = position /\ position \in Nat
    BY <1>1, AtOK DEF PInv, position
  <2>2. current = At(position) /\ current # EndOfFile
    <3>1. current.type = "Identifier"
      BY <1>1 DEF check
    <3>2. current # EndOfFile
      BY <3>1, TypeOfEnd
    <3>3. QED
      BY <1>1, <3>2 DEF PInv, TokensOK
  <2>3. position \in 1 .. Len(source)
    BY <2>1, <2>2, AtOK DEF PInv
  <2>4. QED
    BY <2>1, <2>3, AtOK DEF Unread, PInv
<1>3. QED
  BY <1>1, <1>2, PeekKeeps

LEMMA LookAheadKeeps ==
    ASSUME PInv, LookAhead
    PROVE  PInv' /\ [Stream!Next]_streamVars
<1> DEFINE n == Top.start
<1>1. /\ work # <<>> /\ Top.task = "genericCall"
      /\ ~failed /\ ~(Len(bufferedTokens) >= n + 1) /\ peekToken
      /\ UNCHANGED <<nameVars, work, tree>>
  BY DEF LookAhead, Running, Peeked
<1>2. Unread
  <2>1. /\ current # EndOfFile
        /\ n <= Len(bufferedTokens)
        /\ \A j \in 1 .. n : bufferedTokens[j] # EndOfFile
    BY <1>1 DEF PInv, Ahead, SeenOK, Running
  <2>2. n \in Nat
    BY <1>1, TopTyped DEF PInv, Activations
  <2> HIDE DEF n
  <2>3. Len(bufferedTokens) = n /\ delivered = position + n /\ position \in Nat
        /\ delivered \in Nat /\ Len(source) \in Nat
    BY <1>1, <2>1, <2>2, AtOK DEF PInv, position
  <2>4. At(delivered) # EndOfFile
    <3>1. CASE n = 0
      BY <1>1, <2>1, <2>3, <3>1 DEF PInv, TokensOK
    <3>2. CASE n # 0
      <4>1. n \in 1 .. n /\ n \in 1 .. Len(bufferedTokens)
        BY <2>2, <2>3, <3>2
      <4>2. QED
        BY <2>1, <2>3, <4>1 DEF PInv, TokensOK
    <3>3. QED
      BY <3>1, <3>2
  <2>5. delivered \in 1 .. Len(source)
    BY <2>3, <2>4, AtOK DEF PInv
  <2>6. QED
    BY <2>3, <2>5 DEF Unread
<1>3. QED
  BY <1>1, <1>2, PeekKeeps

LEMMA GenericCallOK ==
    \A x \in {"primary", "qualified"} :
        /\ GoWith("genericCall", x) \in Activations
        /\ GoWith("genericCall", x).task = "genericCall"
        /\ GoWith("genericCall", x).start = 0
<1>1. SUFFICES ASSUME NEW x \in {"primary", "qualified"}
               PROVE  /\ GoWith("genericCall", x) \in Activations
                      /\ GoWith("genericCall", x).task = "genericCall"
                      /\ GoWith("genericCall", x).start = 0
  OBVIOUS
<1>2. "genericCall" \in Tasks /\ x \in Remembered
  BY DEF Tasks, Remembered
<1>3. <<>> \in Seq(Names \cup {"separator", "call"})
  OBVIOUS
<1>4. GoWith("genericCall", x)
          \in [task : Tasks, text : Remembered, names : Seq(Names \cup {"separator", "call"}), start : Nat]
  BY <1>2, <1>3 DEF GoWith, Item
<1>5. GoWith("genericCall", x).task = "genericCall" /\ GoWith("genericCall", x).start = 0
  BY DEF GoWith, Item
<1>6. QED
  BY <1>4, <1>5 DEF Activations

\* A look ahead that has only seen the "<" it stands at.
LEMMA LookingStarts ==
    ASSUME PInv, work # <<>>, Top.task \notin {"start", "program"}, check("<"),
           NEW x \in {"primary", "qualified"}, Step(<<>>, <<GoWith("genericCall", x)>>)
    PROVE  PInv' /\ [Stream!Next]_streamVars
<1>1. current # EndOfFile
  <2>1. current.type = "<"
    BY DEF check
  <2>2. QED
    BY <2>1, TypeOfEnd
<1>2. SeenOK(0)
  BY <1>1, AtOK DEF SeenOK, PInv
<1>3. QED
  BY <1>2, GenericCallOK, LookingKeeps

LEMMA PrimaryNameKeeps ==
    ASSUME PInv, PrimaryName
    PROVE  PInv' /\ [Stream!Next]_streamVars
<1>1. TypeOK /\ work # <<>> /\ Top.task \notin {"start", "program"}
  BY DEF PInv, PrimaryName, Running
<1>2. CASE check("<") /\ Step(<<>>, <<GoWith("genericCall", "primary")>>)
  BY <1>1, <1>2, LookingStarts
<1>3. CASE \/ Step(<<N("list")>>, <<Go("structLiteral")>>)
           \/ Step(<<>>, <<Go("qualified")>>)
           \/ Step(<<>>, <<Go("call")>>)
           \/ Pass(<<>>, <<expression, expect("]"), Build("index")>>)
           \/ Pass(<<>>, <<expect("Identifier"), Go("fieldRead")>>)
           \/ Step(<<N("variable")>>, <<>>)
  <2>1. <<N("list")>> \in Seq(Nodes) /\ <<N("variable")>> \in Seq(Nodes)
    BY NOK, OneInSeq
  <2>2. /\ <<Go("structLiteral")>> \in Seq(PlainItems)
        /\ <<Go("qualified")>> \in Seq(PlainItems)
        /\ <<Go("call")>> \in Seq(PlainItems)
    BY GoOK, OneInSeq
  <2>3. <<expression, expect("]"), Build("index")>> \in Seq(PlainItems)
    BY GoOK, ExpectOK, BuildOK, ThreeInSeq DEF expression
  <2>4. <<expect("Identifier"), Go("fieldRead")>> \in Seq(PlainItems)
    BY GoOK, ExpectOK, TwoInSeq
  <2>5. \E nodes \in Seq(Nodes), items \in Seq(PlainItems) : Step(nodes, items) \/ Pass(nodes, items)
    BY <1>3, <2>1, <2>2, <2>3, <2>4, NoneAreSeqs
  <2>6. Move
    BY <1>1, <2>5, StepMoves, PassMoves
  <2>7. QED
    BY <1>1, <2>6, MoveKeeps
<1>4. QED
  BY <1>2, <1>3 DEF PrimaryName, check

LEMMA ParseQualifiedCallExpressionKeeps ==
    ASSUME PInv, parseQualifiedCallExpression
    PROVE  PInv' /\ [Stream!Next]_streamVars
<1>1. TypeOK /\ work # <<>> /\ Top.task = "qualified"
  BY DEF PInv, parseQualifiedCallExpression, Running
<1>2. CASE check("<") /\ Step(<<>>, <<GoWith("genericCall", "qualified")>>)
  BY <1>1, <1>2, LookingStarts
<1>3. CASE \/ Pass(<<>>, <<expect("Identifier"), Build("member"), Top>>)
           \/ Step(<<>>, <<Go("call")>>)
           \/ Fail
  <2>1. <<Go("call")>> \in Seq(PlainItems)
    BY GoOK, OneInSeq
  <2>2. <<expect("Identifier"), Build("member"), Top>> \in Seq(PlainItems)
    BY <1>1, ExpectOK, BuildOK, TopTyped, ThreeInSeq
  <2>3. Move
    BY <1>1, <1>3, <2>1, <2>2, NoneAreSeqs, StepMoves, PassMoves, FailMoves DEF Fail
  <2>4. QED
    BY <1>1, <2>3, MoveKeeps
<1>4. QED
  BY <1>2, <1>3 DEF parseQualifiedCallExpression, check

\* The look ahead goes on behind the token it has seen.
Seen(it, next) == [it EXCEPT !.start = @ + 1, !.names = next]

LEMMA OneSeen ==
    ASSUME NEW T, NEW X, NEW L, NEW it \in [task : T, text : X, names : L, start : Nat], NEW next \in L
    PROVE  /\ Seen(it, next) \in [task : T, text : X, names : L, start : Nat]
           /\ Seen(it, next).task = it.task
           /\ Seen(it, next).start = it.start + 1
<1> DEFINE n == it.start + 1
<1>1. n \in Nat
  OBVIOUS
<1>2. Seen(it, next) = [[it EXCEPT !.start = n] EXCEPT !.names = next]
  BY DEF Seen
<1> HIDE DEF n
<1> DEFINE moved == [it EXCEPT !.start = n]
<1>3. moved \in [task : T, text : X, names : L, start : Nat] /\ moved.task = it.task
  BY <1>1
<1>4. moved.start = n
  OBVIOUS
<1> HIDE DEF moved
<1>5. /\ [moved EXCEPT !.names = next] \in [task : T, text : X, names : L, start : Nat]
      /\ [moved EXCEPT !.names = next].task = moved.task
      /\ [moved EXCEPT !.names = next].start = moved.start
  BY <1>3
<1>6. QED
  BY <1>2, <1>3, <1>4, <1>5 DEF moved, n

LEMMA LooksGenericKeeps ==
    ASSUME PInv, LooksGeneric
    PROVE  PInv' /\ [Stream!Next]_streamVars
<1> DEFINE n == Top.start
           seen == PeekedType(n + 1)
           it(next) == Seen(Top, next)
<1>1. /\ TypeOK /\ work # <<>> /\ Top.task = "genericCall" /\ Peeked(n + 1)
      /\ Top \in Activations /\ n \in Nat
  BY TopTyped DEF PInv, LooksGeneric, Running, Activations
<1>2. CASE \/ Step(<<>>, <<Go("call")>>)
           \/ Step(<<N("variable")>>, <<>>)
           \/ Fail
  <2>1. <<Go("call")>> \in Seq(PlainItems) /\ <<N("variable")>> \in Seq(Nodes)
    BY GoOK, NOK, OneInSeq
  <2>2. Move
    BY <1>1, <1>2, <2>1, NoneAreSeqs, StepMoves, FailMoves DEF Fail
  <2>3. QED
    BY <1>1, <2>2, MoveKeeps
<1>3. ASSUME NEW next \in {<<"separator">>, <<>>, <<"call">>}, ~failed, seen # "EndOfFile",
             Step(<<>>, <<it(next)>>)
      PROVE  PInv' /\ [Stream!Next]_streamVars
  <2>1. it(next) \in Activations /\ it(next).task = "genericCall" /\ it(next).start = n + 1
    <3>1. next \in Seq(Names \cup {"separator", "call"})
      <4> DEFINE words == Names \cup {"separator", "call"}
      <4>1. "separator" \in words /\ "call" \in words
        OBVIOUS
      <4> HIDE DEF words
      <4>2. <<"separator">> \in Seq(words) /\ <<"call">> \in Seq(words) /\ <<>> \in Seq(words)
        BY <4>1, OneInSeq
      <4>3. next \in Seq(words)
        BY <1>3, <4>2
      <4> USE DEF words
      <4>4. QED
        BY <4>3
    <3>2. Top \in [task : Tasks, text : Remembered, names : Seq(Names \cup {"separator", "call"}), start : Nat]
      BY <1>1 DEF Activations
    <3>3. /\ it(next) \in [task : Tasks, text : Remembered, names : Seq(Names \cup {"separator", "call"}), start : Nat]
          /\ it(next).task = Top.task /\ it(next).start = Top.start + 1
      BY <3>1, <3>2, OneSeen
    <3>4. it(next).task = "genericCall" /\ it(next).start = n + 1
      BY <1>1, <3>3
    <3> HIDE DEF it, n
    <3>5. QED
      BY <3>3, <3>4 DEF Activations
  <2>2. SeenOK(n + 1)
    <3>1. SeenOK(n)
      BY <1>1 DEF PInv, Ahead, Running
    <3>2. Len(bufferedTokens) >= n + 1 /\ bufferedTokens \in Seq(Tokens \cup {EndOfFile})
      BY <1>1, <1>3 DEF Peeked, TypeOK
    <3>3. bufferedTokens[n + 1] # EndOfFile
      <4>1. seen = bufferedTokens[n + 1].type
        BY <1>1, <3>2 DEF PeekedType
      <4>2. QED
        BY <1>3, <4>1, TypeOfEnd
    <3> HIDE DEF n
    <3>4. \A j \in 1 .. n + 1 : j \in 1 .. n \/ j = n + 1
      BY <1>1
    <3>5. \A j \in 1 .. n + 1 : bufferedTokens[j] # EndOfFile
      BY <1>3, <3>1, <3>3, <3>4 DEF SeenOK
    <3>6. n + 1 <= Len(bufferedTokens)
      BY <1>1, <3>2
    <3>7. QED
      BY <1>3, <3>1, <3>5, <3>6 DEF SeenOK
  <2> HIDE DEF it
  <2>3. SeenOK(it(next).start)
    BY <2>1, <2>2
  <2>4. QED
    BY <1>1, <1>3, <2>1, <2>3, LookingKeeps
<1>4. \/ Step(<<>>, <<Go("call")>>)
      \/ Step(<<N("variable")>>, <<>>)
      \/ Fail
      \/ /\ ~failed /\ seen \in TypeTokens \cup {",", ">"}
         /\ \E next \in {<<"separator">>, <<>>, <<"call">>} : Step(<<>>, <<it(next)>>)
  BY DEF LooksGeneric, Seen
<1>5. "EndOfFile" \notin TypeTokens \cup {",", ">"}
  BY DEF TypeTokens, TypeKeywords
<1> HIDE DEF seen, it
<1>6. QED
  BY <1>2, <1>3, <1>4, <1>5

\* parseProgram reads declarations, and is over at the end of the file.
LEMMA ParseProgramKeeps ==
    ASSUME PInv, parseProgram
    PROVE  PInv' /\ [Stream!Next]_streamVars
<1>1. /\ work \in Seq(Activations) /\ work # <<>> /\ Top.task = "program" /\ Top \in Activations
      /\ TypeOK /\ TokensOK
  BY TopTyped DEF PInv, TypeOK, parseProgram, Running
<1>2. Len(work) = 1 /\ Top = work[1]
  <2>1. Len(work) \in Nat \ {0}
    BY <1>1
  <2>2. Len(work) \notin 2 .. Len(work)
    BY <1>1 DEF PInv, StackOK, Top
  <2> DEFINE n == Len(work)
  <2>3. n \in Nat \ {0} /\ n \notin 2 .. n
    BY <2>1, <2>2
  <2> HIDE DEF n
  <2>4. n = 1
    BY <2>3
  <2> USE DEF n
  <2>5. QED
    BY <2>4 DEF Top
<1>3. UNCHANGED <<tokenVars, nameVars>> /\ tree' \in {tree \o <<>>, tree \o <<N("program")>>}
  BY DEF parseProgram, Step
<1>4. TokensOK' /\ RestOK' /\ [Stream!Next]_streamVars
  <2>1. <<N("program")>> \in Seq(Nodes)
    BY NOK, OneInSeq
  <2>2. tree' \in Seq(Nodes)
    BY <1>1, <1>3, <2>1, TreeGrows, NoneAreSeqs
  <2>3. QED
    BY <1>1, <1>3, <2>2, RestKept, MovedNot DEF Moved
<1>5. ~failed => position >= 1
  BY <1>1 DEF PInv, Started, Running
<1>6. CASE check("EndOfFile") /\ Then(<<>>)
  <2>1. work' = <<>>
    <3>1. <<>> \in Seq(Activations)
      OBVIOUS
    <3>2. Replaced(work, <<>>) \in Seq(Activations) /\ Len(Replaced(work, <<>>)) = Len(work) - 1 + Len(<<>>)
      BY <1>1, <3>1, ReplacedProperties
    <3>3. Len(<<>>) = 0
      OBVIOUS
    <3>4. QED
      BY <1>2, <1>6, <3>2, <3>3 DEF Then
  <2>2. current = EndOfFile
    <3>1. \A t \in Tokens : t.type # "EndOfFile"
      BY DEF Tokens, Texted, Keywords, TypeKeywords, Operators, Marks
    <3>2. QED
      BY <1>1, <1>6, <3>1 DEF TypeOK, check
  <2>3. StackOK' /\ Ahead' /\ Ended' /\ ~Running("start")'
    <3>1. Len(work') = 0
      BY <2>1
    <3>2. QED
      BY <1>3, <2>1, <2>2, <3>1 DEF StackOK, Ahead, Ended, Running, tokenVars
  <2>4. work' \in Seq(Activations)
    BY <2>1
  <2>5. TypeOK'
    BY <1>4, <2>4, TypedAfter
  <2>6. Started'
    BY <1>3, <1>5, <2>3 DEF Started, tokenVars, failed, position
  <2>7. QED
    BY <1>4, <2>3, <2>5, <2>6 DEF PInv
<1>7. ASSUME NEW k \in Nat, NEW items \in Seq(Activations), Len(items) = k + 1, items[k + 1] = Top,
             \A j \in 1 .. k : items[j] \in PlainItems, Then(items)
      PROVE  PInv' /\ [Stream!Next]_streamVars
  <2>1. \A j \in 1 .. k : items[j].task \notin {"start", "program", "genericCall"}
    BY <1>7 DEF PlainItems
  <2>2. Len(items) = k + 1 /\ items[k + 1] = Top
    BY <1>7
  <2>3. /\ Replaced(work, items) \in Seq(Activations)
        /\ Len(Replaced(work, items)) = Len(work) - 1 + Len(items)
        /\ \A i \in Len(work) .. Len(Replaced(work, items)) :
               Replaced(work, items)[i] = items[Len(items) + Len(work) - i]
    <3>1. work \in Seq(Activations) /\ work # <<>>
      BY <1>1
    <3>2. QED
      BY <3>1, ReplacedProperties
  <2>4. work' = Replaced(work, items)
    BY <1>7 DEF Then
  <2>5. work' \in Seq(Activations) /\ Len(work') = k + 1
    BY <1>2, <2>1, <2>2, <2>3, <2>4
  <2>6. \A i \in 1 .. k + 1 : work'[i] = items[k + 2 - i]
    <3>1. SUFFICES ASSUME NEW i \in 1 .. k + 1 PROVE work'[i] = items[k + 2 - i]
      OBVIOUS
    <3>2. work'[i] = items[Len(items) + Len(work) - i]
      BY <1>2, <2>3, <2>4, <2>5
    <3>3. Len(items) + Len(work) - i = k + 2 - i
      BY <1>2, <2>1, <2>2
    <3>4. QED
      BY <3>2, <3>3
  <2>7. work'[1].task = "program" /\ work' # <<>>
    <3>1. 1 \in 1 .. k + 1 /\ k + 2 - 1 = k + 1
      BY <2>1
    <3>2. work'[1] = Top
      BY <2>2, <2>6, <3>1
    <3>3. QED
      BY <1>1, <2>1, <2>5, <3>2
  <2>8. \A i \in 2 .. k + 1 : work'[i].task \notin {"start", "program", "genericCall"}
    <3>1. SUFFICES ASSUME NEW i \in 2 .. k + 1
                   PROVE  work'[i].task \notin {"start", "program", "genericCall"}
      OBVIOUS
    <3>2. k + 2 - i \in 1 .. k /\ i \in 1 .. k + 1
      BY <2>1
    <3>3. QED
      BY <2>1, <2>2, <2>6, <3>2
  <2>9. \A i \in 1 .. k + 1 : work'[i].task # "genericCall"
    <3>1. \A i \in 1 .. k + 1 : i = 1 \/ i \in 2 .. k + 1
      BY <2>1
    <3>2. QED
      BY <2>7, <2>8, <3>1
  <2>10. StackOK' /\ Ahead' /\ Ended' /\ ~Running("start")'
    BY <2>5, <2>7, <2>8, <2>9, PlainStack
  <2>11. TypeOK'
    BY <1>4, <2>5, TypedAfter
  <2>12. Started'
    BY <1>3, <1>5, <2>10 DEF Started, tokenVars, failed, position
  <2>13. QED
    BY <1>4, <2>10, <2>11, <2>12 DEF PInv
<1>8. \/ check("EndOfFile") /\ Then(<<>>)
      \/ Then(<<expect("namespace"), Go("namespaceName"), Top>>)
      \/ Then(<<expect("struct"), expect("Identifier"), Go("struct"), Top>>)
      \/ Then(<<expect("type"), expect("Identifier"), Go("alias"), Top>>)
      \/ Then(<<type, Go("functionName"), Top>>)
  BY DEF parseProgram, Step, check
<1>9. CASE Then(<<expect("namespace"), Go("namespaceName"), Top>>)
  <2> DEFINE items == <<expect("namespace"), Go("namespaceName"), Top>>
  <2>1. /\ Len(items) = 2 + 1 /\ items[2 + 1] = Top
        /\ items[1] = expect("namespace")
        /\ items[2] = Go("namespaceName")
    OBVIOUS
  <2>2. expect("namespace") \in PlainItems /\ Go("namespaceName") \in PlainItems
    BY ExpectOK, GoOK DEF type
  <2>3. items \in Seq(Activations)
    BY <1>1, <2>2, ThreeInSeq DEF PlainItems
  <2> HIDE DEF items
  <2>4. \A j \in 1 .. 2 : items[j] \in PlainItems
    <3>1. \A j \in 1 .. 2 : j = 1 \/ j = 2
      OBVIOUS
    <3>2. QED
      BY <2>1, <2>2, <3>1
  <2>5. Then(items)
    BY <1>9 DEF items
  <2>6. QED
    BY <1>7, <2>1, <2>3, <2>4, <2>5
<1>10. CASE Then(<<expect("struct"), expect("Identifier"), Go("struct"), Top>>)
  <2> DEFINE items == <<expect("struct"), expect("Identifier"), Go("struct"), Top>>
  <2>1. /\ Len(items) = 3 + 1 /\ items[3 + 1] = Top
        /\ items[1] = expect("struct")
        /\ items[2] = expect("Identifier")
        /\ items[3] = Go("struct")
    OBVIOUS
  <2>2. expect("struct") \in PlainItems /\ expect("Identifier") \in PlainItems /\ Go("struct") \in PlainItems
    BY ExpectOK, GoOK DEF type
  <2>3. items \in Seq(Activations)
    BY <1>1, <2>2, FourInSeq DEF PlainItems
  <2> HIDE DEF items
  <2>4. \A j \in 1 .. 3 : items[j] \in PlainItems
    <3>1. \A j \in 1 .. 3 : j = 1 \/ j = 2 \/ j = 3
      OBVIOUS
    <3>2. QED
      BY <2>1, <2>2, <3>1
  <2>5. Then(items)
    BY <1>10 DEF items
  <2>6. QED
    BY <1>7, <2>1, <2>3, <2>4, <2>5
<1>11. CASE Then(<<expect("type"), expect("Identifier"), Go("alias"), Top>>)
  <2> DEFINE items == <<expect("type"), expect("Identifier"), Go("alias"), Top>>
  <2>1. /\ Len(items) = 3 + 1 /\ items[3 + 1] = Top
        /\ items[1] = expect("type")
        /\ items[2] = expect("Identifier")
        /\ items[3] = Go("alias")
    OBVIOUS
  <2>2. expect("type") \in PlainItems /\ expect("Identifier") \in PlainItems /\ Go("alias") \in PlainItems
    BY ExpectOK, GoOK DEF type
  <2>3. items \in Seq(Activations)
    BY <1>1, <2>2, FourInSeq DEF PlainItems
  <2> HIDE DEF items
  <2>4. \A j \in 1 .. 3 : items[j] \in PlainItems
    <3>1. \A j \in 1 .. 3 : j = 1 \/ j = 2 \/ j = 3
      OBVIOUS
    <3>2. QED
      BY <2>1, <2>2, <3>1
  <2>5. Then(items)
    BY <1>11 DEF items
  <2>6. QED
    BY <1>7, <2>1, <2>3, <2>4, <2>5
<1>12. CASE Then(<<type, Go("functionName"), Top>>)
  <2> DEFINE items == <<type, Go("functionName"), Top>>
  <2>1. /\ Len(items) = 2 + 1 /\ items[2 + 1] = Top
        /\ items[1] = type
        /\ items[2] = Go("functionName")
    OBVIOUS
  <2>2. type \in PlainItems /\ Go("functionName") \in PlainItems
    BY ExpectOK, GoOK DEF type
  <2>3. items \in Seq(Activations)
    BY <1>1, <2>2, ThreeInSeq DEF PlainItems
  <2> HIDE DEF items
  <2>4. \A j \in 1 .. 2 : items[j] \in PlainItems
    <3>1. \A j \in 1 .. 2 : j = 1 \/ j = 2
      OBVIOUS
    <3>2. QED
      BY <2>1, <2>2, <3>1
  <2>5. Then(items)
    BY <1>12 DEF items
  <2>6. QED
    BY <1>7, <2>1, <2>3, <2>4, <2>5
<1>13. QED
  BY <1>6, <1>8, <1>9, <1>10, <1>11, <1>12

LEMMA StartKeeps ==
    ASSUME PInv, Start
    PROVE  PInv' /\ [Stream!Next]_streamVars
<1>1. /\ work \in Seq(Activations) /\ work # <<>> /\ Top.task = "start"
      /\ TypeOK /\ TokensOK /\ advance /\ Then(<<Go("program")>>) /\ UNCHANGED nameVars
      /\ tree' = tree \o <<>>
  BY DEF PInv, TypeOK, Start, Running, Pass
<1>2. Len(work) = 1
  <2>1. Len(work) \in 1 .. Len(work)
    BY <1>1
  <2>2. QED
    BY <1>1, <2>1 DEF PInv, StackOK, Top
<1>3. Go("program") \in Activations /\ Go("program").task = "program"
  <2>1. "program" \in Tasks /\ "" \in Remembered
    BY DEF Tasks, Remembered, Texts, Names
  <2>2. <<>> \in Seq(Names \cup {"separator", "call"})
    OBVIOUS
  <2>3. Go("program")
            \in [task : Tasks, text : Remembered, names : Seq(Names \cup {"separator", "call"}), start : Nat]
    BY <2>1, <2>2 DEF Go, Item
  <2>4. Go("program").task = "program"
    BY DEF Go, Item
  <2>5. QED
    BY <2>3, <2>4 DEF Activations
<1>4. work' \in Seq(Activations) /\ Len(work') = 1 /\ work'[1] = Go("program")
  <2> DEFINE items == <<Go("program")>>
  <2>1. items \in Seq(Activations) /\ Len(items) = 1 /\ items[1] = Go("program")
    BY <1>3, OneInSeq
  <2>2. work' = Replaced(work, items) /\ work \in Seq(Activations) /\ work # <<>>
    BY <1>1 DEF Then
  <2> HIDE DEF items
  <2>3. /\ Replaced(work, items) \in Seq(Activations)
        /\ Len(Replaced(work, items)) = Len(work) - 1 + Len(items)
        /\ \A i \in Len(work) .. Len(Replaced(work, items)) :
               Replaced(work, items)[i] = items[Len(items) + Len(work) - i]
    <3>1. work \in Seq(Activations) /\ work # <<>> /\ items \in Seq(Activations)
      BY <2>1, <2>2
    <3>2. QED
      BY <3>1, ReplacedProperties, Zenon
  <2>4. work' \in Seq(Activations) /\ Len(work') = 1
    BY <1>2, <2>1, <2>2, <2>3
  <2>5. work'[1] = items[1 + 1 - 1]
    BY <1>2, <2>1, <2>2, <2>3, <2>4
  <2>6. QED
    BY <2>1, <2>4, <2>5
<1>5. StackOK' /\ Ahead' /\ Ended' /\ ~Running("start")'
  <2>1. work' # <<>> /\ work'[1].task = "program"
    <3>1. work' # <<>>
      <4>1. Len(work') = 1
        BY <1>4
      <4>2. Len(<<>>) = 0
        OBVIOUS
      <4>3. QED
        BY <4>1, <4>2
    <3>2. work'[1].task = "program"
      BY <1>3, <1>4
    <3>3. QED
      BY <3>1, <3>2
  <2>2. /\ \A i \in 2 .. Len(work') : work'[i].task \notin {"start", "program"}
        /\ \A i \in 1 .. Len(work') : work'[i].task # "genericCall"
    <3>1. \A i \in 2 .. Len(work') : FALSE
      BY <1>4
    <3>2. \A i \in 1 .. Len(work') : i = 1
      BY <1>4
    <3>3. QED
      BY <2>1, <3>1, <3>2
  <2>3. QED
    BY <1>4, <2>1, <2>2, PlainStack
<1>6. Moved
  BY <1>1, MovedByAdvance
<1>7. TokensOK' /\ TypeOK'
  <2>1. tree \in Seq(Nodes) /\ tree' \in Seq(Nodes)
    BY <1>1, TreeGrows, NoneAreSeqs DEF TypeOK
  <2>2. RestOK'
    BY <1>1, <2>1, RestKept
  <2>3. QED
    BY <1>4, <1>6, <2>2, TypedAfter DEF Moved
<1>8. Started'
  <2>1. CASE failed
    BY <1>6, <2>1 DEF Moved, Started
  <2>2. CASE ~failed
    <3>1. delivered = 0 /\ bufferedTokens = <<>>
      <4>1. delivered = 0
        BY <1>1, <2>2 DEF PInv, Started, Running
      <4>2. Len(bufferedTokens) <= 0 /\ bufferedTokens \in Seq(Tokens \cup {EndOfFile})
        BY <1>1, <4>1 DEF TokensOK
      <4>3. QED
        BY <4>1, <4>2
    <3>2. CASE Lexed.type = "error"
      <4>1. failed'
        BY <1>1, <2>2, <3>1, <3>2 DEF advance, setDiagnostic, failed
      <4>2. QED
        BY <4>1 DEF Started
    <3>3. CASE Lexed.type # "error"
      <4>1. Deliver /\ UNCHANGED <<source, bufferedTokens>>
        BY <1>1, <2>2, <3>1, <3>3 DEF advance
      <4>2. Len(source) \in Nat
        BY <1>1, AtOK
      <4>3. delivered' = 1
        BY <3>1, <4>1, <4>2 DEF Deliver
      <4>4. Len(bufferedTokens') = 0
        BY <3>1, <4>1
      <4>5. position' >= 1
        BY <4>3, <4>4 DEF position
      <4>6. QED
        BY <1>5, <4>5 DEF Started
    <3>4. QED
      BY <3>2, <3>3
  <2>3. QED
    BY <2>1, <2>2
<1>9. QED
  BY <1>5, <1>6, <1>7, <1>8 DEF PInv, Moved

-----------------------------------------------------------------------------
(* Every step.                                                             *)

\* What the moves have in common: the top one of the stack is neither parseProgram nor
\* the constructor.
LEMMA OrdinaryToken ==
    ASSUME PInv,
           \/ Expected \/ NotExpected \/ Built \/ Fails \/ parseType
           \/ ArrayType \/ ArraySize
    PROVE  work # <<>> /\ Top.task \notin {"start", "program"} /\ Move
<1>1. TypeOK
  BY DEF PInv
<1>2. CASE Expected
  <2>1. Move
    BY <1>1, <1>2, ExpectedMoves
  <2>2. QED
    BY <1>2, <2>1 DEF Expected, Running
<1>3. CASE NotExpected
  <2>1. Move
    BY <1>1, <1>3, ExpectedMoves
  <2>2. QED
    BY <1>3, <2>1 DEF NotExpected, Running
<1>4. CASE Built
  <2>1. Move
    BY <1>1, <1>4, BuiltMoves
  <2>2. QED
    BY <1>4, <2>1 DEF Built, Running
<1>5. CASE Fails
  <2>1. Move
    BY <1>1, <1>5, FailsMoves
  <2>2. QED
    BY <1>5, <2>1 DEF Fails, Running
<1>6. CASE parseType
  <2>1. Move
    BY <1>1, <1>6, ParseTypeMoves
  <2>2. QED
    BY <1>6, <2>1 DEF parseType, Running
<1>7. CASE ArrayType
  <2>1. Move
    BY <1>1, <1>7, ArrayTypeMoves
  <2>2. QED
    BY <1>7, <2>1 DEF ArrayType, Running
<1>8. CASE ArraySize
  <2>1. Move
    BY <1>1, <1>8, ArraySizeMoves
  <2>2. QED
    BY <1>8, <2>1 DEF ArraySize, Running
<1>9. QED
  BY <1>2, <1>3, <1>4, <1>5, <1>6, <1>7, <1>8

LEMMA OrdinaryDeclaration ==
    ASSUME PInv,
           \/ NamespaceName \/ NamespaceBody \/ parseStructDecl
           \/ parseStructFields \/ FieldName \/ parseTypeAliasDecl
           \/ AliasTarget \/ AliasEnd \/ parseFunctionDecl
           \/ TypeParameters \/ MoreTypeParameters \/ parseParameters
           \/ ParameterName \/ MoreParameters
    PROVE  work # <<>> /\ Top.task \notin {"start", "program"} /\ Move
<1>1. TypeOK
  BY DEF PInv
<1>2. CASE NamespaceName
  <2>1. Move
    BY <1>1, <1>2, NamespaceNameMoves
  <2>2. QED
    BY <1>2, <2>1 DEF NamespaceName, Running
<1>3. CASE NamespaceBody
  <2>1. Move
    BY <1>1, <1>3, NamespaceBodyMoves
  <2>2. QED
    BY <1>3, <2>1 DEF NamespaceBody, Running
<1>4. CASE parseStructDecl
  <2>1. Move
    BY <1>1, <1>4, ParseStructDeclMoves
  <2>2. QED
    BY <1>4, <2>1 DEF parseStructDecl, Running
<1>5. CASE parseStructFields
  <2>1. Move
    BY <1>1, <1>5, ParseStructFieldsMoves
  <2>2. QED
    BY <1>5, <2>1 DEF parseStructFields, Running
<1>6. CASE FieldName
  <2>1. Move
    BY <1>1, <1>6, FieldNameMoves
  <2>2. QED
    BY <1>6, <2>1 DEF FieldName, Running
<1>7. CASE parseTypeAliasDecl
  <2>1. Move
    BY <1>1, <1>7, ParseTypeAliasDeclMoves
  <2>2. QED
    BY <1>7, <2>1 DEF parseTypeAliasDecl, Running
<1>8. CASE AliasTarget
  <2>1. Move
    BY <1>1, <1>8, AliasTargetMoves
  <2>2. QED
    BY <1>8, <2>1 DEF AliasTarget, Running
<1>9. CASE AliasEnd
  <2>1. Move
    BY <1>1, <1>9, AliasEndMoves
  <2>2. QED
    BY <1>9, <2>1 DEF AliasEnd, Running
<1>10. CASE parseFunctionDecl
  <2>1. Move
    BY <1>1, <1>10, ParseFunctionDeclMoves
  <2>2. QED
    BY <1>10, <2>1 DEF parseFunctionDecl, Running
<1>11. CASE TypeParameters
  <2>1. Move
    BY <1>1, <1>11, TypeParametersMoves
  <2>2. QED
    BY <1>11, <2>1 DEF TypeParameters, Running
<1>12. CASE MoreTypeParameters
  <2>1. Move
    BY <1>1, <1>12, MoreTypeParametersMoves
  <2>2. QED
    BY <1>12, <2>1 DEF MoreTypeParameters, Running, MoreOf
<1>13. CASE parseParameters
  <2>1. Move
    BY <1>1, <1>13, ParseParametersMoves
  <2>2. QED
    BY <1>13, <2>1 DEF parseParameters, Running
<1>14. CASE ParameterName
  <2>1. Move
    BY <1>1, <1>14, ParameterNameMoves
  <2>2. QED
    BY <1>14, <2>1 DEF ParameterName, Running
<1>15. CASE MoreParameters
  <2>1. Move
    BY <1>1, <1>15, MoreParametersMoves
  <2>2. QED
    BY <1>15, <2>1 DEF MoreParameters, Running, MoreOf
<1>16. QED
  BY <1>2, <1>3, <1>4, <1>5, <1>6, <1>7, <1>8, <1>9, <1>10, <1>11, <1>12, <1>13, <1>14, <1>15

LEMMA OrdinaryStatement ==
    ASSUME PInv,
           \/ parseBlock \/ Statements \/ parseStatement
           \/ parseVarDeclStatement \/ LetName \/ Initializer
           \/ Initialized \/ AfterName \/ AfterField \/ Assignment \/ Else
           \/ parseForInitializer \/ parseForUpdate \/ Cases
           \/ AfterDefault \/ ReturnValue \/ Arguments \/ MoreArguments
    PROVE  work # <<>> /\ Top.task \notin {"start", "program"} /\ Move
<1>1. TypeOK
  BY DEF PInv
<1>2. CASE parseBlock
  <2>1. Move
    BY <1>1, <1>2, ParseBlockMoves
  <2>2. QED
    BY <1>2, <2>1 DEF parseBlock, Running
<1>3. CASE Statements
  <2>1. Move
    BY <1>1, <1>3, StatementsMoves
  <2>2. QED
    BY <1>3, <2>1 DEF Statements, Running
<1>4. CASE parseStatement
  <2>1. Move
    BY <1>1, <1>4, ParseStatementMoves
  <2>2. QED
    BY <1>4, <2>1 DEF parseStatement, Running
<1>5. CASE parseVarDeclStatement
  <2>1. Move
    BY <1>1, <1>5, ParseVarDeclStatementMoves
  <2>2. QED
    BY <1>5, <2>1 DEF parseVarDeclStatement, Running
<1>6. CASE LetName
  <2>1. Move
    BY <1>1, <1>6, LetNameMoves
  <2>2. QED
    BY <1>6, <2>1 DEF LetName, Running
<1>7. CASE Initializer
  <2>1. Move
    BY <1>1, <1>7, InitializerMoves
  <2>2. QED
    BY <1>7, <2>1 DEF Initializer, Running
<1>8. CASE Initialized
  <2>1. Move
    BY <1>1, <1>8, InitializedMoves
  <2>2. QED
    BY <1>8, <2>1 DEF Initialized, Running
<1>9. CASE AfterName
  <2>1. Move
    BY <1>1, <1>9, AfterNameMoves
  <2>2. QED
    BY <1>9, <2>1 DEF AfterName, Running
<1>10. CASE AfterField
  <2>1. Move
    BY <1>1, <1>10, AfterFieldMoves
  <2>2. QED
    BY <1>10, <2>1 DEF AfterField, Running
<1>11. CASE Assignment
  <2>1. Move
    BY <1>1, <1>11, AssignmentMoves
  <2>2. QED
    BY <1>11, <2>1 DEF Assignment, Running
<1>12. CASE Else
  <2>1. Move
    BY <1>1, <1>12, ElseMoves
  <2>2. QED
    BY <1>12, <2>1 DEF Else, Running
<1>13. CASE parseForInitializer
  <2>1. Move
    BY <1>1, <1>13, ParseForInitializerMoves
  <2>2. QED
    BY <1>13, <2>1 DEF parseForInitializer, Running
<1>14. CASE parseForUpdate
  <2>1. Move
    BY <1>1, <1>14, ParseForUpdateMoves
  <2>2. QED
    BY <1>14, <2>1 DEF parseForUpdate, Running
<1>15. CASE Cases
  <2>1. Move
    BY <1>1, <1>15, CasesMoves
  <2>2. QED
    BY <1>15, <2>1 DEF Cases, Running
<1>16. CASE AfterDefault
  <2>1. Move
    BY <1>1, <1>16, AfterDefaultMoves
  <2>2. QED
    BY <1>16, <2>1 DEF AfterDefault, Running
<1>17. CASE ReturnValue
  <2>1. Move
    BY <1>1, <1>17, ReturnValueMoves
  <2>2. QED
    BY <1>17, <2>1 DEF ReturnValue, Running
<1>18. CASE Arguments
  <2>1. Move
    BY <1>1, <1>18, ArgumentsMoves
  <2>2. QED
    BY <1>18, <2>1 DEF Arguments, Running
<1>19. CASE MoreArguments
  <2>1. Move
    BY <1>1, <1>19, MoreArgumentsMoves
  <2>2. QED
    BY <1>19, <2>1 DEF MoreArguments, Running, MoreOf
<1>20. QED
  BY <1>2, <1>3, <1>4, <1>5, <1>6, <1>7, <1>8, <1>9, <1>10, <1>11, <1>12, <1>13, <1>14, <1>15, <1>16, <1>17, <1>18, <1>19

LEMMA OrdinaryExpression ==
    ASSUME PInv,
           \/ parseExpression \/ BinaryLevel \/ parseUnary \/ parsePrimary
           \/ FieldRead \/ parseStructLiteral \/ Fields \/ MoreFields
           \/ parseCallExpression \/ MoreTypes
    PROVE  work # <<>> /\ Top.task \notin {"start", "program"} /\ Move
<1>1. TypeOK
  BY DEF PInv
<1>2. CASE parseExpression
  <2>1. Move
    BY <1>1, <1>2, ParseExpressionMoves
  <2>2. QED
    BY <1>2, <2>1 DEF parseExpression, Running
<1>3. CASE BinaryLevel
  <2>1. Move
    BY <1>1, <1>3, BinaryLevelMoves
  <2>2. QED
    BY <1>3, <2>1 DEF BinaryLevel, Running
<1>4. CASE parseUnary
  <2>1. Move
    BY <1>1, <1>4, ParseUnaryMoves
  <2>2. QED
    BY <1>4, <2>1 DEF parseUnary, Running
<1>5. CASE parsePrimary
  <2>1. Move
    BY <1>1, <1>5, ParsePrimaryMoves
  <2>2. QED
    BY <1>5, <2>1 DEF parsePrimary, Running
<1>6. CASE FieldRead
  <2>1. Move
    BY <1>1, <1>6, FieldReadMoves
  <2>2. QED
    BY <1>6, <2>1 DEF FieldRead, Running
<1>7. CASE parseStructLiteral
  <2>1. Move
    BY <1>1, <1>7, ParseStructLiteralMoves
  <2>2. QED
    BY <1>7, <2>1 DEF parseStructLiteral, Running
<1>8. CASE Fields
  <2>1. Move
    BY <1>1, <1>8, FieldsMoves
  <2>2. QED
    BY <1>8, <2>1 DEF Fields, Running
<1>9. CASE MoreFields
  <2>1. Move
    BY <1>1, <1>9, FieldsMoves
  <2>2. QED
    BY <1>9, <2>1 DEF MoreFields, Running, MoreOf
<1>10. CASE parseCallExpression
  <2>1. Move
    BY <1>1, <1>10, ParseCallExpressionMoves
  <2>2. QED
    BY <1>10, <2>1 DEF parseCallExpression, Running
<1>11. CASE MoreTypes
  <2>1. Move
    BY <1>1, <1>11, MoreTypesMoves
  <2>2. QED
    BY <1>11, <2>1 DEF MoreTypes, Running, MoreOf
<1>12. QED
  BY <1>2, <1>3, <1>4, <1>5, <1>6, <1>7, <1>8, <1>9, <1>10, <1>11

LEMMA NextKeeps ==
    ASSUME PInv, Next
    PROVE  PInv' /\ [Stream!Next]_streamVars
<1>1. CASE Start
  BY <1>1, StartKeeps
<1>2. CASE Expected \/ NotExpected \/ Built \/ Fails \/ parseType \/ ArrayType \/ ArraySize
  BY <1>2, OrdinaryToken, MoveKeeps
<1>3. CASE Declarations
  <2>1. CASE parseProgram
    BY <2>1, ParseProgramKeeps
  <2>2. CASE ~parseProgram
    BY <1>3, <2>2, OrdinaryDeclaration, MoveKeeps DEF Declarations
  <2>3. QED
    BY <2>1, <2>2
<1>4. CASE StatementSteps
  <2>1. CASE LookBehindLet
    BY <2>1, LookBehindLetKeeps
  <2>2. CASE ~LookBehindLet
    BY <1>4, <2>2, OrdinaryStatement, MoveKeeps DEF StatementSteps
  <2>3. QED
    BY <2>1, <2>2
<1>5. CASE ExpressionSteps
  <2>1. CASE PrimaryName
    BY <2>1, PrimaryNameKeeps
  <2>2. CASE parseQualifiedCallExpression
    BY <2>2, ParseQualifiedCallExpressionKeeps
  <2>3. CASE LookAhead
    BY <2>3, LookAheadKeeps
  <2>4. CASE LooksGeneric
    BY <2>4, LooksGenericKeeps
  <2>5. CASE ~(PrimaryName \/ parseQualifiedCallExpression \/ LookAhead \/ LooksGeneric)
    BY <1>5, <2>5, OrdinaryExpression, MoveKeeps DEF ExpressionSteps
  <2>6. QED
    BY <2>1, <2>2, <2>3, <2>4, <2>5
<1>6. QED
  BY <1>1, <1>2, <1>3, <1>4, <1>5 DEF Next

LEMMA StutteringKeeps ==
    ASSUME PInv, UNCHANGED vars
    PROVE  PInv' /\ [Stream!Next]_streamVars
<1>1. UNCHANGED <<source, delivered, current, bufferedTokens, diagnostic>>
  BY DEF vars, tokenVars
<1>2. UNCHANGED <<typeAliases, structTypeNames, currentNamespace, work, tree>>
  BY DEF vars, nameVars
<1>3. TypeOK' /\ TokensOK'
  BY <1>1, <1>2 DEF PInv, TypeOK, TokensOK, position, At, failed
<1>4. StackOK' /\ Ahead' /\ Started' /\ Ended'
  BY <1>1, <1>2
     DEF PInv, StackOK, Ahead, SeenOK, Started, Ended, Running, Top, position, failed
<1>5. UNCHANGED streamVars
  BY <1>1 DEF streamVars, position, failed
<1>6. QED
  BY <1>3, <1>4, <1>5 DEF PInv

LEMMA InitKeeps ==
    ASSUME Init
    PROVE  PInv /\ Stream!Init
<1>1. /\ source \in Seq(Tokens) /\ delivered = 0 /\ current = EndOfFile /\ bufferedTokens = <<>>
      /\ diagnostic = "none" /\ DOMAIN typeAliases = {} /\ structTypeNames = {}
      /\ currentNamespace = <<>> /\ work = <<Go("start")>> /\ tree = <<>>
  BY SourcesAssumption DEF Init
<1>2. Go("start") \in Activations /\ Go("start").task = "start"
  <2>1. "start" \in Tasks /\ "" \in Remembered
    BY DEF Tasks, Remembered, Texts, Names
  <2>2. <<>> \in Seq(Names \cup {"separator", "call"})
    OBVIOUS
  <2>3. Go("start")
            \in [task : Tasks, text : Remembered, names : Seq(Names \cup {"separator", "call"}), start : Nat]
    BY <2>1, <2>2 DEF Go, Item
  <2>4. Go("start").task = "start"
    BY DEF Go, Item
  <2>5. QED
    BY <2>3, <2>4 DEF Activations
<1>3. work \in Seq(Activations) /\ Len(work) = 1 /\ work[1].task = "start" /\ work # <<>>
  <2> DEFINE it == Go("start")
  <2>1. it \in Activations /\ it.task = "start" /\ work = <<it>>
    BY <1>1, <1>2
  <2> HIDE DEF it
  <2>2. QED
    BY <2>1, OneInSeq
<1>4. ~failed /\ position = 0
  <2>1. delivered = 0 /\ Len(bufferedTokens) = 0 /\ diagnostic = "none"
    BY <1>1
  <2>2. QED
    BY <2>1 DEF failed, position
<1>5. TypeOK
  BY <1>1, <1>3 DEF TypeOK
<1>6. TokensOK
  <2>1. 0 \notin DOMAIN source /\ Len(source) \in Nat /\ Len(bufferedTokens) = 0
    BY <1>1
  <2>2. QED
    BY <1>1, <1>4, <2>1 DEF TokensOK, At
<1>7. StackOK
  BY <1>3 DEF StackOK
<1>8. Top.task = "start"
  BY <1>3 DEF Top
<1>9. Ahead /\ Started /\ Ended
  BY <1>1, <1>3, <1>8 DEF Ahead, Started, Ended, Running
<1>10. Stream!Init
  BY <1>1, <1>4 DEF Stream!Init, position
<1>11. QED
  BY <1>5, <1>6, <1>7, <1>9, <1>10 DEF PInv

\* The strengthened invariant: the types, the buffer between the current token
\* and the lexer, the stack with parseProgram at its bottom, and a look ahead
\* that stops at the end of the file.
THEOREM Invariance == Spec => []PInv
<1>1. Init => PInv
  BY InitKeeps
<1>2. PInv /\ [Next]_vars => PInv'
  BY NextKeeps, StutteringKeeps
<1>3. QED
  BY <1>1, <1>2, PTL DEF Spec

\* Every method leaves on the stack, in the tree and in the tables of names what
\* the others expect there.
THEOREM TypeCorrect == Spec => []TypeOK
<1>1. PInv => TypeOK
  BY DEF PInv
<1>2. QED
  BY <1>1, Invariance, PTL

\* For every source and any depth of looking ahead, advance makes the tokens of
\* the source current one by one and in their order; an error makes it the end
\* of the file for good.
THEOREM LooksAheadInOrder == Spec => TokensInOrder
<1>1. Init => Stream!Init
  BY InitKeeps
<1>2. PInv /\ [Next]_vars => [Stream!Next]_streamVars
  BY NextKeeps, StutteringKeeps
<1>3. PInv /\ [Next]_vars => [Stream!Next]_(Stream!vars)
  BY <1>2 DEF streamVars, Stream!vars, position
<1>4. QED
  BY <1>1, <1>3, Invariance, PTL DEF Spec, TokensInOrder, Stream!Spec

\* A source that is accepted has been read to its end, and nothing of it is left
\* in the buffer: parseProgram cannot be over before.
THEOREM ReadsToTheEnd ==
    Spec => [](Accepted => delivered = Len(source) + 1 /\ bufferedTokens = <<>>)
<1>1. PInv => (Accepted => delivered = Len(source) + 1 /\ bufferedTokens = <<>>)
  <2>1. SUFFICES ASSUME PInv, Accepted
                 PROVE  delivered = Len(source) + 1 /\ bufferedTokens = <<>>
    OBVIOUS
  <2>2. TokensOK /\ ~failed /\ current = EndOfFile /\ work = <<>>
    BY <2>1 DEF PInv, Accepted, Ended
  <2>3. position >= 1 /\ At(position) = EndOfFile
    BY <2>1, <2>2 DEF PInv, Started, Running, TokensOK
  <2>4. /\ position \in Nat /\ Len(source) \in Nat /\ delivered \in Nat
        /\ Len(bufferedTokens) \in Nat /\ position = delivered - Len(bufferedTokens)
        /\ delivered <= Len(source) + 1 /\ position \notin 1 .. Len(source)
    BY <2>2, <2>3, AtOK DEF position, TokensOK
  <2>5. delivered = Len(source) + 1 /\ Len(bufferedTokens) = 0
    BY <2>3, <2>4
  <2>6. bufferedTokens = <<>>
    BY <2>2, <2>5 DEF TokensOK
  <2>7. QED
    BY <2>5, <2>6
<1>2. QED
  BY <1>1, Invariance, PTL

-----------------------------------------------------------------------------
(* The brackets.                                                           *)

\* The brackets.  Z3 is not given the literals of the braces, which its
\* translation cannot write: they have names.
BraceOpen  == "{"
BraceClose == "}"
Openers  == {"(", "[", "{"}
Closers  == {")", "]", "}"}

LEMMA Brackets ==
    /\ "(" \in Openers /\ "[" \in Openers /\ BraceOpen \in Openers
    /\ ")" \in Closers /\ "]" \in Closers /\ BraceClose \in Closers
    /\ Opposite[")"] = "(" /\ Opposite["]"] = "[" /\ Opposite[BraceClose] = BraceOpen
    /\ DOMAIN Opposite = Closers
    /\ \A t \in Closers : t \notin Openers /\ Opposite[t] \in Openers
<1>1. DOMAIN Opposite = Closers
  BY Zenon DEF Opposite, Closers
<1>2. Opposite[")"] = "(" /\ Opposite["]"] = "[" /\ Opposite["}"] = "{"
  BY Zenon DEF Opposite
<1>3. \A t \in Closers : t \notin Openers /\ Opposite[t] \in Openers
  BY <1>2, Zenon DEF Closers, Openers
<1>4. QED
  BY <1>1, <1>2, <1>3, Zenon DEF Openers, Closers, BraceOpen, BraceClose

\* The stacks of brackets that wait for their partner.
Stacks == Seq(Openers \cup {"bad"})

LEMMA AppendedBracket ==
    ASSUME NEW s \in Stacks, NEW b \in Openers
    PROVE  /\ Append(s, b) \in Stacks /\ Append(s, b) # <<>>
           /\ Last(Append(s, b)) = b /\ Front(Append(s, b)) = s
<1> DEFINE S == Openers \cup {"bad"}  more == Append(s, b)
<1>1. s \in Seq(S) /\ b \in S
  BY DEF Stacks
<1> HIDE DEF S
<1>2. /\ more \in Seq(S) /\ more # <<>> /\ Len(more) = Len(s) + 1
      /\ \A i \in 1 .. Len(s) : more[i] = s[i]
      /\ more[Len(s) + 1] = b
  BY <1>1, AppendProperties
<1> HIDE DEF more
<1>3. Len(s) \in Nat /\ Len(s) \in 0 .. Len(more) /\ Len(more) - 1 = Len(s)
  BY <1>1, <1>2
<1>4. Last(more) = b
  BY <1>2 DEF Last
<1>5. Front(more) = s
  <2> DEFINE front == SubSeq(more, 1, Len(s))
  <2>1. /\ front \in Seq(S) /\ Len(front) = Len(s)
        /\ \A i \in 1 .. Len(s) : front[i] = more[i]
    BY <1>2, <1>3, PrefixProperties
  <2>2. Front(more) = front
    BY <1>3 DEF Front
  <2> HIDE DEF front
  <2>3. \A i \in 1 .. Len(s) : front[i] = s[i]
    BY <1>2, <2>1
  <2>4. front = s
    BY <1>1, <2>1, <2>3, SeqEqual
  <2>5. QED
    BY <2>2, <2>4
<1>6. QED
  BY <1>2, <1>4, <1>5 DEF S, Stacks, more

LEMMA EmptyStack == <<>> \in Stacks
BY DEF Stacks

LEMMA TokenType == \A t, x : Token(t, x).type = t
BY DEF Token

LEMMA OpenAfterOpener ==
    ASSUME NEW s, NEW token, token.type \in Openers
    PROVE  OpenAfter(s, token) = Append(s, token.type)
BY Zenon DEF OpenAfter, Openers, Opposite

LEMMA OpenAfterNone ==
    ASSUME NEW s, NEW token, token.type \notin Openers, token.type \notin Closers
    PROVE  OpenAfter(s, token) = s
BY Brackets, Zenon DEF OpenAfter, Openers, Closers

LEMMA OpenAfterAny ==
    ASSUME NEW s, NEW token, token.type \in Closers
    PROVE  OpenAfter(s, token)
             = IF s # <<>> /\ Last(s) = Opposite[token.type] THEN Front(s) ELSE <<"bad">>
<1>1. token.type \in DOMAIN Opposite /\ token.type \notin {"(", "[", "{"}
  BY Brackets, Zenon DEF Openers
<1>2. QED
  BY <1>1, Zenon DEF OpenAfter

LEMMA OpenAfterCloser ==
    ASSUME NEW s \in Stacks, NEW token, token.type \in Closers,
           NEW b, b = Opposite[token.type]
    PROVE  OpenAfter(Append(s, b), token) = s
<1>1. b \in Openers
  BY Brackets
<1>2. Append(s, b) # <<>> /\ Last(Append(s, b)) = b /\ Front(Append(s, b)) = s
  BY <1>1, AppendedBracket
<1>3. QED
  BY <1>2, OpenAfterAny

LEMMA OpenAfterTyped ==
    ASSUME NEW s \in Stacks, NEW token
    PROVE  OpenAfter(s, token) \in Stacks
<1>1. CASE token.type \notin Openers /\ token.type \notin Closers
  BY <1>1, OpenAfterNone
<1>2. CASE token.type \in Openers
  <2>1. Append(s, token.type) \in Stacks
    BY <1>2, AppendedBracket
  <2>2. QED
    BY <1>2, <2>1, OpenAfterOpener
<1>3. CASE token.type \in Closers
  <2>1. s # <<>> => Front(s) \in Stacks
    <3> DEFINE S == Openers \cup {"bad"}
    <3>1. s \in Seq(S)
      BY DEF Stacks
    <3> HIDE DEF S
    <3>2. s # <<>> => Len(s) \in Nat \ {0}
      BY <3>1
    <3>3. s # <<>> => Len(s) - 1 \in 0 .. Len(s)
      BY <3>2
    <3>4. s # <<>> => Front(s) \in Seq(S)
      BY <3>1, <3>3, PrefixProperties DEF Front
    <3>5. QED
      BY <3>4 DEF S, Stacks
  <2>2. <<"bad">> \in Stacks
    BY DEF Stacks
  <2>3. QED
    BY <1>3, <2>1, <2>2, OpenAfterAny
<1>4. QED
  BY <1>1, <1>2, <1>3

\* Only the type of the token matters.
LEMMA OpenAfterType ==
    ASSUME NEW s, NEW token, NEW other, token.type = other.type
    PROVE  OpenAfter(s, token) = OpenAfter(s, other)
<1>1. CASE token.type \notin Openers /\ token.type \notin Closers
  BY <1>1, OpenAfterNone
<1>2. CASE token.type \in Openers
  BY <1>2, OpenAfterOpener
<1>3. CASE token.type \in Closers
  BY <1>3, OpenAfterAny
<1>4. QED
  BY <1>1, <1>2, <1>3

-----------------------------------------------------------------------------
(* What the activations do to the brackets.                                *)

\* What is open before an activation runs and after it.  Those that only fail
\* promise nothing.
Owes(item, before, after) ==
    IF item.task = "expect" THEN after = OpenAfter(before, Token(item.text, ""))
    ELSE IF item.task \in {"fail", "failType"} THEN TRUE
    ELSE IF item.task \in {"namespaceBody", "cases", "afterDefault"}
         THEN before = Append(after, BraceOpen)
    ELSE after = before

\* The same of activations that run one behind the other, the first one first.
IsList(items) == \E S : items \in Seq(S)
Path(items, before, after) ==
    /\ IsList(items)
    /\ \E on \in [0 .. Len(items) -> Stacks] :
          /\ on[0] = before /\ on[Len(items)] = after
          /\ \A i \in 1 .. Len(items) : Owes(items[i], on[i - 1], on[i])

\* The open activations close all of these.
Owing(open) ==
    \E left \in [0 .. Len(work) -> Stacks] :
        /\ left[0] = <<>> /\ left[Len(work)] = open
        /\ \A i \in 1 .. Len(work) : Owes(work[i], left[i], left[i - 1])

\* These wait for their partner behind the first n tokens of the source.
Opened(n, open) ==
    \E behind \in [0 .. n -> Stacks] :
        /\ behind[0] = <<>> /\ behind[n] = open
        /\ \A i \in 1 .. n : behind[i] = OpenAfter(behind[i - 1], source[i])

\* How many tokens the parser is done with: the current one is the next.
passed == IF position = 0 THEN 0 ELSE position - 1
Balanced == ~failed => \E open \in Stacks : Opened(passed, open) /\ Owing(open)

LEMMA PathOfNone ==
    ASSUME NEW s \in Stacks
    PROVE  Path(<<>>, s, s)
<1> DEFINE items == <<>>  on == [i \in 0 .. 0 |-> s]
<1>1. IsList(items) /\ Len(items) = 0
  <2>1. items \in Seq({}) /\ Len(items) = 0
    OBVIOUS
  <2>2. QED
    BY <2>1 DEF IsList
<1>2. on \in [0 .. 0 -> Stacks] /\ on[0] = s
  OBVIOUS
<1> HIDE DEF items, on
<1>3. Path(items, s, s)
  BY <1>1, <1>2 DEF Path
<1>4. QED
  BY <1>3 DEF items

\* One more in front.
IsBefore(a, items, more) ==
    /\ IsList(items) /\ IsList(more) /\ more[1] = a
    /\ \E k \in Nat : /\ Len(items) = k /\ Len(more) = k + 1
                     /\ \A i \in 1 .. k : more[i + 1] = items[i]

LEMMA PathWithFirst ==
    ASSUME NEW a, NEW items, NEW more, IsBefore(a, items, more)
    PROVE  \A s \in Stacks, m \in Stacks, t \in Stacks :
               Owes(a, s, m) /\ Path(items, m, t) => Path(more, s, t)
<1> SUFFICES ASSUME NEW s \in Stacks, NEW m \in Stacks, NEW t \in Stacks,
                    Owes(a, s, m), Path(items, m, t)
             PROVE  Path(more, s, t)
  OBVIOUS
<1>1. PICK k \in Nat : /\ Len(items) = k /\ Len(more) = k + 1
                       /\ \A i \in 1 .. k : more[i + 1] = items[i]
  BY DEF IsBefore
<1>2. PICK on \in [0 .. k -> Stacks] :
          /\ on[0] = m /\ on[k] = t
          /\ \A i \in 1 .. k : Owes(items[i], on[i - 1], on[i])
  BY <1>1 DEF Path
<1> DEFINE new == [i \in 0 .. k + 1 |-> IF i = 0 THEN s ELSE on[i - 1]]
<1>3. /\ new \in [0 .. k + 1 -> Stacks]
      /\ new[0] = s /\ \A i \in 1 .. k + 1 : new[i] = on[i - 1]
  <2>1. \A i \in 0 .. k + 1 : i # 0 => i - 1 \in 0 .. k
    OBVIOUS
  <2>2. QED
    BY <1>2, <2>1
<1> HIDE DEF new
<1>4. new[k + 1] = t
  BY <1>2, <1>3
<1>5. ASSUME NEW i \in 1 .. k + 1 PROVE Owes(more[i], new[i - 1], new[i])
  <2>1. CASE i = 1
    <3>1. more[1] = a
      BY DEF IsBefore
    <3>2. QED
      BY <1>2, <1>3, <2>1, <3>1
  <2>2. CASE i # 1
    <3>1. i - 1 \in 1 .. k /\ (i - 1) + 1 = i /\ i - 1 \in 1 .. k + 1
      BY <2>2
    <3>2. more[i] = items[i - 1] /\ new[i] = on[i - 1] /\ new[i - 1] = on[(i - 1) - 1]
      BY <1>1, <1>3, <3>1
    <3>3. Owes(items[i - 1], on[(i - 1) - 1], on[i - 1])
      BY <1>2, <3>1
    <3>4. QED
      BY <3>2, <3>3
  <2>3. QED
    BY <2>1, <2>2
<1>6. QED
  <2>1. IsList(more)
    BY DEF IsBefore
  <2>2. QED
    BY <1>1, <1>3, <1>4, <1>5, <2>1 DEF Path

LEMMA FirstOfOne ==
    ASSUME NEW a
    PROVE  \A s \in Stacks, m \in Stacks, t \in Stacks :
               Owes(a, s, m) /\ Path(<<>>, m, t) => Path(<<a>>, s, t)
<1> DEFINE more == <<a>>  items == <<>>
<1>1. more \in Seq({a}) /\ items \in Seq({a})
  OBVIOUS
<1>2. Len(items) = 0 /\ Len(more) = 0 + 1 /\ more[1] = a /\ 0 \in Nat
  OBVIOUS
<1>3. \A i \in 1 .. 0 : more[i + 1] = items[i]
  OBVIOUS
<1> HIDE DEF more, items
<1>4. IsBefore(a, items, more)
  <2>1. IsList(items) /\ IsList(more)
    BY <1>1 DEF IsList
  <2>2. QED
    BY <1>2, <1>3, <2>1 DEF IsBefore
<1>5. \A s \in Stacks, m \in Stacks, t \in Stacks :
          Owes(a, s, m) /\ Path(items, m, t) => Path(more, s, t)
  BY <1>4, PathWithFirst
<1>6. QED
  BY <1>5 DEF more, items

LEMMA PathOfOne ==
    ASSUME NEW a, NEW s0 \in Stacks, NEW s1 \in Stacks, Owes(a, s0, s1)
    PROVE  Path(<<a>>, s0, s1)
BY PathOfNone, FirstOfOne

LEMMA FirstOfTwo ==
    ASSUME NEW a, NEW b
    PROVE  \A s \in Stacks, m \in Stacks, t \in Stacks :
               Owes(a, s, m) /\ Path(<<b>>, m, t) => Path(<<a, b>>, s, t)
<1> DEFINE more == <<a, b>>  items == <<b>>
<1>1. more \in Seq({a, b}) /\ items \in Seq({a, b})
  OBVIOUS
<1>2. Len(items) = 1 /\ Len(more) = 1 + 1 /\ more[1] = a /\ 1 \in Nat
  OBVIOUS
<1>3. \A i \in 1 .. 1 : more[i + 1] = items[i]
  OBVIOUS
<1> HIDE DEF more, items
<1>4. IsBefore(a, items, more)
  <2>1. IsList(items) /\ IsList(more)
    BY <1>1 DEF IsList
  <2>2. QED
    BY <1>2, <1>3, <2>1 DEF IsBefore
<1>5. \A s \in Stacks, m \in Stacks, t \in Stacks :
          Owes(a, s, m) /\ Path(items, m, t) => Path(more, s, t)
  BY <1>4, PathWithFirst
<1>6. QED
  BY <1>5 DEF more, items

LEMMA PathOfTwo ==
    ASSUME NEW a, NEW b, NEW s0 \in Stacks, NEW s1 \in Stacks, NEW s2 \in Stacks,
           Owes(a, s0, s1), Owes(b, s1, s2)
    PROVE  Path(<<a, b>>, s0, s2)
<1>1. Path(<<b>>, s1, s2)
  BY PathOfOne
<1>2. QED
  BY <1>1, FirstOfTwo

LEMMA FirstOfThree ==
    ASSUME NEW a, NEW b, NEW c
    PROVE  \A s \in Stacks, m \in Stacks, t \in Stacks :
               Owes(a, s, m) /\ Path(<<b, c>>, m, t) => Path(<<a, b, c>>, s, t)
<1> DEFINE more == <<a, b, c>>  items == <<b, c>>
<1>1. more \in Seq({a, b, c}) /\ items \in Seq({a, b, c})
  OBVIOUS
<1>2. Len(items) = 2 /\ Len(more) = 2 + 1 /\ more[1] = a /\ 2 \in Nat
  OBVIOUS
<1>3. \A i \in 1 .. 2 : more[i + 1] = items[i]
  OBVIOUS
<1> HIDE DEF more, items
<1>4. IsBefore(a, items, more)
  <2>1. IsList(items) /\ IsList(more)
    BY <1>1 DEF IsList
  <2>2. QED
    BY <1>2, <1>3, <2>1 DEF IsBefore
<1>5. \A s \in Stacks, m \in Stacks, t \in Stacks :
          Owes(a, s, m) /\ Path(items, m, t) => Path(more, s, t)
  BY <1>4, PathWithFirst
<1>6. QED
  BY <1>5 DEF more, items

LEMMA PathOfThree ==
    ASSUME NEW a, NEW b, NEW c, NEW s0 \in Stacks, NEW s1 \in Stacks, NEW s2 \in Stacks,
           NEW s3 \in Stacks, Owes(a, s0, s1), Owes(b, s1, s2), Owes(c, s2, s3)
    PROVE  Path(<<a, b, c>>, s0, s3)
<1>1. Path(<<b, c>>, s1, s3)
  BY PathOfTwo
<1>2. QED
  BY <1>1, FirstOfThree

LEMMA FirstOfFour ==
    ASSUME NEW a, NEW b, NEW c, NEW d
    PROVE  \A s \in Stacks, m \in Stacks, t \in Stacks :
               Owes(a, s, m) /\ Path(<<b, c, d>>, m, t) => Path(<<a, b, c, d>>, s, t)
<1> DEFINE more == <<a, b, c, d>>  items == <<b, c, d>>
<1>1. more \in Seq({a, b, c, d}) /\ items \in Seq({a, b, c, d})
  OBVIOUS
<1>2. Len(items) = 3 /\ Len(more) = 3 + 1 /\ more[1] = a /\ 3 \in Nat
  OBVIOUS
<1>3. \A i \in 1 .. 3 : more[i + 1] = items[i]
  OBVIOUS
<1> HIDE DEF more, items
<1>4. IsBefore(a, items, more)
  <2>1. IsList(items) /\ IsList(more)
    BY <1>1 DEF IsList
  <2>2. QED
    BY <1>2, <1>3, <2>1 DEF IsBefore
<1>5. \A s \in Stacks, m \in Stacks, t \in Stacks :
          Owes(a, s, m) /\ Path(items, m, t) => Path(more, s, t)
  BY <1>4, PathWithFirst
<1>6. QED
  BY <1>5 DEF more, items

LEMMA PathOfFour ==
    ASSUME NEW a, NEW b, NEW c, NEW d, NEW s0 \in Stacks, NEW s1 \in Stacks, NEW s2 \in Stacks,
           NEW s3 \in Stacks, NEW s4 \in Stacks, Owes(a, s0, s1), Owes(b, s1, s2),
           Owes(c, s2, s3), Owes(d, s3, s4)
    PROVE  Path(<<a, b, c, d>>, s0, s4)
<1>1. Path(<<b, c, d>>, s1, s4)
  BY PathOfThree
<1>2. QED
  BY <1>1, FirstOfFour

LEMMA FirstOfFive ==
    ASSUME NEW a, NEW b, NEW c, NEW d, NEW e
    PROVE  \A s \in Stacks, m \in Stacks, t \in Stacks :
               Owes(a, s, m) /\ Path(<<b, c, d, e>>, m, t) => Path(<<a, b, c, d, e>>, s, t)
<1> DEFINE more == <<a, b, c, d, e>>  items == <<b, c, d, e>>
<1>1. more \in Seq({a, b, c, d, e}) /\ items \in Seq({a, b, c, d, e})
  OBVIOUS
<1>2. Len(items) = 4 /\ Len(more) = 4 + 1 /\ more[1] = a /\ 4 \in Nat
  OBVIOUS
<1>3. \A i \in 1 .. 4 : more[i + 1] = items[i]
  OBVIOUS
<1> HIDE DEF more, items
<1>4. IsBefore(a, items, more)
  <2>1. IsList(items) /\ IsList(more)
    BY <1>1 DEF IsList
  <2>2. QED
    BY <1>2, <1>3, <2>1 DEF IsBefore
<1>5. \A s \in Stacks, m \in Stacks, t \in Stacks :
          Owes(a, s, m) /\ Path(items, m, t) => Path(more, s, t)
  BY <1>4, PathWithFirst
<1>6. QED
  BY <1>5 DEF more, items

LEMMA PathOfFive ==
    ASSUME NEW a, NEW b, NEW c, NEW d, NEW e, NEW s0 \in Stacks, NEW s1 \in Stacks,
           NEW s2 \in Stacks, NEW s3 \in Stacks, NEW s4 \in Stacks, NEW s5 \in Stacks,
           Owes(a, s0, s1), Owes(b, s1, s2), Owes(c, s2, s3), Owes(d, s3, s4), Owes(e, s4, s5)
    PROVE  Path(<<a, b, c, d, e>>, s0, s5)
<1>1. Path(<<b, c, d, e>>, s1, s5)
  BY PathOfFour
<1>2. QED
  BY <1>1, FirstOfFive

LEMMA FirstOfSix ==
    ASSUME NEW a, NEW b, NEW c, NEW d, NEW e, NEW f
    PROVE  \A s \in Stacks, m \in Stacks, t \in Stacks :
               Owes(a, s, m) /\ Path(<<b, c, d, e, f>>, m, t) => Path(<<a, b, c, d, e, f>>, s, t)
<1> DEFINE more == <<a, b, c, d, e, f>>  items == <<b, c, d, e, f>>
<1>1. more \in Seq({a, b, c, d, e, f}) /\ items \in Seq({a, b, c, d, e, f})
  OBVIOUS
<1>2. Len(items) = 5 /\ Len(more) = 5 + 1 /\ more[1] = a /\ 5 \in Nat
  OBVIOUS
<1>3. \A i \in 1 .. 5 : more[i + 1] = items[i]
  OBVIOUS
<1> HIDE DEF more, items
<1>4. IsBefore(a, items, more)
  <2>1. IsList(items) /\ IsList(more)
    BY <1>1 DEF IsList
  <2>2. QED
    BY <1>2, <1>3, <2>1 DEF IsBefore
<1>5. \A s \in Stacks, m \in Stacks, t \in Stacks :
          Owes(a, s, m) /\ Path(items, m, t) => Path(more, s, t)
  BY <1>4, PathWithFirst
<1>6. QED
  BY <1>5 DEF more, items

LEMMA PathOfSix ==
    ASSUME NEW a, NEW b, NEW c, NEW d, NEW e, NEW f, NEW s0 \in Stacks, NEW s1 \in Stacks,
           NEW s2 \in Stacks, NEW s3 \in Stacks, NEW s4 \in Stacks, NEW s5 \in Stacks,
           NEW s6 \in Stacks, Owes(a, s0, s1), Owes(b, s1, s2), Owes(c, s2, s3),
           Owes(d, s3, s4), Owes(e, s4, s5), Owes(f, s5, s6)
    PROVE  Path(<<a, b, c, d, e, f>>, s0, s6)
<1>1. Path(<<b, c, d, e, f>>, s1, s6)
  BY PathOfFive
<1>2. QED
  BY <1>1, FirstOfSix

LEMMA FirstOfSeven ==
    ASSUME NEW a, NEW b, NEW c, NEW d, NEW e, NEW f, NEW g
    PROVE  \A s \in Stacks, m \in Stacks, t \in Stacks :
               Owes(a, s, m) /\ Path(<<b, c, d, e, f, g>>, m, t)
                   => Path(<<a, b, c, d, e, f, g>>, s, t)
<1> DEFINE more == <<a, b, c, d, e, f, g>>  items == <<b, c, d, e, f, g>>
<1>1. more \in Seq({a, b, c, d, e, f, g}) /\ items \in Seq({a, b, c, d, e, f, g})
  OBVIOUS
<1>2. Len(items) = 6 /\ Len(more) = 6 + 1 /\ more[1] = a /\ 6 \in Nat
  OBVIOUS
<1>3. \A i \in 1 .. 6 : more[i + 1] = items[i]
  OBVIOUS
<1> HIDE DEF more, items
<1>4. IsBefore(a, items, more)
  <2>1. IsList(items) /\ IsList(more)
    BY <1>1 DEF IsList
  <2>2. QED
    BY <1>2, <1>3, <2>1 DEF IsBefore
<1>5. \A s \in Stacks, m \in Stacks, t \in Stacks :
          Owes(a, s, m) /\ Path(items, m, t) => Path(more, s, t)
  BY <1>4, PathWithFirst
<1>6. QED
  BY <1>5 DEF more, items

LEMMA PathOfSeven ==
    ASSUME NEW a, NEW b, NEW c, NEW d, NEW e, NEW f, NEW g, NEW s0 \in Stacks,
           NEW s1 \in Stacks, NEW s2 \in Stacks, NEW s3 \in Stacks, NEW s4 \in Stacks,
           NEW s5 \in Stacks, NEW s6 \in Stacks, NEW s7 \in Stacks, Owes(a, s0, s1),
           Owes(b, s1, s2), Owes(c, s2, s3), Owes(d, s3, s4), Owes(e, s4, s5), Owes(f, s5, s6),
           Owes(g, s6, s7)
    PROVE  Path(<<a, b, c, d, e, f, g>>, s0, s7)
<1>1. Path(<<b, c, d, e, f, g>>, s1, s7)
  BY PathOfSix
<1>2. QED
  BY <1>1, FirstOfSeven

LEMMA FirstOfEight ==
    ASSUME NEW a, NEW b, NEW c, NEW d, NEW e, NEW f, NEW g, NEW h
    PROVE  \A s \in Stacks, m \in Stacks, t \in Stacks :
               Owes(a, s, m) /\ Path(<<b, c, d, e, f, g, h>>, m, t)
                   => Path(<<a, b, c, d, e, f, g, h>>, s, t)
<1> DEFINE more == <<a, b, c, d, e, f, g, h>>  items == <<b, c, d, e, f, g, h>>
<1>1. /\ more \in Seq({a, b, c, d, e, f, g, h})
      /\ items \in Seq({a, b, c, d, e, f, g, h})
  OBVIOUS
<1>2. Len(items) = 7 /\ Len(more) = 7 + 1 /\ more[1] = a /\ 7 \in Nat
  OBVIOUS
<1>3. \A i \in 1 .. 7 : more[i + 1] = items[i]
  OBVIOUS
<1> HIDE DEF more, items
<1>4. IsBefore(a, items, more)
  <2>1. IsList(items) /\ IsList(more)
    BY <1>1 DEF IsList
  <2>2. QED
    BY <1>2, <1>3, <2>1 DEF IsBefore
<1>5. \A s \in Stacks, m \in Stacks, t \in Stacks :
          Owes(a, s, m) /\ Path(items, m, t) => Path(more, s, t)
  BY <1>4, PathWithFirst
<1>6. QED
  BY <1>5 DEF more, items

LEMMA PathOfEight ==
    ASSUME NEW a, NEW b, NEW c, NEW d, NEW e, NEW f, NEW g, NEW h, NEW s0 \in Stacks,
           NEW s1 \in Stacks, NEW s2 \in Stacks, NEW s3 \in Stacks, NEW s4 \in Stacks,
           NEW s5 \in Stacks, NEW s6 \in Stacks, NEW s7 \in Stacks, NEW s8 \in Stacks,
           Owes(a, s0, s1), Owes(b, s1, s2), Owes(c, s2, s3), Owes(d, s3, s4), Owes(e, s4, s5),
           Owes(f, s5, s6), Owes(g, s6, s7), Owes(h, s7, s8)
    PROVE  Path(<<a, b, c, d, e, f, g, h>>, s0, s8)
<1>1. Path(<<b, c, d, e, f, g, h>>, s1, s8)
  BY PathOfSeven
<1>2. QED
  BY <1>1, FirstOfEight

LEMMA FirstOfNine ==
    ASSUME NEW a, NEW b, NEW c, NEW d, NEW e, NEW f, NEW g, NEW h, NEW p
    PROVE  \A s \in Stacks, m \in Stacks, t \in Stacks :
               Owes(a, s, m) /\ Path(<<b, c, d, e, f, g, h, p>>, m, t)
                   => Path(<<a, b, c, d, e, f, g, h, p>>, s, t)
<1> DEFINE more == <<a, b, c, d, e, f, g, h, p>>  items == <<b, c, d, e, f, g, h, p>>
<1>1. /\ more \in Seq({a, b, c, d, e, f, g, h, p})
      /\ items \in Seq({a, b, c, d, e, f, g, h, p})
  OBVIOUS
<1>2. Len(items) = 8 /\ Len(more) = 8 + 1 /\ more[1] = a /\ 8 \in Nat
  OBVIOUS
<1>3. \A i \in 1 .. 8 : more[i + 1] = items[i]
  OBVIOUS
<1> HIDE DEF more, items
<1>4. IsBefore(a, items, more)
  <2>1. IsList(items) /\ IsList(more)
    BY <1>1 DEF IsList
  <2>2. QED
    BY <1>2, <1>3, <2>1 DEF IsBefore
<1>5. \A s \in Stacks, m \in Stacks, t \in Stacks :
          Owes(a, s, m) /\ Path(items, m, t) => Path(more, s, t)
  BY <1>4, PathWithFirst
<1>6. QED
  BY <1>5 DEF more, items

LEMMA PathOfNine ==
    ASSUME NEW a, NEW b, NEW c, NEW d, NEW e, NEW f, NEW g, NEW h, NEW p, NEW s0 \in Stacks,
           NEW s1 \in Stacks, NEW s2 \in Stacks, NEW s3 \in Stacks, NEW s4 \in Stacks,
           NEW s5 \in Stacks, NEW s6 \in Stacks, NEW s7 \in Stacks, NEW s8 \in Stacks,
           NEW s9 \in Stacks, Owes(a, s0, s1), Owes(b, s1, s2), Owes(c, s2, s3),
           Owes(d, s3, s4), Owes(e, s4, s5), Owes(f, s5, s6), Owes(g, s6, s7), Owes(h, s7, s8),
           Owes(p, s8, s9)
    PROVE  Path(<<a, b, c, d, e, f, g, h, p>>, s0, s9)
<1>1. Path(<<b, c, d, e, f, g, h, p>>, s1, s9)
  BY PathOfEight
<1>2. QED
  BY <1>1, FirstOfNine

LEMMA FirstOfTen ==
    ASSUME NEW a, NEW b, NEW c, NEW d, NEW e, NEW f, NEW g, NEW h, NEW p, NEW q
    PROVE  \A s \in Stacks, m \in Stacks, t \in Stacks :
               Owes(a, s, m) /\ Path(<<b, c, d, e, f, g, h, p, q>>, m, t)
                   => Path(<<a, b, c, d, e, f, g, h, p, q>>, s, t)
<1> DEFINE more == <<a, b, c, d, e, f, g, h, p, q>>  items == <<b, c, d, e, f, g, h, p, q>>
<1>1. /\ more \in Seq({a, b, c, d, e, f, g, h, p, q})
      /\ items \in Seq({a, b, c, d, e, f, g, h, p, q})
  OBVIOUS
<1>2. Len(items) = 9 /\ Len(more) = 9 + 1 /\ more[1] = a /\ 9 \in Nat
  OBVIOUS
<1>3. \A i \in 1 .. 9 : more[i + 1] = items[i]
  OBVIOUS
<1> HIDE DEF more, items
<1>4. IsBefore(a, items, more)
  <2>1. IsList(items) /\ IsList(more)
    BY <1>1 DEF IsList
  <2>2. QED
    BY <1>2, <1>3, <2>1 DEF IsBefore
<1>5. \A s \in Stacks, m \in Stacks, t \in Stacks :
          Owes(a, s, m) /\ Path(items, m, t) => Path(more, s, t)
  BY <1>4, PathWithFirst
<1>6. QED
  BY <1>5 DEF more, items

LEMMA PathOfTen ==
    ASSUME NEW a, NEW b, NEW c, NEW d, NEW e, NEW f, NEW g, NEW h, NEW p, NEW q,
           NEW s0 \in Stacks, NEW s1 \in Stacks, NEW s2 \in Stacks, NEW s3 \in Stacks,
           NEW s4 \in Stacks, NEW s5 \in Stacks, NEW s6 \in Stacks, NEW s7 \in Stacks,
           NEW s8 \in Stacks, NEW s9 \in Stacks, NEW s10 \in Stacks, Owes(a, s0, s1),
           Owes(b, s1, s2), Owes(c, s2, s3), Owes(d, s3, s4), Owes(e, s4, s5), Owes(f, s5, s6),
           Owes(g, s6, s7), Owes(h, s7, s8), Owes(p, s8, s9), Owes(q, s9, s10)
    PROVE  Path(<<a, b, c, d, e, f, g, h, p, q>>, s0, s10)
<1>1. Path(<<b, c, d, e, f, g, h, p, q>>, s1, s10)
  BY PathOfNine
<1>2. QED
  BY <1>1, FirstOfTen

LEMMA PathOfBoth ==
    ASSUME NEW S, NEW items \in Seq(S), NEW others \in Seq(S),
           NEW s \in Stacks, NEW m \in Stacks, NEW t \in Stacks,
           Path(items, s, m), Path(others, m, t)
    PROVE  Path(items \o others, s, t)
<1> DEFINE k == Len(items)  l == Len(others)  all == items \o others
<1>1. /\ all \in Seq(S) /\ Len(all) = k + l /\ k \in Nat /\ l \in Nat
      /\ \A i \in 1 .. k : all[i] = items[i]
      /\ \A i \in k + 1 .. k + l : all[i] = others[i - k]
  BY ConcatElements
<1>2. PICK on \in [0 .. k -> Stacks] :
          /\ on[0] = s /\ on[k] = m
          /\ \A i \in 1 .. k : Owes(items[i], on[i - 1], on[i])
  BY DEF Path
<1>3. PICK then \in [0 .. l -> Stacks] :
          /\ then[0] = m /\ then[l] = t
          /\ \A i \in 1 .. l : Owes(others[i], then[i - 1], then[i])
  BY DEF Path
<1> DEFINE new == [i \in 0 .. k + l |-> IF i <= k THEN on[i] ELSE then[i - k]]
<1> HIDE DEF all, k, l
<1>4. /\ new \in [0 .. k + l -> Stacks]
      /\ \A i \in 0 .. k : new[i] = on[i]
      /\ \A i \in k .. k + l : new[i] = then[i - k]
  <2>1. \A i \in 0 .. k + l : IF i <= k THEN i \in 0 .. k ELSE i - k \in 0 .. l
    BY <1>1
  <2>2. new \in [0 .. k + l -> Stacks]
    BY <1>2, <1>3, <2>1
  <2>3. \A i \in 0 .. k : new[i] = on[i]
    BY <1>1
  <2>4. \A i \in k .. k + l : new[i] = then[i - k]
    <3>1. k - k = 0
      BY <1>1
    <3>2. SUFFICES ASSUME NEW i \in k .. k + l PROVE new[i] = then[i - k]
      OBVIOUS
    <3>3. CASE i = k
      BY <1>1, <1>2, <1>3, <2>3, <3>1, <3>3
    <3>4. CASE i # k
      BY <1>1, <3>4
    <3>5. QED
      BY <3>3, <3>4
  <2>5. QED
    BY <2>2, <2>3, <2>4
<1> HIDE DEF new
<1>5. new[0] = s /\ new[k + l] = t
  <2>1. (k + l) - k = l /\ k + l \in k .. k + l /\ 0 \in 0 .. k
    BY <1>1
  <2>2. QED
    BY <1>2, <1>3, <1>4, <2>1
<1>6. ASSUME NEW i \in 1 .. k + l PROVE Owes(all[i], new[i - 1], new[i])
  <2>1. CASE i <= k
    <3>1. i \in 1 .. k /\ i \in 0 .. k /\ i - 1 \in 0 .. k
      BY <1>1, <2>1
    <3>2. all[i] = items[i] /\ new[i] = on[i] /\ new[i - 1] = on[i - 1]
      BY <1>1, <1>4, <3>1
    <3>3. Owes(items[i], on[i - 1], on[i])
      BY <1>2, <3>1
    <3>4. QED
      BY <3>2, <3>3
  <2>2. CASE i > k
    <3>1. /\ i \in k + 1 .. k + l /\ i \in k .. k + l /\ i - 1 \in k .. k + l
          /\ i - k \in 1 .. l /\ (i - 1) - k = (i - k) - 1
      BY <1>1, <2>2
    <3>2. all[i] = others[i - k] /\ new[i] = then[i - k] /\ new[i - 1] = then[(i - k) - 1]
      <4>1. new[i - 1] = then[(i - 1) - k]
        BY <1>4, <3>1
      <4>2. QED
        BY <1>1, <1>4, <3>1, <4>1
    <3>3. Owes(others[i - k], then[(i - k) - 1], then[i - k])
      BY <1>3, <3>1
    <3>4. QED
      BY <3>2, <3>3
  <2>3. QED
    BY <1>1, <2>1, <2>2
<1>7. IsList(all)
  BY <1>1 DEF IsList
<1>8. Path(all, s, t)
  BY <1>1, <1>4, <1>5, <1>6, <1>7 DEF Path
<1>9. QED
  BY <1>8 DEF all

\* Activations that leave the brackets as they are.
Neutral(item) ==
    /\ item.task \notin {"fail", "failType", "namespaceBody", "cases", "afterDefault"}
    /\ item.task = "expect" => item.text \notin Openers /\ item.text \notin Closers

LEMMA NeutralOwes ==
    ASSUME NEW item, Neutral(item), NEW s
    PROVE  Owes(item, s, s)
<1>1. CASE item.task = "expect"
  <2>1. OpenAfter(s, Token(item.text, "")) = s
    BY <1>1, TokenType, OpenAfterNone DEF Neutral
  <2>2. QED
    BY <1>1, <2>1 DEF Owes
<1>2. CASE item.task # "expect"
  BY <1>2 DEF Owes, Neutral
<1>3. QED
  BY <1>1, <1>2

LEMMA NeutralOwesOnly ==
    ASSUME NEW item, Neutral(item), NEW s, NEW t, Owes(item, s, t)
    PROVE  t = s
<1>1. CASE item.task = "expect"
  <2>1. OpenAfter(s, Token(item.text, "")) = s
    BY <1>1, TokenType, OpenAfterNone DEF Neutral
  <2>2. QED
    BY <1>1, <2>1 DEF Owes
<1>2. CASE item.task # "expect"
  BY <1>2 DEF Owes, Neutral
<1>3. QED
  BY <1>1, <1>2

LEMMA NeutralPath ==
    ASSUME NEW S, NEW items \in Seq(S), \A i \in 1 .. Len(items) : Neutral(items[i]),
           NEW s \in Stacks
    PROVE  Path(items, s, s)
<1> DEFINE k == Len(items)  on == [i \in 0 .. k |-> s]
<1>1. k \in Nat /\ IsList(items)
  BY DEF IsList
<1> HIDE DEF k
<1>2. on \in [0 .. k -> Stacks] /\ on[0] = s /\ on[k] = s
  BY <1>1
<1>3. \A i \in 1 .. k : on[i - 1] = s /\ on[i] = s
  BY <1>1
<1> HIDE DEF on
<1>4. \A i \in 1 .. k : Owes(items[i], on[i - 1], on[i])
  BY <1>3, NeutralOwes DEF k
<1>5. QED
  BY <1>1, <1>2, <1>4 DEF Path, k

\* The top activation is replaced by these.
LEMMA OwingAfter ==
    ASSUME work \in Seq(Activations), work # <<>>, NEW items, Then(items), IsList(items),
           NEW s \in Stacks, NEW u \in Stacks, Owing(s),
           \A t \in Stacks : Owes(Top, s, t) => Path(items, u, t)
    PROVE  Owing(u)'
<1> DEFINE n == Len(work)  k == Len(items)
<1>1. PICK left \in [0 .. n -> Stacks] :
          /\ left[0] = <<>> /\ left[n] = s
          /\ \A i \in 1 .. n : Owes(work[i], left[i], left[i - 1])
  BY DEF Owing
<1>2. n \in Nat \ {0}
  OBVIOUS
<1>3. PICK S : items \in Seq(S)
  BY DEF IsList
<1>4. k \in Nat
  BY <1>3
<1>5. /\ Len(work') = n - 1 + k
      /\ \A i \in 1 .. n - 1 : work'[i] = work[i]
      /\ \A i \in n .. n - 1 + k : work'[i] = items[k + n - i]
  <2> DEFINE T == S \cup Activations
  <2>1. work \in Seq(T) /\ items \in Seq(T)
    <3>1. Activations \subseteq T /\ S \subseteq T
      OBVIOUS
    <3> HIDE DEF T
    <3>2. QED
      BY <1>3, <3>1, SeqMonotonic
  <2> HIDE DEF T
  <2>2. work' = Replaced(work, items)
    BY DEF Then
  <2>3. QED
    BY <2>1, <2>2, ReplacedProperties
<1> HIDE DEF k
<1>6. left[n - 1] \in Stacks /\ Owes(Top, s, left[n - 1])
  <2>1. n - 1 \in 0 .. n /\ n \in 1 .. n
    BY <1>2
  <2>2. Owes(work[n], left[n], left[n - 1])
    BY <1>1, <2>1
  <2>3. QED
    BY <1>1, <2>1, <2>2 DEF Top
<1>7. PICK on \in [0 .. k -> Stacks] :
          /\ on[0] = u /\ on[k] = left[n - 1]
          /\ \A i \in 1 .. k : Owes(items[i], on[i - 1], on[i])
  BY <1>6 DEF Path, k
<1> HIDE DEF n
<1> DEFINE m == n - 1 + k
           new == [i \in 0 .. m |-> IF i <= n - 1 THEN left[i] ELSE on[(k + n - 1) - i]]
<1>8. /\ new \in [0 .. m -> Stacks]
      /\ \A i \in 0 .. n - 1 : new[i] = left[i]
      /\ \A i \in n - 1 .. m : new[i] = on[(k + n - 1) - i]
  <2>1. \A i \in 0 .. m : IF i <= n - 1 THEN i \in 0 .. n ELSE (k + n - 1) - i \in 0 .. k
    BY <1>2, <1>4
  <2>2. new \in [0 .. m -> Stacks]
    BY <1>1, <1>7, <2>1
  <2>3. \A i \in 0 .. n - 1 : new[i] = left[i]
    BY <1>2, <1>4
  <2>4. \A i \in n - 1 .. m : new[i] = on[(k + n - 1) - i]
    <3>1. SUFFICES ASSUME NEW i \in n - 1 .. m PROVE new[i] = on[(k + n - 1) - i]
      OBVIOUS
    <3>2. CASE i = n - 1
      <4>1. (k + n - 1) - i = k /\ i \in 0 .. n - 1
        BY <1>2, <1>4, <3>2
      <4>2. QED
        BY <1>7, <2>3, <3>2, <4>1
    <3>3. CASE i # n - 1
      <4>1. i \in 0 .. m /\ ~(i <= n - 1)
        BY <1>2, <1>4, <3>3
      <4>2. QED
        BY <4>1
    <3>4. QED
      BY <3>2, <3>3
  <2>5. QED
    BY <2>2, <2>3, <2>4
<1> HIDE DEF new
<1>9. new[0] = <<>> /\ new[m] = u
  <2>1. 0 \in 0 .. n - 1 /\ m \in n - 1 .. m /\ (k + n - 1) - m = 0
    BY <1>2, <1>4
  <2>2. QED
    BY <1>1, <1>7, <1>8, <2>1
<1>10. ASSUME NEW i \in 1 .. m PROVE Owes(work'[i], new[i], new[i - 1])
  <2>1. CASE i <= n - 1
    <3>1. i \in 1 .. n - 1 /\ i \in 1 .. n /\ i \in 0 .. n - 1 /\ i - 1 \in 0 .. n - 1
      BY <1>2, <1>4, <2>1
    <3>2. work'[i] = work[i] /\ new[i] = left[i] /\ new[i - 1] = left[i - 1]
      BY <1>5, <1>8, <3>1
    <3>3. Owes(work[i], left[i], left[i - 1])
      BY <1>1, <3>1
    <3>4. QED
      BY <3>2, <3>3
  <2>2. CASE i > n - 1
    <3> DEFINE j == k + n - i
    <3>1. /\ i \in n .. n - 1 + k /\ i \in n - 1 .. m /\ i - 1 \in n - 1 .. m
          /\ j \in 1 .. k /\ (k + n - 1) - i = j - 1 /\ (k + n - 1) - (i - 1) = j
      BY <1>2, <1>4, <2>2
    <3>2. work'[i] = items[j]
      BY <1>5, <3>1
    <3>3. new[i] = on[(k + n - 1) - i] /\ new[i - 1] = on[(k + n - 1) - (i - 1)]
      BY <1>8, <3>1
    <3>4. Owes(items[j], on[j - 1], on[j])
      BY <1>7, <3>1
    <3> HIDE DEF j, m
    <3>5. QED
      BY <3>1, <3>2, <3>3, <3>4
  <2>3. QED
    BY <1>2, <1>4, <2>1, <2>2
<1>11. Len(work') = m
  BY <1>5
<1> HIDE DEF m
<1>12. QED
  BY <1>8, <1>9, <1>10, <1>11 DEF Owing

LEMMA EndIsNeutral ==
    ASSUME NEW s
    PROVE  OpenAfter(s, EndOfFile) = s
<1>1. EndOfFile.type = "EndOfFile"
  BY TypeOfEnd
<1>2. "EndOfFile" \notin Openers /\ "EndOfFile" \notin Closers
  BY Zenon DEF Openers, Closers
<1>3. QED
  BY <1>1, <1>2, OpenAfterNone

LEMMA OpenedMore ==
    ASSUME NEW n \in Nat, NEW s \in Stacks, Opened(n, s)
    PROVE  Opened(n + 1, OpenAfter(s, source[n + 1]))
<1> DEFINE next == OpenAfter(s, source[n + 1])
<1>1. PICK behind \in [0 .. n -> Stacks] :
          /\ behind[0] = <<>> /\ behind[n] = s
          /\ \A i \in 1 .. n : behind[i] = OpenAfter(behind[i - 1], source[i])
  BY DEF Opened
<1>2. next \in Stacks
  BY OpenAfterTyped
<1> DEFINE new == [i \in 0 .. n + 1 |-> IF i <= n THEN behind[i] ELSE next]
<1> HIDE DEF next
<1>3. /\ new \in [0 .. n + 1 -> Stacks]
      /\ \A i \in 0 .. n : new[i] = behind[i]
      /\ new[n + 1] = next
  BY <1>1, <1>2
<1> HIDE DEF new
<1>4. new[0] = <<>>
  BY <1>1, <1>3
<1>5. ASSUME NEW i \in 1 .. n + 1 PROVE new[i] = OpenAfter(new[i - 1], source[i])
  <2>1. CASE i = n + 1
    <3>1. i - 1 = n /\ n \in 0 .. n
      BY <2>1
    <3>2. new[i] = next /\ new[i - 1] = s
      BY <1>1, <1>3, <2>1, <3>1
    <3>3. next = OpenAfter(s, source[i])
      BY <2>1 DEF next
    <3>4. QED
      BY <3>2, <3>3
  <2>2. CASE i # n + 1
    <3>1. i \in 1 .. n /\ i \in 0 .. n /\ i - 1 \in 0 .. n
      BY <2>2
    <3>2. new[i] = behind[i] /\ new[i - 1] = behind[i - 1]
      BY <1>3, <3>1
    <3>3. QED
      BY <1>1, <3>1, <3>2
  <2>3. QED
    BY <2>1, <2>2
<1>6. Opened(n + 1, next)
  BY <1>3, <1>4, <1>5 DEF Opened
<1>7. QED
  BY <1>6 DEF next

\* What advance does where it does not fail.
LEMMA AdvancePasses ==
    ASSUME TokensOK, advance, ~failed'
    PROVE  /\ source' = source
           /\ \/ position' = position + 1 /\ position <= Len(source)
              \/ position' = position /\ current = EndOfFile
<1> DEFINE n == Len(bufferedTokens)
<1>1. /\ n \in Nat /\ position \in Nat /\ delivered \in Nat /\ Len(source) \in Nat
      /\ delivered = position + n /\ n <= delivered /\ delivered <= Len(source) + 1
      /\ bufferedTokens \in Seq(Tokens \cup {EndOfFile})
      /\ \A i \in Int : At(i) = EndOfFile <=> i \notin 1 .. Len(source)
  BY AtOK DEF TokensOK, position
<1>2. ~failed
  BY DEF advance, tokenVars, failed
<1>3. CASE bufferedTokens # <<>>
  <2>1. bufferedTokens' = Tail(bufferedTokens) /\ UNCHANGED <<source, delivered>>
    BY <1>2, <1>3 DEF advance
  <2>2. n \in Nat \ {0} /\ Len(bufferedTokens') = n - 1
    BY <1>1, <1>3, <2>1
  <2>3. position' = position + 1
    BY <1>1, <2>1, <2>2 DEF position
  <2>4. position <= Len(source)
    BY <1>1, <2>2
  <2>5. QED
    BY <2>1, <2>3, <2>4
<1>4. CASE bufferedTokens = <<>>
  <2>1. Lexed.type # "error"
    BY <1>2, <1>4 DEF advance, setDiagnostic, failed
  <2>2. Deliver /\ UNCHANGED <<source, bufferedTokens>>
    BY <1>2, <1>4, <2>1 DEF advance
  <2>3. n = 0 /\ position = delivered /\ position' = delivered'
    <3>1. n = 0 /\ Len(bufferedTokens') = 0
      BY <1>4, <2>2
    <3>2. delivered' \in Nat
      BY <1>1, <2>2 DEF Deliver
    <3>3. position' = delivered' - Len(bufferedTokens')
      BY DEF position
    <3>4. position' = delivered'
      <4>1. delivered' - 0 = delivered'
        <5>1. \A x \in Nat : x - 0 = x
          OBVIOUS
        <5>2. QED
          BY <3>2, <5>1
      <4>2. position' = delivered' - 0
        BY <3>1, <3>3
      <4>3. QED
        BY <4>1, <4>2
    <3>5. position = delivered
      <4>1. delivered = position + n /\ position \in Nat
        BY <1>1
      <4> HIDE DEF n
      <4>2. QED
        BY <3>1, <4>1
    <3>6. QED
      BY <3>1, <3>4, <3>5
  <2>4. CASE delivered <= Len(source)
    BY <2>2, <2>3, <2>4 DEF Deliver
  <2>5. CASE ~(delivered <= Len(source))
    <3>1. delivered' = delivered
      BY <2>2, <2>5 DEF Deliver
    <3>2. At(position) = EndOfFile
      <4>1. position \in Int /\ position \notin 1 .. Len(source)
        BY <1>1, <2>3, <2>5
      <4>2. QED
        BY <1>1, <4>1
    <3>3. current = EndOfFile
      BY <1>2, <3>2 DEF TokensOK
    <3>4. QED
      BY <2>2, <2>3, <3>1, <3>3
  <2>6. QED
    BY <2>4, <2>5
<1>5. QED
  BY <1>3, <1>4

LEMMA OpenedOn ==
    ASSUME TokensOK, advance, ~failed', NEW s \in Stacks, Opened(passed, s),
           NEW next, next = OpenAfter(s, current)
    PROVE  Opened(passed, next)'
<1>1. /\ source' = source
      /\ \/ position' = position + 1 /\ position <= Len(source)
         \/ position' = position /\ current = EndOfFile
  BY AdvancePasses
<1>2. ~failed
  BY DEF advance, tokenVars, failed
<1>3. position \in Nat /\ Len(source) \in Nat /\ current = At(position)
  BY <1>2, AtOK DEF TokensOK
<1>4. Opened(passed', next)
  <2>1. CASE position = 0
    <3>1. passed = 0 /\ passed' = 0
      BY <1>1, <1>3, <2>1 DEF passed
    <3>2. current = EndOfFile
      <4>1. position \in Int /\ position \notin 1 .. Len(source)
        BY <2>1
      <4>2. QED
        BY <1>3, <4>1, AtOK
    <3>3. next = s
      BY <3>2, EndIsNeutral
    <3>4. QED
      BY <3>1, <3>3
  <2>2. CASE position # 0 /\ current = EndOfFile /\ position' = position
    <3>1. next = s
      BY <2>2, EndIsNeutral
    <3>2. passed' = passed
      BY <2>2 DEF passed
    <3>3. QED
      BY <3>1, <3>2
  <2>3. CASE position # 0 /\ position' = position + 1 /\ position <= Len(source)
    <3>1. passed \in Nat /\ passed + 1 = position /\ passed' = position
      BY <1>3, <2>3 DEF passed
    <3>2. current = source[position]
      <4>1. position \in 1 .. Len(source) /\ DOMAIN source = 1 .. Len(source)
        BY <1>3, <2>3 DEF TokensOK
      <4>2. QED
        BY <1>3, <4>1 DEF At
    <3>3. Opened(passed + 1, OpenAfter(s, source[passed + 1]))
      BY <3>1, OpenedMore
    <3>4. OpenAfter(s, source[passed + 1]) = next
      BY <3>1, <3>2
    <3>5. QED
      BY <3>1, <3>3, <3>4
  <2>4. QED
    BY <1>1, <2>1, <2>2, <2>3
<1>5. PICK behind \in [0 .. passed' -> Stacks] :
          /\ behind[0] = <<>> /\ behind[passed'] = next
          /\ \A i \in 1 .. passed' : behind[i] = OpenAfter(behind[i - 1], source[i])
  BY <1>4 DEF Opened
<1>6. \A i \in 1 .. passed' : behind[i] = OpenAfter(behind[i - 1], source'[i])
  BY <1>1, <1>5
<1>7. QED
  BY <1>5, <1>6 DEF Opened

LEMMA OpenedStays ==
    ASSUME UNCHANGED <<source, position>>, NEW s, Opened(passed, s)
    PROVE  Opened(passed, s)'
BY DEF Opened, passed

-----------------------------------------------------------------------------
(* What the actions do to them.                                            *)

\* The activations that take the place of the top one do what it had to do, or
\* what is left of it behind the current token.
Leads(items) ==
    /\ IsList(items)
    /\ \A s \in Stacks, t \in Stacks : Owes(Top, s, t) => Path(items, s, t)
LeadsOn(items) ==
    /\ IsList(items)
    /\ \A s \in Stacks, t \in Stacks : Owes(Top, s, t) => Path(items, OpenAfter(s, current), t)

Turn ==
    \/ failed'
    \/ UNCHANGED <<source, position, failed, work>>
    \/ \E items :
          /\ Then(items)
          /\ \/ UNCHANGED tokenVars /\ Leads(items)
             \/ advance /\ LeadsOn(items)

LEMMA TurnKeeps ==
    ASSUME PInv, Balanced, work # <<>>, Turn
    PROVE  Balanced'
<1>1. CASE failed'
  BY <1>1 DEF Balanced
<1>2. CASE UNCHANGED <<source, position, failed, work>>
  <2>1. CASE failed
    BY <1>2, <2>1 DEF Balanced
  <2>2. CASE ~failed
    <3>1. PICK open \in Stacks : Opened(passed, open) /\ Owing(open)
      BY <2>2 DEF Balanced
    <3>2. Opened(passed, open)'
      BY <1>2, <3>1, OpenedStays
    <3>3. Owing(open)'
      BY <1>2, <3>1 DEF Owing
    <3>4. QED
      BY <3>2, <3>3 DEF Balanced
  <2>3. QED
    BY <2>1, <2>2
<1>3. ASSUME NEW items, Then(items), UNCHANGED tokenVars, Leads(items), ~failed' PROVE Balanced'
  <2>1. ~failed /\ UNCHANGED <<source, position>>
    BY <1>3 DEF tokenVars, failed, position
  <2>2. PICK open \in Stacks : Opened(passed, open) /\ Owing(open)
    BY <2>1 DEF Balanced
  <2>3. Opened(passed, open)'
    BY <2>1, <2>2, OpenedStays
  <2>4. Owing(open)'
    <3>1. work \in Seq(Activations)
      BY DEF PInv, TypeOK
    <3>2. QED
      BY <1>3, <2>2, <3>1, OwingAfter DEF Leads
  <2>5. QED
    BY <2>3, <2>4 DEF Balanced
<1>4. ASSUME NEW items, Then(items), advance, LeadsOn(items), ~failed' PROVE Balanced'
  <2>1. ~failed /\ TokensOK
    BY <1>4 DEF advance, tokenVars, failed, PInv
  <2>2. PICK open \in Stacks : Opened(passed, open) /\ Owing(open)
    BY <2>1 DEF Balanced
  <2>3. PICK next : next = OpenAfter(open, current)
    OBVIOUS
  <2>4. Opened(passed, next)'
    BY <1>4, <2>1, <2>2, <2>3, OpenedOn
  <2>5. next \in Stacks
    BY <2>3, OpenAfterTyped
  <2>6. \A t \in Stacks : Owes(Top, open, t) => Path(items, next, t)
    BY <1>4, <2>3 DEF LeadsOn
  <2>7. Owing(next)'
    <3>1. work \in Seq(Activations) /\ IsList(items)
      BY <1>4 DEF PInv, TypeOK, LeadsOn
    <3>2. QED
      BY <1>4, <2>2, <2>5, <2>6, <3>1, OwingAfter
  <2>8. QED
    BY <2>4, <2>5, <2>7 DEF Balanced
<1>5. QED
  BY <1>1, <1>2, <1>3, <1>4 DEF Turn

\* Most activations and most tokens have nothing to do with brackets.
Burdened == {"expect", "fail", "failType", "namespaceBody", "cases", "afterDefault"}
PlainTypes == (TokenTypes \ {"(", ")", "{", "}", "[", "]"}) \cup {"EndOfFile"}
PlainToken == current.type \notin Openers /\ current.type \notin Closers

Quiet(items) == IsList(items) /\ \A i \in 1 .. Len(items) : Neutral(items[i])

LEMMA NeutralTop ==
    ASSUME NEW task, Running(task), task \notin Burdened
    PROVE  work # <<>> /\ Neutral(Top)
BY DEF Running, Burdened, Neutral

LEMMA PlainNoBrackets ==
    \A t \in PlainTypes : t \notin Openers /\ t \notin Closers
BY Zenon DEF PlainTypes, Openers, Closers

LEMMA PlainNow ==
    /\ \A t \in PlainTypes : check(t) => PlainToken
    /\ \A T \in SUBSET PlainTypes : checkAny(T) => PlainToken
BY PlainNoBrackets DEF check, checkAny, PlainToken

LEMMA NeutralItems ==
    /\ \A t : t \notin Burdened => Neutral(Go(t))
    /\ \A t, x : t \notin Burdened => Neutral(GoWith(t, x))
    /\ \A t, x, n, k : t \notin Burdened => Neutral(Item(t, x, n, k))
    /\ \A k : Neutral(Build(k))
    /\ \A t \in PlainTypes : Neutral(expect(t))
<1>1. \A t, x, n, k : t \notin Burdened => Neutral(Item(t, x, n, k))
  BY DEF Burdened, Neutral, Item
<1>2. \A k : Neutral(Build(k))
  BY <1>1 DEF Build, GoWith, Burdened
<1>3. ASSUME NEW t \in PlainTypes PROVE Neutral(expect(t))
  <2>1. t \notin Openers /\ t \notin Closers
    BY PlainNoBrackets
  <2>2. expect(t).task = "expect" /\ expect(t).text = t
    BY DEF expect, GoWith, Item
  <2>3. QED
    BY <2>1, <2>2 DEF Neutral
<1>4. QED
  BY <1>1, <1>2, <1>3 DEF Go, GoWith

LEMMA Plain ==
    /\ TypeKeywords \subseteq PlainTypes /\ Texted \subseteq PlainTypes
    /\ Keywords \subseteq PlainTypes /\ Operators \subseteq PlainTypes
    /\ {",", ";", ":", "::", ".", "EndOfFile"} \subseteq PlainTypes
<1>1. TypeKeywords \subseteq PlainTypes /\ Keywords \subseteq PlainTypes
  BY Zenon DEF PlainTypes, TokenTypes, TypeKeywords, Keywords
<1>2. Operators \subseteq PlainTypes
  BY Zenon DEF PlainTypes, TokenTypes, Operators
<1>3. Texted \subseteq PlainTypes /\ {",", ";", ":", "::", ".", "EndOfFile"} \subseteq PlainTypes
  BY Zenon DEF PlainTypes, TokenTypes, Texted, Marks
<1>4. QED
  BY <1>1, <1>2, <1>3

LEMMA NeutralExpect ==
    /\ \A t \in Texted \cup Keywords \cup Operators \cup {",", ";", ":", "::", "."} : Neutral(expect(t))
    /\ Neutral(expect("Identifier")) /\ Neutral(expect("IntLiteral"))
    /\ Neutral(expect(";")) /\ Neutral(expect(":"))
    /\ Neutral(expect("=")) /\ Neutral(expect("<")) /\ Neutral(expect(">"))
<1>1. \A t \in Texted \cup Keywords \cup Operators \cup {",", ";", ":", "::", "."} : Neutral(expect(t))
  BY Plain, NeutralItems
<1>2. "Identifier" \in Texted /\ "IntLiteral" \in Texted /\ "=" \in Operators /\ "<" \in Operators
      /\ ">" \in Operators
  BY DEF Texted, Operators
<1>3. QED
  BY <1>1, <1>2

LEMMA QuietNone == Quiet(<<>>)
<1>1. <<>> \in Seq({}) /\ Len(<<>>) = 0
  OBVIOUS
<1>2. QED
  BY <1>1 DEF Quiet, IsList

LEMMA QuietOne ==
    ASSUME NEW a, Neutral(a)
    PROVE  Quiet(<<a>>)
<1> DEFINE items == <<a>>
<1>1. items \in Seq({a}) /\ \A i \in 1 .. Len(items) : items[i] = a
  OBVIOUS
<1> HIDE DEF items
<1>2. Quiet(items)
  BY <1>1 DEF Quiet, IsList
<1>3. QED
  BY <1>2 DEF items

LEMMA QuietTwo ==
    ASSUME NEW a, NEW b,
           Neutral(a), Neutral(b)
    PROVE  Quiet(<<a, b>>)
<1> DEFINE items == <<a, b>>
<1>1. items \in Seq({a, b}) /\ \A i \in 1 .. Len(items) : items[i] \in {a, b}
  OBVIOUS
<1> HIDE DEF items
<1>2. Quiet(items)
  BY <1>1 DEF Quiet, IsList
<1>3. QED
  BY <1>2 DEF items

LEMMA QuietThree ==
    ASSUME NEW a, NEW b, NEW c,
           Neutral(a), Neutral(b), Neutral(c)
    PROVE  Quiet(<<a, b, c>>)
<1> DEFINE items == <<a, b, c>>
<1>1. items \in Seq({a, b, c}) /\ \A i \in 1 .. Len(items) : items[i] \in {a, b, c}
  OBVIOUS
<1> HIDE DEF items
<1>2. Quiet(items)
  BY <1>1 DEF Quiet, IsList
<1>3. QED
  BY <1>2 DEF items

LEMMA QuietFour ==
    ASSUME NEW a, NEW b, NEW c, NEW d,
           Neutral(a), Neutral(b), Neutral(c), Neutral(d)
    PROVE  Quiet(<<a, b, c, d>>)
<1> DEFINE items == <<a, b, c, d>>
<1>1. items \in Seq({a, b, c, d}) /\ \A i \in 1 .. Len(items) : items[i] \in {a, b, c, d}
  OBVIOUS
<1> HIDE DEF items
<1>2. Quiet(items)
  BY <1>1 DEF Quiet, IsList
<1>3. QED
  BY <1>2 DEF items

LEMMA QuietFive ==
    ASSUME NEW a, NEW b, NEW c, NEW d, NEW e,
           Neutral(a), Neutral(b), Neutral(c), Neutral(d), Neutral(e)
    PROVE  Quiet(<<a, b, c, d, e>>)
<1> DEFINE items == <<a, b, c, d, e>>
<1>1. items \in Seq({a, b, c, d, e}) /\ \A i \in 1 .. Len(items) : items[i] \in {a, b, c, d, e}
  OBVIOUS
<1> HIDE DEF items
<1>2. Quiet(items)
  BY <1>1 DEF Quiet, IsList
<1>3. QED
  BY <1>2 DEF items

LEMMA QuietBoth ==
    ASSUME NEW items, NEW others, Quiet(items), Quiet(others)
    PROVE  Quiet(items \o others)
<1>1. PICK S : items \in Seq(S)
  BY DEF Quiet, IsList
<1>2. PICK T : others \in Seq(T)
  BY DEF Quiet, IsList
<1> DEFINE U == S \cup T  all == items \o others
<1>3. items \in Seq(U) /\ others \in Seq(U)
  <2>1. S \subseteq U /\ T \subseteq U
    OBVIOUS
  <2> HIDE DEF U
  <2>2. QED
    BY <1>1, <1>2, <2>1, SeqMonotonic
<1> HIDE DEF U
<1>4. /\ all \in Seq(U) /\ Len(all) = Len(items) + Len(others)
      /\ Len(items) \in Nat /\ Len(others) \in Nat
      /\ \A i \in 1 .. Len(items) : all[i] = items[i]
      /\ \A i \in Len(items) + 1 .. Len(items) + Len(others) : all[i] = others[i - Len(items)]
  BY <1>3, ConcatElements
<1> HIDE DEF all
<1>5. ASSUME NEW i \in 1 .. Len(all) PROVE Neutral(all[i])
  <2>1. CASE i <= Len(items)
    <3>1. i \in 1 .. Len(items)
      BY <1>4, <2>1
    <3>2. QED
      BY <1>4, <3>1 DEF Quiet
  <2>2. CASE i > Len(items)
    <3>1. i \in Len(items) + 1 .. Len(items) + Len(others) /\ i - Len(items) \in 1 .. Len(others)
      BY <1>4, <2>2
    <3>2. QED
      BY <1>4, <3>1 DEF Quiet
  <2>3. QED
    BY <1>4, <2>1, <2>2
<1>6. Quiet(all)
  BY <1>4, <1>5 DEF Quiet, IsList
<1>7. QED
  BY <1>6 DEF all

LEMMA QuietPath ==
    ASSUME NEW items, Quiet(items)
    PROVE  IsList(items) /\ \A s \in Stacks : Path(items, s, s)
<1>1. PICK S : items \in Seq(S)
  BY DEF Quiet, IsList
<1>2. \A i \in 1 .. Len(items) : Neutral(items[i])
  BY DEF Quiet
<1>3. \A s \in Stacks : Path(items, s, s)
  BY <1>1, <1>2, NeutralPath
<1>4. QED
  BY <1>3 DEF Quiet

LEMMA NeutralStep ==
    ASSUME NEW nodes, NEW items, Step(nodes, items), Neutral(Top), Quiet(items)
    PROVE  Turn
<1>1. Leads(items)
  BY QuietPath, NeutralOwesOnly DEF Leads
<1>2. QED
  BY <1>1 DEF Step, Turn

LEMMA NeutralPass ==
    ASSUME NEW nodes, NEW items, Pass(nodes, items), Neutral(Top), Quiet(items), PlainToken
    PROVE  Turn
<1>1. \A s : OpenAfter(s, current) = s
  BY OpenAfterNone DEF PlainToken
<1>2. LeadsOn(items)
  BY <1>1, QuietPath, NeutralOwesOnly DEF LeadsOn
<1>3. QED
  BY <1>2 DEF Pass, Turn

LEMMA FailTurns ==
    ASSUME \/ \E items : FailAnd(items)
           \/ FailType
    PROVE  Turn
<1>1. setDiagnostic("syntax")
  BY DEF FailAnd, FailType
<1>2. failed'
  BY <1>1 DEF setDiagnostic, failed
<1>3. QED
  BY <1>2 DEF Turn

\* The other activations.
LEMMA StepTurns ==
    ASSUME NEW nodes, NEW items, Step(nodes, items), Leads(items)
    PROVE  Turn
BY DEF Step, Turn

LEMMA PassTurns ==
    ASSUME NEW nodes, NEW items, Pass(nodes, items), LeadsOn(items)
    PROVE  Turn
BY DEF Pass, Turn

\* A bracket and its partner.
LEMMA OwesBracket ==
    ASSUME NEW s \in Stacks
    PROVE  /\ \A b \in Openers : Append(s, b) \in Stacks /\ Owes(expect(b), s, Append(s, b))
           /\ Owes(expect(")"), Append(s, "("), s)
           /\ Owes(expect("]"), Append(s, "["), s)
           /\ Owes(expect(BraceClose), Append(s, BraceOpen), s)
<1>1. \A t : expect(t).task = "expect" /\ expect(t).text = t
  BY DEF expect, GoWith, Item
<1>2. \A t, x, y : Owes(expect(t), x, y) <=> y = OpenAfter(x, Token(t, ""))
  BY <1>1 DEF Owes
<1>3. ASSUME NEW b \in Openers PROVE Append(s, b) \in Stacks /\ Owes(expect(b), s, Append(s, b))
  <2>1. OpenAfter(s, Token(b, "")) = Append(s, b)
    BY TokenType, OpenAfterOpener
  <2>2. QED
    BY <1>2, <2>1, AppendedBracket
<1>4. ASSUME NEW t \in Closers PROVE Owes(expect(t), Append(s, Opposite[t]), s)
  <2>1. OpenAfter(Append(s, Opposite[t]), Token(t, "")) = s
    BY TokenType, OpenAfterCloser
  <2>2. QED
    BY <1>2, <2>1
<1>5. QED
  BY <1>3, <1>4, Brackets

-----------------------------------------------------------------------------
(* The methods that take and leave no bracket.                             *)

LEMMA PlainChecks ==
    /\ checkAny(TypeKeywords) => PlainToken
    /\ \A t \in Texted \cup {",", ";", ":", "::", "."} : check(t) => PlainToken
    /\ checkAny({"true", "false"}) => PlainToken
    /\ checkAny({"Identifier", "main"}) => PlainToken
    /\ checkAny({"+=", "-="}) => PlainToken
    /\ checkAny({"++", "--"}) => PlainToken
    /\ checkAny(DOMAIN PrefixOperator) => PlainToken
    /\ \A t \in {"<", "=", "let", "else", "case", "default"} : check(t) => PlainToken
<1>1. /\ {"true", "false"} \subseteq Keywords /\ {"let", "else", "case", "default"} \subseteq Keywords
      /\ {"<", "=", "+=", "-=", "++", "--"} \subseteq Operators
      /\ "Identifier" \in Texted /\ "main" \in Keywords
  BY DEF Keywords, Operators, Texted
<1>2. DOMAIN PrefixOperator \subseteq Operators
  BY DEF PrefixOperator, Operators
<1>3. QED
  BY <1>1, <1>2, Plain, PlainNow

LEMMA PeekTurns ==
    ASSUME PInv, PInv', [Stream!Next]_streamVars, peekToken, ~failed, UNCHANGED work
    PROVE  Turn
<1>1. CASE failed'
  BY <1>1 DEF Turn
<1>2. CASE ~failed'
  <2>1. Lexed.type # "error"
    BY <1>2 DEF peekToken, setDiagnostic, failed
  <2>2. /\ bufferedTokens' = Append(bufferedTokens, Lexed) /\ Deliver
        /\ UNCHANGED <<source, current, diagnostic>>
    BY <2>1 DEF peekToken
  <2>3. position' = position \/ position' = position + 1
    BY <1>2 DEF Stream!Next, Stream!Advance, Stream!GiveUp, streamVars, position
  <2>4. /\ position \in Nat /\ delivered \in Nat /\ Len(bufferedTokens) \in Nat
        /\ position = delivered - Len(bufferedTokens)
        /\ Lexed \in Tokens \cup {EndOfFile}
        /\ bufferedTokens \in Seq(Tokens \cup {EndOfFile})
    BY AtOK DEF PInv, TokensOK, position
  <2>5. Len(bufferedTokens') = Len(bufferedTokens) + 1
    BY <2>2, <2>4, AppendProperties
  <2>6. delivered' = delivered \/ delivered' = delivered + 1
    BY <2>2 DEF Deliver
  <2>7. position' = delivered' - Len(bufferedTokens')
    BY DEF position
  <2>8. position' = position
    BY <2>3, <2>4, <2>5, <2>6, <2>7
  <2>9. QED
    BY <2>2, <2>8 DEF Turn, failed
<1>3. QED
  BY <1>1, <1>2

LEMMA BuiltTurns ==
    ASSUME Built
    PROVE  work # <<>> /\ Turn
<1>1. work # <<>> /\ Neutral(Top) /\ Quiet(<<>>)
  <2>1. Running("build") /\ "build" \notin Burdened
    BY DEF Built, Burdened
  <2>2. QED
    BY <2>1, NeutralTop, QuietNone
<1>3. QED
  BY <1>1, PlainChecks, NeutralStep, NeutralPass, FailTurns DEF Built, Fail, Texted

LEMMA ParseTypeTurns ==
    ASSUME parseType
    PROVE  work # <<>> /\ Turn
<1>1. work # <<>> /\ Neutral(Top) /\ Quiet(<<>>)
  <2>1. Running("type") /\ "type" \notin Burdened
    BY DEF parseType, Burdened
  <2>2. QED
    BY <2>1, NeutralTop, QuietNone
<1>2. /\ Quiet(<<GoWith("arrayType", TypeOf[current.type])>>)
      /\ Quiet(<<GoWith("arrayType", "struct")>>)
      /\ Quiet(<<GoWith("arrayType", "generic")>>)
  BY <1>1, NeutralItems, NeutralExpect, QuietOne DEF Burdened
<1>3. QED
  BY <1>1, <1>2, PlainChecks, NeutralStep, NeutralPass, FailTurns
     DEF parseType, Fail, Texted

LEMMA ArraySizeTurns ==
    ASSUME ArraySize
    PROVE  work # <<>> /\ Turn
<1>1. work # <<>> /\ Neutral(Top) /\ Quiet(<<>>)
  <2>1. Running("arraySize") /\ "arraySize" \notin Burdened
    BY DEF ArraySize, Burdened
  <2>2. QED
    BY <2>1, NeutralTop, QuietNone
<1>3. QED
  BY <1>1, PlainChecks, NeutralStep, NeutralPass, FailTurns DEF ArraySize, Fail, Texted

LEMMA FieldNameTurns ==
    ASSUME FieldName
    PROVE  work # <<>> /\ Turn
<1>1. work # <<>> /\ Neutral(Top) /\ Quiet(<<>>)
  <2>1. Running("fieldName") /\ "fieldName" \notin Burdened
    BY DEF FieldName, Burdened
  <2>2. QED
    BY <2>1, NeutralTop, QuietNone
<1>2. Quiet(<<expect("Identifier"), expect(";"), Build("field"), Go("structField")>>)
  BY <1>1, NeutralItems, NeutralExpect, QuietFour DEF Burdened
<1>3. QED
  BY <1>1, <1>2, PlainChecks, NeutralStep, NeutralPass, FailTurns
     DEF FieldName, Fail, Texted

LEMMA ParseTypeAliasDeclTurns ==
    ASSUME parseTypeAliasDecl
    PROVE  work # <<>> /\ Turn
<1>1. work # <<>> /\ Neutral(Top) /\ Quiet(<<>>)
  <2>1. Running("alias") /\ "alias" \notin Burdened
    BY DEF parseTypeAliasDecl, Burdened
  <2>2. QED
    BY <2>1, NeutralTop, QuietNone
<1>2. Quiet(<<expect("="), type, Item("aliasTarget", LastName, <<>>, Len(tree) + 1)>>)
  BY <1>1, NeutralItems, NeutralExpect, QuietThree DEF Burdened, type
<1>3. QED
  BY <1>1, <1>2, PlainChecks, NeutralStep, NeutralPass, FailTurns
     DEF parseTypeAliasDecl, Fail, Texted

LEMMA TypeParametersTurns ==
    ASSUME TypeParameters
    PROVE  work # <<>> /\ Turn
<1>1. work # <<>> /\ Neutral(Top) /\ Quiet(<<>>)
  <2>1. Running("typeParameters") /\ "typeParameters" \notin Burdened
    BY DEF TypeParameters, Burdened
  <2>2. QED
    BY <2>1, NeutralTop, QuietNone
<1>2. Quiet(<<expect("Identifier"), Go("moreTypeParameters"), expect(">")>>)
  BY <1>1, NeutralItems, NeutralExpect, QuietThree DEF Burdened
<1>3. QED
  BY <1>1, <1>2, PlainChecks, NeutralStep, NeutralPass, FailTurns
     DEF TypeParameters, Fail, Texted

LEMMA MoreTypeParametersTurns ==
    ASSUME MoreTypeParameters
    PROVE  work # <<>> /\ Turn
<1>1. work # <<>> /\ Neutral(Top) /\ Quiet(<<>>)
  <2>1. Running("moreTypeParameters") /\ "moreTypeParameters" \notin Burdened
    BY DEF MoreTypeParameters, Burdened, MoreOf
  <2>2. QED
    BY <2>1, NeutralTop, QuietNone
<1>2. Quiet(<<expect("Identifier"), Top>>)
  BY <1>1, NeutralItems, NeutralExpect, QuietTwo DEF Burdened
<1>3. QED
  BY <1>1, <1>2, PlainChecks, NeutralStep, NeutralPass, FailTurns
     DEF MoreTypeParameters, Fail, Texted, MoreOf

LEMMA ParameterNameTurns ==
    ASSUME ParameterName
    PROVE  work # <<>> /\ Turn
<1>1. work # <<>> /\ Neutral(Top) /\ Quiet(<<>>)
  <2>1. Running("parameterName") /\ "parameterName" \notin Burdened
    BY DEF ParameterName, Burdened
  <2>2. QED
    BY <2>1, NeutralTop, QuietNone
<1>2. Quiet(<<expect("Identifier"), Go("moreParameters")>>)
  BY <1>1, NeutralItems, NeutralExpect, QuietTwo DEF Burdened
<1>3. QED
  BY <1>1, <1>2, PlainChecks, NeutralStep, NeutralPass, FailTurns
     DEF ParameterName, Fail, Texted

LEMMA MoreParametersTurns ==
    ASSUME MoreParameters
    PROVE  work # <<>> /\ Turn
<1>1. work # <<>> /\ Neutral(Top) /\ Quiet(<<>>)
  <2>1. Running("moreParameters") /\ "moreParameters" \notin Burdened
    BY DEF MoreParameters, Burdened, MoreOf
  <2>2. QED
    BY <2>1, NeutralTop, QuietNone
<1>2. Quiet(<<type, Go("parameterName")>>)
  BY <1>1, NeutralItems, NeutralExpect, QuietTwo DEF Burdened, type
<1>3. QED
  BY <1>1, <1>2, PlainChecks, NeutralStep, NeutralPass, FailTurns
     DEF MoreParameters, Fail, Texted, MoreOf

LEMMA ParseVarDeclStatementTurns ==
    ASSUME parseVarDeclStatement
    PROVE  work # <<>> /\ Turn
<1>1. work # <<>> /\ Neutral(Top) /\ Quiet(<<>>)
  <2>1. Running("varDecl") /\ "varDecl" \notin Burdened
    BY DEF parseVarDeclStatement, Burdened
  <2>2. QED
    BY <2>1, NeutralTop, QuietNone
<1>2. /\ Quiet(<<GoWith("letName", "let")>>)
      /\ Quiet(<<type, expect("Identifier"), GoWith("initializer", "mutable")>>)
  BY <1>1, NeutralItems, NeutralExpect, QuietOne, QuietThree DEF Burdened, type
<1>3. QED
  BY <1>1, <1>2, PlainChecks, NeutralStep, NeutralPass, FailTurns
     DEF parseVarDeclStatement, Fail, Texted

LEMMA LetNameTurns ==
    ASSUME LetName
    PROVE  work # <<>> /\ Turn
<1>1. work # <<>> /\ Neutral(Top) /\ Quiet(<<>>)
  <2>1. Running("letName") /\ "letName" \notin Burdened
    BY DEF LetName, Burdened
  <2>2. QED
    BY <2>1, NeutralTop, QuietNone
<1>2. /\ Quiet(<<expect("Identifier"), expect("="), expression, Build("let")>>)
      /\ Quiet(<<type, expect("Identifier"), GoWith("initializer", "let")>>)
  BY <1>1, NeutralItems, NeutralExpect, QuietThree, QuietFour DEF Burdened, type, expression
<1>3. QED
  BY <1>1, <1>2, PlainChecks, NeutralStep, NeutralPass, FailTurns
     DEF LetName, Fail, Texted

LEMMA InitializerTurns ==
    ASSUME Initializer
    PROVE  work # <<>> /\ Turn
<1>1. work # <<>> /\ Neutral(Top) /\ Quiet(<<>>)
  <2>1. Running("initializer") /\ "initializer" \notin Burdened
    BY DEF Initializer, Burdened
  <2>2. QED
    BY <2>1, NeutralTop, QuietNone
<1>2. Quiet(<<expression, GoWith("initialized", Top.text)>>)
  BY <1>1, NeutralItems, NeutralExpect, QuietTwo DEF Burdened, expression
<1>3. QED
  BY <1>1, <1>2, PlainChecks, NeutralStep, NeutralPass, FailTurns
     DEF Initializer, Fail, Texted

LEMMA InitializedTurns ==
    ASSUME Initialized
    PROVE  work # <<>> /\ Turn
<1>1. work # <<>> /\ Neutral(Top) /\ Quiet(<<>>)
  <2>1. Running("initialized") /\ "initialized" \notin Burdened
    BY DEF Initialized, Burdened
  <2>2. QED
    BY <2>1, NeutralTop, QuietNone
<1>3. QED
  BY <1>1, PlainChecks, NeutralStep, NeutralPass, FailTurns DEF Initialized, Fail, Texted

LEMMA AssignmentTurns ==
    ASSUME Assignment
    PROVE  work # <<>> /\ Turn
<1>1. work # <<>> /\ Neutral(Top) /\ Quiet(<<>>)
  <2>1. Running("assignment") /\ "assignment" \notin Burdened
    BY DEF Assignment, Burdened
  <2>2. QED
    BY <2>1, NeutralTop, QuietNone
<1>2. /\ Quiet(<<expression, Build("assign")>>)
      /\ Quiet(<<expression, Build(OperatorOf[current.type]), Build("assign")>>)
  BY <1>1, NeutralItems, NeutralExpect, QuietTwo, QuietThree DEF Burdened, expression
<1>3. CASE check("=")
  BY <1>1, <1>2, <1>3, PlainChecks, NeutralPass DEF Assignment, check, checkAny
<1>4. CASE checkAny({"+=", "-="})
  <2>1. ~check("=") /\ ~checkAny({"++", "--"})
    BY <1>4 DEF check, checkAny
  <2>2. PlainToken
    BY <1>4, PlainChecks
  <2>3. Pass(<<Named("name", LastName), N("variable")>>,
             <<expression, Build(OperatorOf[current.type]), Build("assign")>>)
    BY <1>4, <2>1 DEF Assignment
  <2>4. QED
    BY <1>1, <1>2, <2>2, <2>3, NeutralPass
<1>5. CASE checkAny({"++", "--"})
  <2>1. ~check("=") /\ ~checkAny({"+=", "-="})
    BY <1>5 DEF check, checkAny
  <2>2. PlainToken
    BY <1>5, PlainChecks
  <2>3. Pass(<<Named("name", LastName), N("variable"), Named("int", "1"),
               N(OperatorOf[current.type]), N("assign")>>, <<>>)
    BY <1>5, <2>1 DEF Assignment
  <2>4. QED
    BY <1>1, <2>2, <2>3, NeutralPass
<1>6. CASE ~check("=") /\ ~checkAny({"+=", "-="}) /\ ~checkAny({"++", "--"})
  BY <1>1, <1>6, FailTurns DEF Assignment, Fail
<1>7. QED
  BY <1>3, <1>4, <1>5, <1>6

LEMMA ElseTurns ==
    ASSUME Else
    PROVE  work # <<>> /\ Turn
<1>1. work # <<>> /\ Neutral(Top) /\ Quiet(<<>>)
  <2>1. Running("else") /\ "else" \notin Burdened
    BY DEF Else, Burdened
  <2>2. QED
    BY <2>1, NeutralTop, QuietNone
<1>2. Quiet(<<statement, Build("ifElse")>>)
  BY <1>1, NeutralItems, NeutralExpect, QuietTwo DEF Burdened, statement
<1>3. QED
  BY <1>1, <1>2, PlainChecks, NeutralStep, NeutralPass, FailTurns
     DEF Else, Fail, Texted

LEMMA ReturnValueTurns ==
    ASSUME ReturnValue
    PROVE  work # <<>> /\ Turn
<1>1. work # <<>> /\ Neutral(Top) /\ Quiet(<<>>)
  <2>1. Running("returnValue") /\ "returnValue" \notin Burdened
    BY DEF ReturnValue, Burdened
  <2>2. QED
    BY <2>1, NeutralTop, QuietNone
<1>2. Quiet(<<expression, Build("return")>>)
  BY <1>1, NeutralItems, NeutralExpect, QuietTwo DEF Burdened, expression
<1>3. QED
  BY <1>1, <1>2, PlainChecks, NeutralStep, NeutralPass, FailTurns
     DEF ReturnValue, Fail, Texted

LEMMA ArgumentsTurns ==
    ASSUME Arguments
    PROVE  work # <<>> /\ Turn
<1>1. work # <<>> /\ Neutral(Top) /\ Quiet(<<>>)
  <2>1. Running("arguments") /\ "arguments" \notin Burdened
    BY DEF Arguments, Burdened
  <2>2. QED
    BY <2>1, NeutralTop, QuietNone
<1>2. Quiet(<<expression, Go("moreArguments")>>)
  BY <1>1, NeutralItems, NeutralExpect, QuietTwo DEF Burdened, expression
<1>3. QED
  BY <1>1, <1>2, PlainChecks, NeutralStep, NeutralPass, FailTurns
     DEF Arguments, Fail, Texted

LEMMA MoreArgumentsTurns ==
    ASSUME MoreArguments
    PROVE  work # <<>> /\ Turn
<1>1. work # <<>> /\ Neutral(Top) /\ Quiet(<<>>)
  <2>1. Running("moreArguments") /\ "moreArguments" \notin Burdened
    BY DEF MoreArguments, Burdened, MoreOf
  <2>2. QED
    BY <2>1, NeutralTop, QuietNone
<1>2. Quiet(<<expression, Top>>)
  BY <1>1, NeutralItems, NeutralExpect, QuietTwo DEF Burdened, expression
<1>3. QED
  BY <1>1, <1>2, PlainChecks, NeutralStep, NeutralPass, FailTurns
     DEF MoreArguments, Fail, Texted, MoreOf

LEMMA MoreFieldsTurns ==
    ASSUME MoreFields
    PROVE  work # <<>> /\ Turn
<1>1. work # <<>> /\ Neutral(Top) /\ Quiet(<<>>)
  <2>1. Running("moreFields") /\ "moreFields" \notin Burdened
    BY DEF MoreFields, Burdened, MoreOf
  <2>2. QED
    BY <2>1, NeutralTop, QuietNone
<1>2. Quiet(<<expect("Identifier"), expect(":"), expression, Go("moreFields")>>)
  BY <1>1, NeutralItems, NeutralExpect, QuietFour DEF Burdened, expression
<1>3. QED
  BY <1>1, <1>2, PlainChecks, NeutralStep, NeutralPass, FailTurns
     DEF MoreFields, Fail, Texted, MoreOf, fieldValue

LEMMA ParseQualifiedCallExpressionTurns ==
    ASSUME parseQualifiedCallExpression
    PROVE  work # <<>> /\ Turn
<1>1. work # <<>> /\ Neutral(Top) /\ Quiet(<<>>)
  <2>1. Running("qualified") /\ "qualified" \notin Burdened
    BY DEF parseQualifiedCallExpression, Burdened
  <2>2. QED
    BY <2>1, NeutralTop, QuietNone
<1>2. /\ Quiet(<<expect("Identifier"), Build("member"), Top>>)
      /\ Quiet(<<GoWith("genericCall", "qualified")>>)
      /\ Quiet(<<Go("call")>>)
  BY <1>1, NeutralItems, NeutralExpect, QuietOne, QuietThree DEF Burdened
<1>3. QED
  BY <1>1, <1>2, PlainChecks, NeutralStep, NeutralPass, FailTurns
     DEF parseQualifiedCallExpression, Fail, Texted

LEMMA MoreTypesTurns ==
    ASSUME MoreTypes
    PROVE  work # <<>> /\ Turn
<1>1. work # <<>> /\ Neutral(Top) /\ Quiet(<<>>)
  <2>1. Running("moreTypes") /\ "moreTypes" \notin Burdened
    BY DEF MoreTypes, Burdened, MoreOf
  <2>2. QED
    BY <2>1, NeutralTop, QuietNone
<1>2. Quiet(<<type, Top>>)
  BY <1>1, NeutralItems, NeutralExpect, QuietTwo DEF Burdened, type
<1>3. QED
  BY <1>1, <1>2, PlainChecks, NeutralStep, NeutralPass, FailTurns
     DEF MoreTypes, Fail, Texted, MoreOf

-----------------------------------------------------------------------------
(* What the methods leave to be done closes what they have opened.         *)

LEMMA NeutralThen ==
    ASSUME NEW items, Then(items), UNCHANGED tokenVars, Neutral(Top), Quiet(items)
    PROVE  Turn
<1>1. Leads(items)
  BY QuietPath, NeutralOwesOnly DEF Leads
<1>2. QED
  BY <1>1 DEF Turn

LEMMA PathIsList ==
    ASSUME NEW items, NEW s, NEW t, Path(items, s, t)
    PROVE  IsList(items)
BY DEF Path

\* Activations whose brackets are pairs.
LEMMA PathLeads ==
    ASSUME NEW items, Neutral(Top), \A s \in Stacks : Path(items, s, s)
    PROVE  Leads(items) /\ (PlainToken => LeadsOn(items))
<1>1. IsList(items)
  BY EmptyStack, PathIsList
<1>2. PlainToken => \A s : OpenAfter(s, current) = s
  BY OpenAfterNone DEF PlainToken
<1>3. QED
  BY <1>1, <1>2, NeutralOwesOnly DEF Leads, LeadsOn

\* The first bracket of a pair is the current token.
LEMMA PathLeadsOn ==
    ASSUME NEW items, Neutral(Top), NEW b \in Openers, check(b),
           \A s \in Stacks : Path(items, Append(s, b), s)
    PROVE  LeadsOn(items)
<1>1. IsList(items)
  BY EmptyStack, PathIsList
<1>2. \A s : OpenAfter(s, current) = Append(s, b)
  BY OpenAfterOpener DEF check
<1>3. QED
  BY <1>1, <1>2, NeutralOwesOnly DEF LeadsOn

LEMMA ArrayTypePath ==
    ASSUME NEW s \in Stacks
    PROVE  Path(<<expect("IntLiteral"), expect("]"), Go("arraySize")>>, Append(s, "["), s)
<1> DEFINE q == Append(s, "[")
<1>1. /\ q \in Stacks
      /\ Owes(expect("]"), q, s)
  BY OwesBracket, Brackets
<1>2. /\ Owes(expect("IntLiteral"), q, q)
      /\ Owes(Go("arraySize"), s, s)
  BY NeutralItems, NeutralExpect, NeutralOwes
     DEF Burdened, Texted, Keywords, Operators
<1> HIDE DEF q
<1>3. Path(<<expect("IntLiteral"), expect("]"), Go("arraySize")>>, q, s)
  BY <1>1, <1>2, PathOfThree
<1>4. QED
  BY <1>3 DEF q

LEMMA StructPath ==
    ASSUME NEW s \in Stacks
    PROVE  Path(<<expect(BraceOpen), Go("structField"), expect(BraceClose),
                  Build("structDecl")>>, s, s)
<1> DEFINE c == Append(s, BraceOpen)
<1>1. /\ c \in Stacks
      /\ Owes(expect(BraceOpen), s, c)
      /\ Owes(expect(BraceClose), c, s)
  BY OwesBracket, Brackets
<1>2. /\ Owes(Go("structField"), c, c)
      /\ Owes(Build("structDecl"), s, s)
  BY NeutralItems, NeutralExpect, NeutralOwes
     DEF Burdened, Texted, Keywords, Operators
<1> HIDE DEF c
<1>3. QED
  BY <1>1, <1>2, PathOfFour

LEMMA FunctionPath ==
    ASSUME NEW s \in Stacks
    PROVE  Path(<<Go("typeParameters"), expect("("), Go("parameters"), expect(")"), Go("block"),
                  Build("function")>>, s, s)
<1> DEFINE r == Append(s, "(")
<1>1. /\ r \in Stacks
      /\ Owes(expect("("), s, r)
      /\ Owes(expect(")"), r, s)
  BY OwesBracket, Brackets
<1>2. /\ Owes(Go("typeParameters"), s, s)
      /\ Owes(Go("parameters"), r, r)
      /\ Owes(Go("block"), s, s)
      /\ Owes(Build("function"), s, s)
  BY NeutralItems, NeutralExpect, NeutralOwes
     DEF Burdened, Texted, Keywords, Operators
<1> HIDE DEF r
<1>3. QED
  BY <1>1, <1>2, PathOfSix

LEMMA BlockPath ==
    ASSUME NEW s \in Stacks
    PROVE  Path(<<expect(BraceOpen), GoWith("statements", "block"), expect(BraceClose),
                  Build("block")>>, s, s)
<1> DEFINE c == Append(s, BraceOpen)
<1>1. /\ c \in Stacks
      /\ Owes(expect(BraceOpen), s, c)
      /\ Owes(expect(BraceClose), c, s)
  BY OwesBracket, Brackets
<1>2. /\ Owes(GoWith("statements", "block"), c, c)
      /\ Owes(Build("block"), s, s)
  BY NeutralItems, NeutralExpect, NeutralOwes
     DEF Burdened, Texted, Keywords, Operators
<1> HIDE DEF c
<1>3. QED
  BY <1>1, <1>2, PathOfFour

LEMMA IfPath ==
    ASSUME NEW s \in Stacks
    PROVE  Path(<<expect("if"), expect("("), expression, expect(")"), statement,
                  Go("else")>>, s, s)
<1> DEFINE r == Append(s, "(")
<1>1. /\ r \in Stacks
      /\ Owes(expect("("), s, r)
      /\ Owes(expect(")"), r, s)
  BY OwesBracket, Brackets
<1>2. /\ Owes(expect("if"), s, s)
      /\ Owes(expression, r, r)
      /\ Owes(statement, s, s)
      /\ Owes(Go("else"), s, s)
  BY NeutralItems, NeutralExpect, NeutralOwes
     DEF Burdened, Texted, Keywords, Operators, expression, statement
<1> HIDE DEF r
<1>3. QED
  BY <1>1, <1>2, PathOfSix

LEMMA WhilePath ==
    ASSUME NEW s \in Stacks
    PROVE  Path(<<expect("while"), expect("("), expression, expect(")"), statement,
                  Build("while")>>, s, s)
<1> DEFINE r == Append(s, "(")
<1>1. /\ r \in Stacks
      /\ Owes(expect("("), s, r)
      /\ Owes(expect(")"), r, s)
  BY OwesBracket, Brackets
<1>2. /\ Owes(expect("while"), s, s)
      /\ Owes(expression, r, r)
      /\ Owes(statement, s, s)
      /\ Owes(Build("while"), s, s)
  BY NeutralItems, NeutralExpect, NeutralOwes
     DEF Burdened, Texted, Keywords, Operators, expression, statement
<1> HIDE DEF r
<1>3. QED
  BY <1>1, <1>2, PathOfSix

LEMMA ForPath ==
    ASSUME NEW s \in Stacks
    PROVE  Path(<<expect("for"), expect("("), Go("forInitializer"), expect(";"), expression,
                  expect(";"), Go("forUpdate"), expect(")"), statement, Build("for")>>, s, s)
<1> DEFINE r == Append(s, "(")
<1>1. /\ r \in Stacks
      /\ Owes(expect("("), s, r)
      /\ Owes(expect(")"), r, s)
  BY OwesBracket, Brackets
<1>2. /\ Owes(expect("for"), s, s)
      /\ Owes(Go("forInitializer"), r, r)
      /\ Owes(expect(";"), r, r)
      /\ Owes(expression, r, r)
      /\ Owes(Go("forUpdate"), r, r)
      /\ Owes(statement, s, s)
      /\ Owes(Build("for"), s, s)
  BY NeutralItems, NeutralExpect, NeutralOwes
     DEF Burdened, Texted, Keywords, Operators, expression, statement
<1> HIDE DEF r
<1>3. QED
  BY <1>1, <1>2, PathOfTen

LEMMA SwitchPath ==
    ASSUME NEW s \in Stacks
    PROVE  Path(<<expect("switch"), expect("("), expression, expect(")"), expect(BraceOpen),
                  Build("list"), Go("cases")>>, s, s)
<1> DEFINE r == Append(s, "(")  c == Append(s, BraceOpen)
<1>1. /\ r \in Stacks
      /\ c \in Stacks
      /\ Owes(expect("("), s, r)
      /\ Owes(expect(")"), r, s)
      /\ Owes(expect(BraceOpen), s, c)
  BY OwesBracket, Brackets
<1>2. Owes(Go("cases"), c, s)
  BY DEF Owes, Go, GoWith, Item
<1>3. /\ Owes(expect("switch"), s, s)
      /\ Owes(expression, r, r)
      /\ Owes(Build("list"), c, c)
  BY NeutralItems, NeutralExpect, NeutralOwes
     DEF Burdened, Texted, Keywords, Operators, expression
<1> HIDE DEF r, c
<1>4. QED
  BY <1>1, <1>2, <1>3, PathOfSeven

LEMMA PrintPath ==
    ASSUME NEW s \in Stacks
    PROVE  Path(<<expect("print"), expect("("), GoWith("arguments", ")"), expect(")"),
                  Build("print")>>, s, s)
<1> DEFINE r == Append(s, "(")
<1>1. /\ r \in Stacks
      /\ Owes(expect("("), s, r)
      /\ Owes(expect(")"), r, s)
  BY OwesBracket, Brackets
<1>2. /\ Owes(expect("print"), s, s)
      /\ Owes(GoWith("arguments", ")"), r, r)
      /\ Owes(Build("print"), s, s)
  BY NeutralItems, NeutralExpect, NeutralOwes
     DEF Burdened, Texted, Keywords, Operators
<1> HIDE DEF r
<1>3. QED
  BY <1>1, <1>2, PathOfFive

LEMMA ElementPath ==
    ASSUME NEW s \in Stacks
    PROVE  Path(<<expression, expect("]"), expect("="), expression,
                  Build("arrayAssign")>>, Append(s, "["), s)
<1> DEFINE q == Append(s, "[")
<1>1. /\ q \in Stacks
      /\ Owes(expect("]"), q, s)
  BY OwesBracket, Brackets
<1>2. /\ Owes(expression, q, q)
      /\ Owes(expect("="), s, s)
      /\ Owes(expression, s, s)
      /\ Owes(Build("arrayAssign"), s, s)
  BY NeutralItems, NeutralExpect, NeutralOwes
     DEF Burdened, Texted, Keywords, Operators, expression
<1> HIDE DEF q
<1>3. Path(<<expression, expect("]"), expect("="), expression, Build("arrayAssign")>>, q, s)
  BY <1>1, <1>2, PathOfFive
<1>4. QED
  BY <1>3 DEF q

LEMMA IndexPath ==
    ASSUME NEW s \in Stacks
    PROVE  Path(<<expression, expect("]"), Build("index")>>, Append(s, "["), s)
<1> DEFINE q == Append(s, "[")
<1>1. /\ q \in Stacks
      /\ Owes(expect("]"), q, s)
  BY OwesBracket, Brackets
<1>2. /\ Owes(expression, q, q)
      /\ Owes(Build("index"), s, s)
  BY NeutralItems, NeutralExpect, NeutralOwes
     DEF Burdened, Texted, Keywords, Operators, expression
<1> HIDE DEF q
<1>3. Path(<<expression, expect("]"), Build("index")>>, q, s)
  BY <1>1, <1>2, PathOfThree
<1>4. QED
  BY <1>3 DEF q

LEMMA GroupPath ==
    ASSUME NEW s \in Stacks
    PROVE  Path(<<expression, expect(")")>>, Append(s, "("), s)
<1> DEFINE r == Append(s, "(")
<1>1. /\ r \in Stacks
      /\ Owes(expect(")"), r, s)
  BY OwesBracket, Brackets
<1>2. Owes(expression, r, r)
  BY NeutralItems, NeutralExpect, NeutralOwes
     DEF Burdened, Texted, Keywords, Operators, expression
<1> HIDE DEF r
<1>3. Path(<<expression, expect(")")>>, r, s)
  BY <1>1, <1>2, PathOfTwo
<1>4. QED
  BY <1>3 DEF r

LEMMA LiteralPath ==
    ASSUME NEW s \in Stacks
    PROVE  Path(<<GoWith("arguments", "]"), expect("]"),
                  Build("arrayLiteral")>>, Append(s, "["), s)
<1> DEFINE q == Append(s, "[")
<1>1. /\ q \in Stacks
      /\ Owes(expect("]"), q, s)
  BY OwesBracket, Brackets
<1>2. /\ Owes(GoWith("arguments", "]"), q, q)
      /\ Owes(Build("arrayLiteral"), s, s)
  BY NeutralItems, NeutralExpect, NeutralOwes
     DEF Burdened, Texted, Keywords, Operators
<1> HIDE DEF q
<1>3. Path(<<GoWith("arguments", "]"), expect("]"), Build("arrayLiteral")>>, q, s)
  BY <1>1, <1>2, PathOfThree
<1>4. QED
  BY <1>3 DEF q

LEMMA CastPath ==
    ASSUME NEW s \in Stacks
    PROVE  Path(<<expect("cast"), expect("<"), type, expect(">"), expect("("), expression,
                  expect(")"), Build("cast")>>, s, s)
<1> DEFINE r == Append(s, "(")
<1>1. /\ r \in Stacks
      /\ Owes(expect("("), s, r)
      /\ Owes(expect(")"), r, s)
  BY OwesBracket, Brackets
<1>2. /\ Owes(expect("cast"), s, s)
      /\ Owes(expect("<"), s, s)
      /\ Owes(type, s, s)
      /\ Owes(expect(">"), s, s)
      /\ Owes(expression, r, r)
      /\ Owes(Build("cast"), s, s)
  BY NeutralItems, NeutralExpect, NeutralOwes
     DEF Burdened, Texted, Keywords, Operators, expression, type
<1> HIDE DEF r
<1>3. QED
  BY <1>1, <1>2, PathOfEight

LEMMA StructLiteralPath ==
    ASSUME NEW s \in Stacks
    PROVE  Path(<<expect(BraceOpen), Go("fields"), expect(BraceClose),
                  Build("structLiteral")>>, s, s)
<1> DEFINE c == Append(s, BraceOpen)
<1>1. /\ c \in Stacks
      /\ Owes(expect(BraceOpen), s, c)
      /\ Owes(expect(BraceClose), c, s)
  BY OwesBracket, Brackets
<1>2. /\ Owes(Go("fields"), c, c)
      /\ Owes(Build("structLiteral"), s, s)
  BY NeutralItems, NeutralExpect, NeutralOwes
     DEF Burdened, Texted, Keywords, Operators
<1> HIDE DEF c
<1>3. QED
  BY <1>1, <1>2, PathOfFour

LEMMA CallPath ==
    ASSUME NEW s \in Stacks
    PROVE  Path(<<expect("("), GoWith("arguments", ")"), expect(")"), Build("call")>>, s, s)
<1> DEFINE r == Append(s, "(")
<1>1. /\ r \in Stacks
      /\ Owes(expect("("), s, r)
      /\ Owes(expect(")"), r, s)
  BY OwesBracket, Brackets
<1>2. /\ Owes(GoWith("arguments", ")"), r, r)
      /\ Owes(Build("call"), s, s)
  BY NeutralItems, NeutralExpect, NeutralOwes
     DEF Burdened, Texted, Keywords, Operators
<1> HIDE DEF r
<1>3. QED
  BY <1>1, <1>2, PathOfFour

LEMMA SwitchEndPath ==
    ASSUME NEW s \in Stacks
    PROVE  Path(<<expect(BraceClose), Build("switch")>>, Append(s, BraceOpen), s)
<1> DEFINE c == Append(s, BraceOpen)
<1>1. /\ c \in Stacks
      /\ Owes(expect(BraceClose), c, s)
  BY OwesBracket, Brackets
<1>2. Owes(Build("switch"), s, s)
  BY NeutralItems, NeutralExpect, NeutralOwes
     DEF Burdened, Texted, Keywords, Operators
<1> HIDE DEF c
<1>3. Path(<<expect(BraceClose), Build("switch")>>, c, s)
  BY <1>1, <1>2, PathOfTwo
<1>4. QED
  BY <1>3 DEF c

LEMMA CasePath ==
    ASSUME Top.task = "cases", NEW s \in Stacks
    PROVE  Path(<<expect("IntLiteral"), expect(":"), Build("list"), GoWith("statements", "case"),
                  Build("case"), Top>>, Append(s, BraceOpen), s)
<1> DEFINE c == Append(s, BraceOpen)
<1>1. c \in Stacks
  BY OwesBracket, Brackets
<1>2. Owes(Top, c, s)
  BY DEF Owes, Go, GoWith, Item
<1>3. /\ Owes(expect("IntLiteral"), c, c)
      /\ Owes(expect(":"), c, c)
      /\ Owes(Build("list"), c, c)
      /\ Owes(GoWith("statements", "case"), c, c)
      /\ Owes(Build("case"), c, c)
  BY NeutralItems, NeutralExpect, NeutralOwes
     DEF Burdened, Texted, Keywords, Operators
<1> HIDE DEF c
<1>4. Path(<<expect("IntLiteral"), expect(":"), Build("list"), GoWith("statements", "case"),
             Build("case"), Top>>, c, s)
  BY <1>1, <1>2, <1>3, PathOfSix
<1>5. QED
  BY <1>4 DEF c

LEMMA DefaultPath ==
    ASSUME NEW s \in Stacks
    PROVE  Path(<<expect(":"), Build("list"), GoWith("statements", "case"), Build("default"),
                  Go("afterDefault")>>, Append(s, BraceOpen), s)
<1> DEFINE c == Append(s, BraceOpen)
<1>1. c \in Stacks
  BY OwesBracket, Brackets
<1>2. Owes(Go("afterDefault"), c, s)
  BY DEF Owes, Go, GoWith, Item
<1>3. /\ Owes(expect(":"), c, c)
      /\ Owes(Build("list"), c, c)
      /\ Owes(GoWith("statements", "case"), c, c)
      /\ Owes(Build("default"), c, c)
  BY NeutralItems, NeutralExpect, NeutralOwes
     DEF Burdened, Texted, Keywords, Operators
<1> HIDE DEF c
<1>4. Path(<<expect(":"), Build("list"), GoWith("statements", "case"), Build("default"),
             Go("afterDefault")>>, c, s)
  BY <1>1, <1>2, <1>3, PathOfFive
<1>5. QED
  BY <1>4 DEF c

LEMMA AfterDefaultPath ==
    ASSUME NEW s \in Stacks
    PROVE  Path(<<GoWith("cases", "default")>>, Append(s, BraceOpen), s)
<1> DEFINE c == Append(s, BraceOpen)
<1>1. c \in Stacks
  BY OwesBracket, Brackets
<1>2. Owes(GoWith("cases", "default"), c, s)
  BY DEF Owes, Go, GoWith, Item
<1> HIDE DEF c
<1>3. Path(<<GoWith("cases", "default")>>, c, s)
  BY <1>1, <1>2, PathOfOne
<1>4. QED
  BY <1>3 DEF c

LEMMA NestedNamespacePath ==
    ASSUME Top.task = "namespaceBody", NEW s \in Stacks
    PROVE  Path(<<expect("namespace"), Go("namespaceName"), Top>>, Append(s, BraceOpen), s)
<1> DEFINE c == Append(s, BraceOpen)
<1>1. c \in Stacks
  BY OwesBracket, Brackets
<1>2. Owes(Top, c, s)
  BY DEF Owes, Go, GoWith, Item
<1>3. /\ Owes(expect("namespace"), c, c)
      /\ Owes(Go("namespaceName"), c, c)
  BY NeutralItems, NeutralExpect, NeutralOwes
     DEF Burdened, Texted, Keywords, Operators
<1> HIDE DEF c
<1>4. Path(<<expect("namespace"), Go("namespaceName"), Top>>, c, s)
  BY <1>1, <1>2, <1>3, PathOfThree
<1>5. QED
  BY <1>4 DEF c

LEMMA NestedFunctionPath ==
    ASSUME Top.task = "namespaceBody", NEW s \in Stacks
    PROVE  Path(<<type, Go("functionName"), Top>>, Append(s, BraceOpen), s)
<1> DEFINE c == Append(s, BraceOpen)
<1>1. c \in Stacks
  BY OwesBracket, Brackets
<1>2. Owes(Top, c, s)
  BY DEF Owes, Go, GoWith, Item
<1>3. /\ Owes(type, c, c)
      /\ Owes(Go("functionName"), c, c)
  BY NeutralItems, NeutralExpect, NeutralOwes
     DEF Burdened, Texted, Keywords, Operators, type
<1> HIDE DEF c
<1>4. Path(<<type, Go("functionName"), Top>>, c, s)
  BY <1>1, <1>2, <1>3, PathOfThree
<1>5. QED
  BY <1>4 DEF c

-----------------------------------------------------------------------------
(* The methods that open and close brackets.                               *)

LEMMA ExpectedTurns ==
    ASSUME Expected
    PROVE  work # <<>> /\ Turn
<1>1. work # <<>> /\ Top.task = "expect" /\ current.type = Top.text /\ Pass(NodeOf(current), <<>>)
  BY DEF Expected, Running, check
<1>2. LeadsOn(<<>>)
  <2>1. IsList(<<>>)
    BY QuietNone DEF Quiet
  <2>2. ASSUME NEW s \in Stacks, NEW t \in Stacks, Owes(Top, s, t)
        PROVE  Path(<<>>, OpenAfter(s, current), t)
    <3>1. t = OpenAfter(s, Token(Top.text, ""))
      BY <1>1, <2>2 DEF Owes
    <3>2. OpenAfter(s, Token(Top.text, "")) = OpenAfter(s, current)
      BY <1>1, TokenType, OpenAfterType
    <3>3. t = OpenAfter(s, current)
      BY <3>1, <3>2
    <3>4. QED
      BY <3>3, PathOfNone
  <2>3. QED
    BY <2>1, <2>2 DEF LeadsOn
<1>3. QED
  BY <1>1, <1>2, PassTurns

LEMMA NotExpectedTurns ==
    ASSUME NotExpected \/ Fails
    PROVE  work # <<>> /\ Turn
BY FailTurns DEF NotExpected, Fails, Running, Fail

LEMMA FailingPath ==
    /\ \A s \in Stacks, t \in Stacks : Path(<<Go("fail")>>, s, t)
    /\ \A s \in Stacks, t \in Stacks : Path(<<Go("failType")>>, s, t)
<1>1. \A s, t : Owes(Go("fail"), s, t) /\ Owes(Go("failType"), s, t)
  BY DEF Owes, Go, Item
<1>2. QED
  BY <1>1, PathOfOne

LEMMA FailingLeads ==
    LeadsOn(<<Go("fail")>>) /\ LeadsOn(<<Go("failType")>>)
<1>1. IsList(<<Go("fail")>>) /\ IsList(<<Go("failType")>>)
  BY EmptyStack, FailingPath, PathIsList
<1>2. QED
  BY <1>1, FailingPath, OpenAfterTyped DEF LeadsOn

LEMMA ArrayTypeTurns ==
    ASSUME ArrayType
    PROVE  work # <<>> /\ Turn
<1>1. work # <<>> /\ Neutral(Top)
  <2>1. Running("arrayType") /\ "arrayType" \notin Burdened
    BY DEF ArrayType, Burdened
  <2>2. QED
    BY <2>1, NeutralTop
<1>2. CASE ~check("[")
  BY <1>1, <1>2, QuietNone, NeutralStep DEF ArrayType
<1>3. CASE check("[")
  <2>1. LeadsOn(<<expect("IntLiteral"), expect("]"), Go("arraySize")>>)
    BY <1>1, <1>3, Brackets, ArrayTypePath, PathLeadsOn
  <2>2. QED
    BY <1>1, <1>3, <2>1, FailingLeads, PassTurns DEF ArrayType
<1>4. QED
  BY <1>2, <1>3

LEMMA ParseProgramTurns ==
    ASSUME parseProgram
    PROVE  work # <<>> /\ Turn
<1>1. work # <<>> /\ Neutral(Top)
  <2>1. Running("program") /\ "program" \notin Burdened
    BY DEF parseProgram, Burdened
  <2>2. QED
    BY <2>1, NeutralTop
<1>2. /\ Quiet(<<>>)
      /\ Quiet(<<expect("namespace"), Go("namespaceName"), Top>>)
      /\ Quiet(<<expect("struct"), expect("Identifier"), Go("struct"), Top>>)
      /\ Quiet(<<expect("type"), expect("Identifier"), Go("alias"), Top>>)
      /\ Quiet(<<type, Go("functionName"), Top>>)
  <2>1. /\ Neutral(expect("namespace")) /\ Neutral(expect("struct")) /\ Neutral(expect("type"))
        /\ Neutral(expect("Identifier"))
    BY NeutralExpect DEF Keywords
  <2>2. /\ Neutral(Go("namespaceName")) /\ Neutral(Go("struct")) /\ Neutral(Go("alias"))
        /\ Neutral(type) /\ Neutral(Go("functionName"))
    BY NeutralItems DEF Burdened, type
  <2>3. QED
    BY <1>1, <2>1, <2>2, QuietNone, QuietThree, QuietFour
<1>3. \E nodes, items : Step(nodes, items) /\ Quiet(items)
  <2>1. \/ Step(<<N("program")>>, <<>>)
        \/ Step(<<>>, <<expect("namespace"), Go("namespaceName"), Top>>)
        \/ Step(<<>>, <<expect("struct"), expect("Identifier"), Go("struct"), Top>>)
        \/ Step(<<>>, <<expect("type"), expect("Identifier"), Go("alias"), Top>>)
        \/ Step(<<>>, <<type, Go("functionName"), Top>>)
    BY DEF parseProgram
  <2>2. QED
    BY <1>2, <2>1
<1>4. QED
  BY <1>1, <1>3, NeutralStep

LEMMA NamespaceNameTurns ==
    ASSUME NamespaceName
    PROVE  work # <<>> /\ Turn
<1> DEFINE body == Item("namespaceBody", "", currentNamespace, 0)
<1>1. work # <<>> /\ Neutral(Top)
  <2>1. Running("namespaceName") /\ "namespaceName" \notin Burdened
    BY Zenon DEF NamespaceName, Burdened
  <2>2. QED
    BY <2>1, NeutralTop
<1>2. /\ IF check("Identifier") THEN advance ELSE setDiagnostic("syntax")
      /\ Then(<<expect(BraceOpen), body>>)
  BY Zenon DEF NamespaceName, BraceOpen
<1>3. \A s \in Stacks : Path(<<expect(BraceOpen), body>>, s, s)
  <2>1. SUFFICES ASSUME NEW s \in Stacks PROVE Path(<<expect(BraceOpen), body>>, s, s)
    OBVIOUS
  <2> DEFINE c == Append(s, BraceOpen)
  <2>2. c \in Stacks /\ Owes(expect(BraceOpen), s, c)
    BY OwesBracket, Brackets
  <2>3. Owes(body, c, s)
    BY DEF Owes, Item
  <2> HIDE DEF c, body
  <2>4. QED
    BY <2>2, <2>3, PathOfTwo
<1> HIDE DEF body
<1>4. CASE check("Identifier")
  <2>1. PlainToken
    BY <1>4, PlainChecks DEF Texted
  <2>2. LeadsOn(<<expect(BraceOpen), body>>)
    BY <1>1, <1>3, <2>1, PathLeads
  <2>3. QED
    BY <1>1, <1>2, <1>4, <2>2 DEF Turn
<1>5. CASE ~check("Identifier")
  <2>1. failed'
    BY <1>2, <1>5 DEF setDiagnostic, failed
  <2>2. QED
    BY <1>1, <2>1 DEF Turn
<1>6. QED
  BY <1>4, <1>5

LEMMA NamespaceBodyTurns ==
    ASSUME NamespaceBody
    PROVE  work # <<>> /\ Turn
<1>1. work # <<>> /\ Top.task = "namespaceBody"
  BY Zenon DEF NamespaceBody, Running
<1>2. \A s, t : Owes(Top, s, t) => s = Append(t, BraceOpen)
  BY <1>1 DEF Owes
<1>3. \/ check(BraceClose) /\ advance /\ Then(<<>>)
      \/ setDiagnostic("syntax")
      \/ Step(<<>>, <<expect("namespace"), Go("namespaceName"), Top>>)
      \/ Fail
      \/ Step(<<>>, <<type, Go("functionName"), Top>>)
  BY Zenon DEF NamespaceBody, BraceClose
<1>4. CASE check(BraceClose) /\ advance /\ Then(<<>>)
  <2>1. \A t \in Stacks : OpenAfter(Append(t, BraceOpen), current) = t
    BY <1>4, Brackets, OpenAfterCloser DEF check
  <2>2. IsList(<<>>)
    BY QuietNone DEF Quiet
  <2>3. ASSUME NEW s \in Stacks, NEW t \in Stacks, Owes(Top, s, t)
        PROVE  Path(<<>>, OpenAfter(s, current), t)
    <3>1. s = Append(t, BraceOpen)
      BY <1>2, <2>3
    <3>2. OpenAfter(s, current) = t
      BY <2>1, <3>1
    <3>3. QED
      BY <3>2, PathOfNone
  <2>4. LeadsOn(<<>>)
    BY <2>2, <2>3 DEF LeadsOn
  <2>5. QED
    BY <1>1, <1>4, <2>4 DEF Turn
<1>5. CASE setDiagnostic("syntax")
  <2>1. failed'
    BY <1>5 DEF setDiagnostic, failed
  <2>2. QED
    BY <1>1, <2>1 DEF Turn
<1>6. CASE Step(<<>>, <<expect("namespace"), Go("namespaceName"), Top>>)
  <2>1. \A s \in Stacks :
           Path(<<expect("namespace"), Go("namespaceName"), Top>>, Append(s, BraceOpen), s)
    BY <1>1, NestedNamespacePath
  <2>2. IsList(<<expect("namespace"), Go("namespaceName"), Top>>)
    BY <2>1, EmptyStack, PathIsList
  <2>3. Leads(<<expect("namespace"), Go("namespaceName"), Top>>)
    BY <1>2, <2>1, <2>2 DEF Leads
  <2>4. QED
    BY <1>1, <1>6, <2>3, StepTurns
<1>7. CASE Fail
  BY <1>1, <1>7, FailTurns DEF Fail
<1>8. CASE Step(<<>>, <<type, Go("functionName"), Top>>)
  <2>1. \A s \in Stacks : Path(<<type, Go("functionName"), Top>>, Append(s, BraceOpen), s)
    BY <1>1, NestedFunctionPath
  <2>2. IsList(<<type, Go("functionName"), Top>>)
    BY <2>1, EmptyStack, PathIsList
  <2>3. Leads(<<type, Go("functionName"), Top>>)
    BY <1>2, <2>1, <2>2 DEF Leads
  <2>4. QED
    BY <1>1, <1>8, <2>3, StepTurns
<1>9. QED
  BY <1>3, <1>4, <1>5, <1>6, <1>7, <1>8

LEMMA ParseStructDeclTurns ==
    ASSUME parseStructDecl
    PROVE  work # <<>> /\ Turn
<1>1. work # <<>> /\ Neutral(Top)
  <2>1. Running("struct") /\ "struct" \notin Burdened
    BY Zenon DEF parseStructDecl, Burdened
  <2>2. QED
    BY <2>1, NeutralTop
<1>2. \/ Fail
      \/ /\ Then(<<expect(BraceOpen), Go("structField"), expect(BraceClose), Build("structDecl")>>)
         /\ UNCHANGED tokenVars
  BY Zenon DEF parseStructDecl, BraceOpen, BraceClose
<1>3. Leads(<<expect(BraceOpen), Go("structField"), expect(BraceClose), Build("structDecl")>>)
  BY <1>1, StructPath, PathLeads
<1>4. QED
  BY <1>1, <1>2, <1>3, FailTurns DEF Turn, Fail

LEMMA ParseStructFieldsTurns ==
    ASSUME parseStructFields
    PROVE  work # <<>> /\ Turn
<1>1. work # <<>> /\ Neutral(Top)
  <2>1. Running("structField") /\ "structField" \notin Burdened
    BY Zenon DEF parseStructFields, Burdened
  <2>2. QED
    BY <2>1, NeutralTop
<1>2. Step(<<>>, <<>>) \/ Step(<<>>, <<type, Go("fieldName")>>)
  BY Zenon DEF parseStructFields
<1>3. Quiet(<<>>) /\ Quiet(<<type, Go("fieldName")>>)
  BY QuietNone, QuietTwo, NeutralItems DEF Burdened, type
<1>4. QED
  BY <1>1, <1>2, <1>3, NeutralStep

LEMMA AliasTargetTurns ==
    ASSUME TypeOK, AliasTarget
    PROVE  work # <<>> /\ Turn
<1>1. work # <<>> /\ Neutral(Top)
  <2>1. Running("aliasTarget") /\ "aliasTarget" \notin Burdened
    BY DEF AliasTarget, Burdened
  <2>2. QED
    BY <2>1, NeutralTop
<1> DEFINE end == [Top EXCEPT !.task = "aliasEnd"]
<1>2. end.task = "aliasEnd"
  BY <1>1, TopTyped DEF Activations
<1>3. Fail \/ Step(<<>>, <<expect(";"), end>>)
  BY DEF AliasTarget
<1> HIDE DEF end
<1>4. Quiet(<<expect(";"), end>>)
  <2>1. Neutral(end)
    BY <1>2 DEF Neutral
  <2>2. QED
    BY <2>1, NeutralExpect, QuietTwo
<1>5. QED
  BY <1>1, <1>3, <1>4, NeutralStep, FailTurns DEF Fail

LEMMA AliasEndTurns ==
    ASSUME AliasEnd
    PROVE  work # <<>> /\ Turn
<1>1. work # <<>> /\ Neutral(Top)
  <2>1. Running("aliasEnd") /\ "aliasEnd" \notin Burdened
    BY DEF AliasEnd, Burdened
  <2>2. QED
    BY <2>1, NeutralTop
<1>2. Then(<<>>) /\ UNCHANGED tokenVars
  BY DEF AliasEnd
<1>3. QED
  BY <1>1, <1>2, QuietNone, NeutralThen

LEMMA ParseFunctionDeclTurns ==
    ASSUME parseFunctionDecl
    PROVE  work # <<>> /\ Turn
<1>1. work # <<>> /\ Neutral(Top)
  <2>1. Running("functionName") /\ "functionName" \notin Burdened
    BY DEF parseFunctionDecl, Burdened
  <2>2. QED
    BY <2>1, NeutralTop
<1>2. \/ \E items : FailAnd(items)
      \/ checkAny({"Identifier", "main"}) /\ \E nodes : Pass(nodes, functionRest)
  BY DEF parseFunctionDecl, Fail
<1>3. PlainToken => LeadsOn(functionRest)
  BY <1>1, FunctionPath, PathLeads DEF functionRest
<1>4. QED
  BY <1>1, <1>2, <1>3, PlainChecks, FailTurns, PassTurns

LEMMA ParseParametersTurns ==
    ASSUME parseParameters
    PROVE  work # <<>> /\ Turn
<1>1. work # <<>> /\ Neutral(Top)
  <2>1. Running("parameters") /\ "parameters" \notin Burdened
    BY DEF parseParameters, Burdened
  <2>2. QED
    BY <2>1, NeutralTop
<1>2. Quiet(<<>>) /\ Quiet(<<type, Go("parameterName")>>)
  BY QuietNone, QuietTwo, NeutralItems DEF Burdened, type
<1>3. QED
  BY <1>1, <1>2, NeutralStep DEF parseParameters

LEMMA ParseBlockTurns ==
    ASSUME parseBlock
    PROVE  work # <<>> /\ Turn
<1>1. work # <<>> /\ Neutral(Top)
  <2>1. Running("block") /\ "block" \notin Burdened
    BY Zenon DEF parseBlock, Burdened
  <2>2. QED
    BY <2>1, NeutralTop
<1>2. Step(<<N("list")>>, <<expect(BraceOpen), GoWith("statements", "block"),
                             expect(BraceClose), Build("block")>>)
  BY Zenon DEF parseBlock, BraceOpen, BraceClose
<1>3. QED
  BY <1>1, <1>2, BlockPath, PathLeads, StepTurns

LEMMA StatementsTurns ==
    ASSUME Statements
    PROVE  work # <<>> /\ Turn
<1>1. work # <<>> /\ Neutral(Top)
  <2>1. Running("statements") /\ "statements" \notin Burdened
    BY DEF Statements, Burdened
  <2>2. QED
    BY <2>1, NeutralTop
<1>2. Quiet(<<>>) /\ Quiet(<<statement, Top>>)
  BY <1>1, QuietNone, QuietTwo, NeutralItems DEF Burdened, statement
<1>3. QED
  BY <1>1, <1>2, NeutralStep DEF Statements

LEMMA PathOfLists ==
    ASSUME NEW items, NEW others, NEW s \in Stacks, NEW m \in Stacks, NEW t \in Stacks,
           Path(items, s, m), Path(others, m, t)
    PROVE  Path(items \o others, s, t)
<1>1. PICK S : items \in Seq(S)
  BY DEF Path, IsList
<1>2. PICK T : others \in Seq(T)
  BY DEF Path, IsList
<1> DEFINE U == S \cup T
<1>3. items \in Seq(U) /\ others \in Seq(U)
  <2>1. S \subseteq U /\ T \subseteq U
    OBVIOUS
  <2> HIDE DEF U
  <2>2. QED
    BY <1>1, <1>2, <2>1, SeqMonotonic
<1> HIDE DEF U
<1>4. QED
  BY <1>3, PathOfBoth

LEMMA CommaPaths ==
    /\ Quiet(parseIdentifierStatement) /\ Quiet(parseAssignmentStatement)
    /\ Quiet(parseIdentifierStatement \o <<expect(";")>>)
<1>1. Quiet(parseIdentifierStatement) /\ Quiet(parseAssignmentStatement)
  BY NeutralItems, NeutralExpect, QuietTwo
     DEF Burdened, parseIdentifierStatement, parseAssignmentStatement
<1>2. Quiet(<<expect(";")>>)
  BY NeutralExpect, QuietOne
<1>3. QED
  BY <1>1, <1>2, QuietBoth

LEMMA ParseStatementTurns ==
    ASSUME parseStatement
    PROVE  work # <<>> /\ Turn
<1>1. work # <<>> /\ Neutral(Top)
  <2>1. Running("statement") /\ "statement" \notin Burdened
    BY Zenon DEF parseStatement, Burdened
  <2>2. QED
    BY <2>1, NeutralTop
<1> DEFINE printed == parsePrintStatement \o <<expect(";")>>
           named   == parseIdentifierStatement \o <<expect(";")>>
<1>2. \/ check(";") /\ Pass(<<N("empty")>>, <<>>)
      \/ Step(<<>>, <<Go("varDecl"), expect(";")>>)
      \/ Step(<<>>, named)
      \/ Step(<<>>, parseIfStatement)
      \/ Step(<<>>, parseWhileStatement)
      \/ Step(<<>>, parseForStatement)
      \/ Step(<<>>, parseSwitchStatement)
      \/ Step(<<>>, <<expect("return"), Go("returnValue"), expect(";")>>)
      \/ Step(<<>>, <<expect("break"), Build("break"), expect(";")>>)
      \/ Step(<<>>, <<expect("continue"), Build("continue"), expect(";")>>)
      \/ Step(<<>>, printed)
      \/ Step(<<>>, <<Go("block")>>)
      \/ Fail
  BY Zenon DEF parseStatement
<1>3. /\ Quiet(<<>>) /\ Quiet(named)
      /\ Quiet(<<Go("varDecl"), expect(";")>>)
      /\ Quiet(<<expect("return"), Go("returnValue"), expect(";")>>)
      /\ Quiet(<<expect("break"), Build("break"), expect(";")>>)
      /\ Quiet(<<expect("continue"), Build("continue"), expect(";")>>)
      /\ Quiet(<<Go("block")>>)
  <2>1. /\ Neutral(expect("return")) /\ Neutral(expect("break")) /\ Neutral(expect("continue"))
    BY NeutralExpect DEF Keywords
  <2>2. Quiet(named)
    BY CommaPaths
  <2> HIDE DEF named
  <2>3. QED
    BY <2>1, <2>2, NeutralItems, NeutralExpect, QuietNone, QuietOne, QuietTwo, QuietThree
       DEF Burdened
<1>4. Leads(parseIfStatement) /\ Leads(parseWhileStatement)
  BY <1>1, IfPath, WhilePath, PathLeads DEF parseIfStatement, parseWhileStatement
<1>5. Leads(parseForStatement)
  BY <1>1, ForPath, PathLeads DEF parseForStatement
<1>6. Leads(parseSwitchStatement)
  <2>1. parseSwitchStatement
          = <<expect("switch"), expect("("), expression, expect(")"), expect(BraceOpen),
              Build("list"), Go("cases")>>
    BY Zenon DEF parseSwitchStatement, BraceOpen
  <2>2. QED
    BY <1>1, <2>1, SwitchPath, PathLeads
<1>7. Leads(printed)
  <2>1. \A s \in Stacks : Path(parsePrintStatement, s, s)
    BY PrintPath DEF parsePrintStatement
  <2>2. \A s \in Stacks : Path(<<expect(";")>>, s, s)
    BY NeutralExpect, QuietOne, QuietPath
  <2>3. \A s \in Stacks : Path(printed, s, s)
    BY <2>1, <2>2, PathOfLists
  <2> HIDE DEF printed
  <2>4. QED
    BY <1>1, <2>3, PathLeads
<1>8. check(";") => PlainToken
  BY PlainChecks
<1> HIDE DEF printed, named
<1>9. CASE Fail
  BY <1>1, <1>9, FailTurns DEF Fail
<1>10. CASE ~Fail
  <2>1. \/ PlainToken /\ \E nodes, items : Pass(nodes, items) /\ Quiet(items)
        \/ \E nodes, items : Step(nodes, items) /\ (Quiet(items) \/ Leads(items))
    BY <1>2, <1>3, <1>4, <1>5, <1>6, <1>7, <1>8, <1>10
  <2>2. QED
    BY <1>1, <2>1, NeutralStep, NeutralPass, StepTurns
<1>11. QED
  BY <1>9, <1>10

LEMMA AfterNameTurns ==
    ASSUME AfterName
    PROVE  work # <<>> /\ Turn
<1>1. work # <<>> /\ Neutral(Top)
  <2>1. Running("afterName") /\ "afterName" \notin Burdened
    BY DEF AfterName, Burdened
  <2>2. QED
    BY <2>1, NeutralTop
<1>2. /\ Quiet(<<Go("qualified"), Build("exprStmt")>>)
      /\ Quiet(<<Go("call"), Build("exprStmt")>>)
      /\ Quiet(<<expect("Identifier"), Go("afterField")>>)
      /\ Quiet(<<Go("assignment")>>)
  BY NeutralItems, NeutralExpect, QuietOne, QuietTwo DEF Burdened
<1>3. check("[")
          => LeadsOn(<<expression, expect("]"), expect("="), expression, Build("arrayAssign")>>)
  BY <1>1, Brackets, ElementPath, PathLeadsOn
<1>4. check(".") => PlainToken
  BY PlainChecks
<1>5. \/ Step(<<>>, <<Go("qualified"), Build("exprStmt")>>)
      \/ Step(<<>>, <<Go("call"), Build("exprStmt")>>)
      \/ /\ check("[")
         /\ Pass(<<>>, <<expression, expect("]"), expect("="), expression, Build("arrayAssign")>>)
      \/ check(".") /\ Pass(<<>>, <<expect("Identifier"), Go("afterField")>>)
      \/ Step(<<>>, <<Go("assignment")>>)
  BY DEF AfterName
<1>6. QED
  BY <1>1, <1>2, <1>3, <1>4, <1>5, NeutralStep, NeutralPass, PassTurns

LEMMA AfterFieldTurns ==
    ASSUME AfterField
    PROVE  work # <<>> /\ Turn
<1>1. work # <<>> /\ Neutral(Top)
  <2>1. Running("afterField") /\ "afterField" \notin Burdened
    BY DEF AfterField, Burdened
  <2>2. QED
    BY <2>1, NeutralTop
<1>2. Quiet(<<expect("="), expression, Build("fieldAssign")>>)
  BY NeutralItems, NeutralExpect, QuietThree DEF Burdened, expression
<1>3. check("[")
          => LeadsOn(<<expression, expect("]"), expect("="), expression, Build("arrayAssign")>>)
  BY <1>1, Brackets, ElementPath, PathLeadsOn
<1>4. QED
  BY <1>1, <1>2, <1>3, NeutralStep, PassTurns DEF AfterField

LEMMA ParseForPartsTurn ==
    ASSUME parseForInitializer \/ parseForUpdate
    PROVE  work # <<>> /\ Turn
<1>1. work # <<>> /\ Neutral(Top)
  <2>1. /\ Running("forInitializer") \/ Running("forUpdate")
        /\ "forInitializer" \notin Burdened /\ "forUpdate" \notin Burdened
    BY DEF parseForInitializer, parseForUpdate, Burdened
  <2>2. QED
    BY <2>1, NeutralTop
<1>2. Quiet(<<>>) /\ Quiet(<<Go("varDecl")>>)
  BY NeutralItems, QuietNone, QuietOne DEF Burdened
<1>3. Fail \/ \E nodes, items : Step(nodes, items) /\ Quiet(items)
  BY <1>2, CommaPaths DEF parseForInitializer, parseForUpdate
<1>4. QED
  BY <1>1, <1>3, NeutralStep, FailTurns DEF Fail

LEMMA CasesTurns ==
    ASSUME Cases
    PROVE  work # <<>> /\ Turn
<1>1. work # <<>> /\ Top.task = "cases"
  BY Zenon DEF Cases, Running
<1> DEFINE end     == <<expect(BraceClose), Build("switch")>>
           case    == <<expect("IntLiteral"), expect(":"), Build("list"), GoWith("statements", "case"),
                        Build("case"), Top>>
           default == <<expect(":"), Build("list"), GoWith("statements", "case"), Build("default"),
                        Go("afterDefault")>>
<1>2. \/ Step(<<>>, end)
      \/ check("case") /\ Pass(<<>>, case)
      \/ check("default") /\ Pass(<<>>, default)
      \/ Pass(<<>>, <<Go("fail")>>)
      \/ Fail
  BY Zenon DEF Cases, BraceClose
<1>3. \A s, t : Owes(Top, s, t) => s = Append(t, BraceOpen)
  BY <1>1 DEF Owes
<1>4. /\ \A t \in Stacks : Path(end, Append(t, BraceOpen), t)
      /\ \A t \in Stacks : Path(case, Append(t, BraceOpen), t)
      /\ \A t \in Stacks : Path(default, Append(t, BraceOpen), t)
  BY <1>1, SwitchEndPath, CasePath, DefaultPath
<1> HIDE DEF end, case, default
<1>5. IsList(end) /\ IsList(case) /\ IsList(default)
  BY <1>4, EmptyStack, PathIsList
<1>6. Leads(end)
  BY <1>3, <1>4, <1>5 DEF Leads
<1>7. PlainToken => LeadsOn(case) /\ LeadsOn(default)
  <2>1. PlainToken => \A s : OpenAfter(s, current) = s
    BY OpenAfterNone DEF PlainToken
  <2>2. QED
    BY <1>3, <1>4, <1>5, <2>1 DEF LeadsOn
<1>8. check("case") \/ check("default") => PlainToken
  BY PlainChecks
<1>9. QED
  BY <1>1, <1>2, <1>6, <1>7, <1>8, FailingLeads, FailTurns, StepTurns, PassTurns DEF Fail

LEMMA AfterDefaultTurns ==
    ASSUME AfterDefault
    PROVE  work # <<>> /\ Turn
<1>1. work # <<>> /\ Top.task = "afterDefault"
  BY DEF AfterDefault, Running
<1> DEFINE more == <<GoWith("cases", "default")>>
<1>2. Fail \/ Step(<<>>, more)
  BY DEF AfterDefault
<1>3. \A s, t : Owes(Top, s, t) => s = Append(t, BraceOpen)
  BY <1>1 DEF Owes
<1>4. \A t \in Stacks : Path(more, Append(t, BraceOpen), t)
  BY AfterDefaultPath
<1> HIDE DEF more
<1>5. IsList(more)
  BY <1>4, EmptyStack, PathIsList
<1>6. Leads(more)
  BY <1>3, <1>4, <1>5 DEF Leads
<1>7. QED
  BY <1>1, <1>2, <1>6, FailTurns, StepTurns DEF Fail

LEMMA LevelQuiet ==
    ASSUME NEW k \in 1 .. Unary
    PROVE  Quiet(Level(k))
<1> DEFINE n == Unary - k
           f(i) == Item("level", "", <<>>, Unary - i)
           loops == [i \in 1 .. n |-> f(i)]
<1>1. Unary \in Nat /\ n \in Nat
  BY DEF Unary, Levels
<1>2. \A i \in 1 .. n : Neutral(f(i))
  BY NeutralItems DEF Burdened
<1>3. Level(k) = <<Go("unary")>> \o loops
  BY DEF Level
<1> DEFINE S == {f(i) : i \in 1 .. n}
<1>4. \A i \in 1 .. n : f(i) \in S
  OBVIOUS
<1> HIDE DEF n, f, S
<1>5. loops \in Seq(S) /\ Len(loops) = n /\ \A i \in 1 .. n : loops[i] = f(i)
  BY <1>1, <1>4
<1> HIDE DEF loops
<1>6. Quiet(loops)
  BY <1>2, <1>5 DEF Quiet, IsList
<1>7. Quiet(<<Go("unary")>>)
  BY NeutralItems, QuietOne DEF Burdened
<1>8. QED
  BY <1>3, <1>6, <1>7, QuietBoth

LEMMA ParseExpressionTurns ==
    ASSUME parseExpression
    PROVE  work # <<>> /\ Turn
<1>1. work # <<>> /\ Neutral(Top)
  <2>1. Running("expression") /\ "expression" \notin Burdened
    BY DEF parseExpression, Burdened
  <2>2. QED
    BY <2>1, NeutralTop
<1>2. 1 \in 1 .. Unary
  BY DEF Unary, Levels
<1>3. QED
  BY <1>1, <1>2, LevelQuiet, NeutralStep DEF parseExpression

LEMMA BinaryLevelTurns ==
    ASSUME TypeOK, BinaryLevel
    PROVE  work # <<>> /\ Turn
<1>1. work # <<>> /\ Neutral(Top)
  <2>1. Running("level") /\ "level" \notin Burdened
    BY DEF BinaryLevel, Burdened
  <2>2. QED
    BY <2>1, NeutralTop
<1> DEFINE level == Levels[Top.start]
           items == Level(level.operand) \o <<Build(current.type), Top>>
<1>2. Top.start \in 1 .. 10
  BY TopTyped DEF BinaryLevel, Running, Activations, Levels
<1>3. level.operand \in 1 .. Unary /\ level.operators \subseteq Operators
  BY <1>2 DEF Levels, Unary, Operators
<1>4. CASE checkAny(level.operators)
  <2>1. PlainToken
    BY <1>3, <1>4, Plain, PlainNow
  <2>2. Quiet(<<Build(current.type), Top>>) /\ Quiet(Level(level.operand))
    BY <1>1, <1>3, NeutralItems, QuietTwo, LevelQuiet
  <2>3. Quiet(items)
    BY <2>2, QuietBoth
  <2>4. Pass(<<>>, items)
    BY <1>4 DEF BinaryLevel
  <2> HIDE DEF items
  <2>5. QED
    BY <1>1, <2>1, <2>3, <2>4, NeutralPass
<1>5. CASE ~checkAny(level.operators)
  <2>1. Step(<<>>, <<>>)
    BY <1>5 DEF BinaryLevel
  <2>2. QED
    BY <1>1, <2>1, QuietNone, NeutralStep
<1>6. QED
  BY <1>4, <1>5

LEMMA ParseUnaryTurns ==
    ASSUME parseUnary
    PROVE  work # <<>> /\ Turn
<1>1. work # <<>> /\ Neutral(Top)
  <2>1. Running("unary") /\ "unary" \notin Burdened
    BY DEF parseUnary, Burdened
  <2>2. QED
    BY <2>1, NeutralTop
<1> DEFINE items == <<expect("cast"), expect("<"), type, expect(">"), expect("("), expression,
                      expect(")"), Build("cast")>>
           operand == <<Go("unary"), Build(PrefixOperator[current.type])>>
<1>2. Leads(items)
  BY <1>1, CastPath, PathLeads
<1>3. Quiet(operand) /\ Quiet(<<Go("primary")>>)
  BY NeutralItems, QuietOne, QuietTwo DEF Burdened
<1>4. \/ Step(<<>>, items)
      \/ checkAny(DOMAIN PrefixOperator) /\ Pass(<<>>, operand)
      \/ Step(<<>>, <<Go("primary")>>)
  BY DEF parseUnary
<1> HIDE DEF items, operand
<1>5. QED
  BY <1>1, <1>2, <1>3, <1>4, PlainChecks, NeutralStep, NeutralPass, StepTurns

LEMMA ParsePrimaryTurns ==
    ASSUME parsePrimary
    PROVE  work # <<>> /\ Turn
<1>1. work # <<>> /\ Neutral(Top)
  <2>1. Running("primary") /\ "primary" \notin Burdened
    BY DEF parsePrimary, Burdened
  <2>2. QED
    BY <2>1, NeutralTop
<1> DEFINE elements == <<GoWith("arguments", "]"), expect("]"), Build("arrayLiteral")>>
           group    == <<expression, expect(")")>>
<1>2. check("[") => LeadsOn(elements)
  BY <1>1, Brackets, LiteralPath, PathLeadsOn
<1>3. check("(") => LeadsOn(group)
  BY <1>1, Brackets, GroupPath, PathLeadsOn
<1>4. Quiet(<<>>) /\ Quiet(<<GoWith("primaryName", current.lexeme)>>)
  BY NeutralItems, QuietNone, QuietOne DEF Burdened
<1>5. \/ check("IntLiteral") \/ check("FloatLiteral") \/ check("StringLiteral")
      \/ checkAny({"true", "false"}) \/ check("Identifier")
      => PlainToken
  BY PlainChecks DEF Texted
<1>6. \/ check("[") /\ Pass(<<>>, elements)
      \/ check("(") /\ Pass(<<>>, group)
      \/ /\ \/ check("IntLiteral") \/ check("FloatLiteral") \/ check("StringLiteral")
            \/ checkAny({"true", "false"}) \/ check("Identifier")
         /\ \E nodes : \/ Pass(nodes, <<>>)
                       \/ Pass(nodes, <<GoWith("primaryName", current.lexeme)>>)
      \/ Fail
  BY DEF parsePrimary
<1> HIDE DEF elements, group
<1>7. QED
  BY <1>1, <1>2, <1>3, <1>4, <1>5, <1>6, NeutralPass, PassTurns, FailTurns DEF Fail

LEMMA PrimaryNameTurns ==
    ASSUME PrimaryName
    PROVE  work # <<>> /\ Turn
<1>1. work # <<>> /\ Neutral(Top)
  <2>1. Running("primaryName") /\ "primaryName" \notin Burdened
    BY Zenon DEF PrimaryName, Burdened
  <2>2. QED
    BY <2>1, NeutralTop
<1> DEFINE index == <<expression, expect("]"), Build("index")>>
           field == <<expect("Identifier"), Go("fieldRead")>>
<1>2. \/ Step(<<N("list")>>, <<Go("structLiteral")>>)
      \/ Step(<<>>, <<Go("qualified")>>)
      \/ Step(<<>>, <<GoWith("genericCall", "primary")>>)
      \/ Step(<<>>, <<Go("call")>>)
      \/ check("[") /\ Pass(<<>>, index)
      \/ check(".") /\ Pass(<<>>, field)
      \/ Step(<<N("variable")>>, <<>>)
  BY Zenon DEF PrimaryName
<1>3. check("[") => LeadsOn(index)
  BY <1>1, Brackets, IndexPath, PathLeadsOn
<1>4. /\ Quiet(<<>>) /\ Quiet(field) /\ Quiet(<<Go("structLiteral")>>) /\ Quiet(<<Go("qualified")>>)
      /\ Quiet(<<GoWith("genericCall", "primary")>>) /\ Quiet(<<Go("call")>>)
  BY NeutralItems, NeutralExpect, QuietNone, QuietOne, QuietTwo DEF Burdened
<1>5. check(".") => PlainToken
  BY PlainChecks
<1> HIDE DEF index, field
<1>6. QED
  BY <1>1, <1>2, <1>3, <1>4, <1>5, NeutralStep, NeutralPass, PassTurns

LEMMA FieldReadTurns ==
    ASSUME FieldRead
    PROVE  work # <<>> /\ Turn
<1>1. work # <<>> /\ Neutral(Top)
  <2>1. Running("fieldRead") /\ "fieldRead" \notin Burdened
    BY DEF FieldRead, Burdened
  <2>2. QED
    BY <2>1, NeutralTop
<1>2. check("[") => LeadsOn(<<expression, expect("]"), Build("index")>>)
  BY <1>1, Brackets, IndexPath, PathLeadsOn
<1>3. QED
  BY <1>1, <1>2, QuietNone, NeutralStep, PassTurns DEF FieldRead

LEMMA ParseStructLiteralTurns ==
    ASSUME parseStructLiteral
    PROVE  work # <<>> /\ Turn
<1>1. work # <<>> /\ Neutral(Top)
  <2>1. Running("structLiteral") /\ "structLiteral" \notin Burdened
    BY Zenon DEF parseStructLiteral, Burdened
  <2>2. QED
    BY <2>1, NeutralTop
<1>2. Step(<<>>, <<expect(BraceOpen), Go("fields"), expect(BraceClose), Build("structLiteral")>>)
  BY Zenon DEF parseStructLiteral, BraceOpen, BraceClose
<1>3. QED
  BY <1>1, <1>2, StructLiteralPath, PathLeads, StepTurns

LEMMA FieldsTurns ==
    ASSUME Fields
    PROVE  work # <<>> /\ Turn
<1>1. work # <<>> /\ Neutral(Top)
  <2>1. Running("fields") /\ "fields" \notin Burdened
    BY Zenon DEF Fields, Burdened
  <2>2. QED
    BY <2>1, NeutralTop
<1>2. Step(<<>>, <<>>) \/ Step(<<>>, fieldValue)
  BY Zenon DEF Fields
<1>3. Quiet(<<>>) /\ Quiet(fieldValue)
  BY NeutralItems, NeutralExpect, QuietNone, QuietFour DEF Burdened, fieldValue, expression
<1>4. QED
  BY <1>1, <1>2, <1>3, NeutralStep

LEMMA ParseCallExpressionTurns ==
    ASSUME parseCallExpression
    PROVE  work # <<>> /\ Turn
<1>1. work # <<>> /\ Neutral(Top)
  <2>1. Running("call") /\ "call" \notin Burdened
    BY DEF parseCallExpression, Burdened
  <2>2. QED
    BY <2>1, NeutralTop
<1> DEFINE types == <<type, Go("moreTypes"), expect(">")>>
           rest  == <<expect("("), GoWith("arguments", ")"), expect(")"), Build("call")>>
<1>2. \/ check("<") /\ Pass(<<N("list")>>, types \o rest)
      \/ Step(<<N("list")>>, rest)
  BY DEF parseCallExpression
<1>3. \A s \in Stacks : Path(rest, s, s)
  BY CallPath
<1>4. \A s \in Stacks : Path(types, s, s)
  BY NeutralItems, NeutralExpect, QuietThree, QuietPath DEF Burdened, type
<1> HIDE DEF types, rest
<1>5. \A s \in Stacks : Path(types \o rest, s, s)
  BY <1>3, <1>4, PathOfLists
<1>6. QED
  BY <1>1, <1>2, <1>3, <1>5, PlainChecks, PathLeads, StepTurns, PassTurns

LEMMA LooksGenericTurns ==
    ASSUME TypeOK, LooksGeneric
    PROVE  work # <<>> /\ Turn
<1>1. work # <<>> /\ Neutral(Top) /\ Top.task = "genericCall"
  <2>1. Running("genericCall") /\ "genericCall" \notin Burdened
    BY DEF LooksGeneric, Burdened
  <2>2. QED
    BY <2>1, NeutralTop DEF Running
<1> DEFINE Seeing(next) == <<Seen(Top, next)>>
<1>2. \/ \E next : Step(<<>>, <<Seen(Top, next)>>)
      \/ Step(<<>>, <<Go("call")>>)
      \/ Step(<<N("variable")>>, <<>>)
      \/ Fail
  BY DEF LooksGeneric, Seen
<1>3. \A next : Seen(Top, next).task = "genericCall"
  BY <1>1, TopTyped DEF Seen, Activations
<1>4. \A next : Quiet(<<Seen(Top, next)>>)
  <2>1. \A next : Neutral(Seen(Top, next))
    BY <1>3 DEF Neutral
  <2>2. QED
    BY <2>1, QuietOne
<1>5. Quiet(<<>>) /\ Quiet(<<Go("call")>>)
  BY NeutralItems, QuietNone, QuietOne DEF Burdened
<1>6. QED
  BY <1>1, <1>2, <1>4, <1>5, NeutralStep, FailTurns DEF Fail

LEMMA LookingTurns ==
    ASSUME PInv, PInv', [Stream!Next]_streamVars, LookBehindLet \/ LookAhead
    PROVE  work # <<>> /\ Turn
<1>1. work # <<>> /\ peekToken /\ ~failed /\ UNCHANGED work
  BY DEF LookBehindLet, LookAhead, Running, Peeked
<1>2. QED
  BY <1>1, PeekTurns

LEMMA StartTurns ==
    ASSUME PInv, Start
    PROVE  work # <<>> /\ Turn
<1>1. work # <<>> /\ Neutral(Top)
  <2>1. Running("start") /\ "start" \notin Burdened
    BY DEF Start, Burdened
  <2>2. QED
    BY <2>1, NeutralTop
<1>2. Pass(<<>>, <<Go("program")>>) /\ Running("start")
  BY DEF Start
<1>3. current = EndOfFile
  <2>1. CASE failed
    BY <2>1 DEF PInv, TokensOK
  <2>2. CASE ~failed
    <3>1. delivered = 0
      BY <1>2, <2>2 DEF PInv, Started
    <3>2. position = 0
      <4>1. position \in Nat /\ Len(bufferedTokens) \in Nat
        BY AtOK DEF PInv
      <4>2. position = 0 - Len(bufferedTokens)
        BY <3>1 DEF position
      <4>3. QED
        BY <4>1, <4>2
    <3>3. At(0) = EndOfFile
      BY AtOK DEF PInv
    <3>4. QED
      BY <2>2, <3>2, <3>3 DEF PInv, TokensOK
  <2>3. QED
    BY <2>1, <2>2
<1>4. PlainToken
  BY <1>3, TypeOfEnd, Plain, PlainNow DEF check
<1>5. Quiet(<<Go("program")>>)
  BY NeutralItems, QuietOne DEF Burdened
<1>6. QED
  BY <1>1, <1>2, <1>4, <1>5, NeutralPass

-----------------------------------------------------------------------------
(* Every step keeps the brackets in balance.                               *)

LEMMA DeclarationsTurn ==
    ASSUME PInv, Declarations
    PROVE  work # <<>> /\ Turn
<1>1. TypeOK
  BY DEF PInv
<1>2. CASE parseProgram \/ NamespaceName \/ NamespaceBody
  BY <1>2, ParseProgramTurns, NamespaceNameTurns, NamespaceBodyTurns
<1>3. CASE parseStructDecl \/ parseStructFields \/ FieldName
  BY <1>3, ParseStructDeclTurns, ParseStructFieldsTurns, FieldNameTurns
<1>4. CASE parseTypeAliasDecl \/ AliasTarget \/ AliasEnd
  BY <1>1, <1>4, ParseTypeAliasDeclTurns, AliasTargetTurns, AliasEndTurns
<1>5. CASE parseFunctionDecl \/ TypeParameters \/ MoreTypeParameters
  BY <1>5, ParseFunctionDeclTurns, TypeParametersTurns, MoreTypeParametersTurns
<1>6. CASE parseParameters \/ ParameterName \/ MoreParameters
  BY <1>6, ParseParametersTurns, ParameterNameTurns, MoreParametersTurns
<1>7. QED
  BY <1>2, <1>3, <1>4, <1>5, <1>6 DEF Declarations

LEMMA StatementsTurn ==
    ASSUME PInv, PInv', [Stream!Next]_streamVars, StatementSteps
    PROVE  work # <<>> /\ Turn
<1>1. CASE parseBlock \/ Statements \/ parseStatement
  BY <1>1, ParseBlockTurns, StatementsTurns, ParseStatementTurns
<1>2. CASE parseVarDeclStatement \/ LetName \/ Initializer \/ Initialized
  BY <1>2, ParseVarDeclStatementTurns, LetNameTurns, InitializerTurns, InitializedTurns
<1>3. CASE LookBehindLet
  BY <1>3, LookingTurns
<1>4. CASE AfterName \/ AfterField \/ Assignment
  BY <1>4, AfterNameTurns, AfterFieldTurns, AssignmentTurns
<1>5. CASE Else \/ parseForInitializer \/ parseForUpdate
  BY <1>5, ElseTurns, ParseForPartsTurn
<1>6. CASE Cases \/ AfterDefault \/ ReturnValue \/ Arguments \/ MoreArguments
  BY <1>6, CasesTurns, AfterDefaultTurns, ReturnValueTurns, ArgumentsTurns, MoreArgumentsTurns
<1>7. QED
  BY <1>1, <1>2, <1>3, <1>4, <1>5, <1>6 DEF StatementSteps

LEMMA ExpressionsTurn ==
    ASSUME PInv, PInv', [Stream!Next]_streamVars, ExpressionSteps
    PROVE  work # <<>> /\ Turn
<1>1. TypeOK
  BY DEF PInv
<1>2. CASE parseExpression \/ BinaryLevel \/ parseUnary
  BY <1>1, <1>2, ParseExpressionTurns, BinaryLevelTurns, ParseUnaryTurns
<1>3. CASE parsePrimary \/ PrimaryName \/ FieldRead
  BY <1>3, ParsePrimaryTurns, PrimaryNameTurns, FieldReadTurns
<1>4. CASE parseStructLiteral \/ Fields \/ MoreFields
  BY <1>4, ParseStructLiteralTurns, FieldsTurns, MoreFieldsTurns
<1>5. CASE LookAhead
  BY <1>5, LookingTurns
<1>6. CASE parseQualifiedCallExpression \/ LooksGeneric \/ parseCallExpression \/ MoreTypes
  BY <1>1, <1>6, ParseQualifiedCallExpressionTurns, LooksGenericTurns,
     ParseCallExpressionTurns, MoreTypesTurns
<1>7. QED
  BY <1>2, <1>3, <1>4, <1>5, <1>6 DEF ExpressionSteps

LEMMA NextTurns ==
    ASSUME PInv, Next
    PROVE  work # <<>> /\ Turn
<1>1. PInv' /\ [Stream!Next]_streamVars
  BY NextKeeps
<1>2. CASE Start \/ Expected \/ NotExpected \/ Built \/ Fails
  BY <1>2, StartTurns, ExpectedTurns, NotExpectedTurns, BuiltTurns
<1>3. CASE parseType \/ ArrayType \/ ArraySize
  BY <1>3, ParseTypeTurns, ArrayTypeTurns, ArraySizeTurns
<1>4. QED
  BY <1>1, <1>2, <1>3, DeclarationsTurn, StatementsTurn, ExpressionsTurn DEF Next

LEMMA StutteringBalanced ==
    ASSUME Balanced, UNCHANGED vars
    PROVE  Balanced'
BY DEF Balanced, Opened, Owing, passed, position, failed, vars, tokenVars

LEMMA InitBalanced ==
    ASSUME Init
    PROVE  Balanced
<1>1. position = 0
  <2>1. delivered = 0 /\ Len(bufferedTokens) = 0
    BY DEF Init
  <2>2. QED
    BY <2>1 DEF position
<1>2. Opened(0, <<>>)
  <2> DEFINE behind == [i \in 0 .. 0 |-> <<>>]
  <2>1. behind \in [0 .. 0 -> Stacks] /\ behind[0] = <<>>
    BY EmptyStack
  <2> HIDE DEF behind
  <2>2. QED
    BY <2>1 DEF Opened
<1>3. Owing(<<>>)
  <2> DEFINE left == [i \in 0 .. 1 |-> <<>>]
             it   == Go("start")
  <2>1. left \in [0 .. 1 -> Stacks] /\ left[0] = <<>> /\ left[1] = <<>>
    BY EmptyStack
  <2>2. Owes(it, <<>>, <<>>)
    BY DEF Owes, Go, Item
  <2>3. work = <<it>>
    BY DEF Init
  <2> HIDE DEF left, it
  <2>4. Len(work) = 1 /\ work[1] = it
    BY <2>3
  <2>5. QED
    BY <2>1, <2>2, <2>4 DEF Owing
<1>4. QED
  BY <1>1, <1>2, <1>3, EmptyStack DEF Balanced, passed

\* For every source, while the parser has not failed: the brackets that are open
\* behind the tokens it has taken are those its activations have still to close,
\* each of them the ones it has opened or leaves to be closed by what it puts in
\* its place.  No method, list or loop returns before its bracket.
THEOREM BracketsInBalance == Spec => []Balanced
<1>1. Init => Balanced
  BY InitBalanced
<1>2. PInv /\ Balanced /\ [Next]_vars => Balanced'
  BY NextTurns, TurnKeeps, StutteringBalanced
<1>3. QED
  BY <1>1, <1>2, Invariance, PTL DEF Spec

-----------------------------------------------------------------------------
(* What is still open behind the whole source.                             *)

\* The function that StillOpen takes its value from.
IsOpen(f) ==
    f = [i \in 0 .. Len(source) |-> IF i = 0 THEN <<>> ELSE OpenAfter(f[i - 1], source[i])]

LEMMA StillOpenIs == StillOpen = (CHOOSE f : IsOpen(f))[Len(source)]
BY DEF StillOpen, IsOpen

LEMMA OpenIsOne ==
    ASSUME source \in Seq(Tokens), NEW f, NEW g, IsOpen(f), IsOpen(g)
    PROVE  f[Len(source)] = g[Len(source)]
<1> DEFINE Differ == {i \in Nat : i <= Len(source) /\ f[i] # g[i]}
<1>1. Len(source) \in Nat
  OBVIOUS
<1>2. ASSUME NEW i \in 0 .. Len(source)
      PROVE  /\ f[i] = IF i = 0 THEN <<>> ELSE OpenAfter(f[i - 1], source[i])
             /\ g[i] = IF i = 0 THEN <<>> ELSE OpenAfter(g[i - 1], source[i])
  BY DEF IsOpen
<1>3. ASSUME Differ # {} PROVE FALSE
  <2>1. PICK i \in Differ : \A k \in Differ : i <= k
    <3>1. Differ \in SUBSET Nat
      OBVIOUS
    <3> HIDE DEF Differ
    <3>2. QED
      BY <1>3, <3>1, Least
  <2>2. i \in 0 .. Len(source) /\ f[i] # g[i]
    BY <1>1, <2>1
  <2>3. i # 0
    BY <1>2, <2>2
  <2>4. i - 1 \in Nat /\ i - 1 <= Len(source) /\ ~(i <= i - 1)
    BY <1>1, <2>2, <2>3
  <2>5. f[i - 1] = g[i - 1]
    <3>1. i - 1 \notin Differ
      BY <2>1, <2>4
    <3>2. QED
      BY <2>4, <3>1
  <2>6. QED
    BY <1>2, <2>2, <2>3, <2>5
<1>4. QED
  BY <1>1, <1>3

LEMMA OpenedIsStillOpen ==
    ASSUME source \in Seq(Tokens), NEW open, Opened(Len(source), open)
    PROVE  StillOpen = open
<1>1. PICK behind \in [0 .. Len(source) -> Stacks] :
          /\ behind[0] = <<>> /\ behind[Len(source)] = open
          /\ \A i \in 1 .. Len(source) : behind[i] = OpenAfter(behind[i - 1], source[i])
  BY DEF Opened
<1>2. Len(source) \in Nat
  OBVIOUS
<1>3. IsOpen(behind)
  <2>1. behind = [i \in 0 .. Len(source) |-> behind[i]]
    BY <1>1
  <2>2. \A i \in 0 .. Len(source) :
           behind[i] = IF i = 0 THEN <<>> ELSE OpenAfter(behind[i - 1], source[i])
    <3>1. \A i \in 0 .. Len(source) : i # 0 => i \in 1 .. Len(source)
      BY <1>2
    <3>2. QED
      BY <1>1, <3>1
  <2>3. QED
    BY <2>1, <2>2 DEF IsOpen
<1>4. IsOpen(CHOOSE f : IsOpen(f))
  BY <1>3
<1>5. QED
  BY <1>1, <1>3, <1>4, OpenIsOne, StillOpenIs

\* For every source, the invariant of the runs: when all activations have
\* returned none owes a bracket, and the source has been read to its end, so
\* every bracket of an accepted source has its partner.
THEOREM ClosesEveryBracket == Spec => []AcceptedIsComplete
<1> DEFINE Read == Accepted => delivered = Len(source) + 1 /\ bufferedTokens = <<>>
<1>1. PInv /\ Balanced /\ Read => AcceptedIsComplete
  <2>1. SUFFICES ASSUME PInv, Balanced, Accepted,
                        delivered = Len(source) + 1, bufferedTokens = <<>>
                 PROVE  StillOpen = <<>>
    BY DEF AcceptedIsComplete
  <2>2. source \in Seq(Tokens) /\ ~failed /\ work = <<>>
    BY <2>1 DEF PInv, TypeOK, Accepted
  <2>3. PICK open \in Stacks : Opened(passed, open) /\ Owing(open)
    BY <2>1, <2>2 DEF Balanced
  <2>4. passed = Len(source)
    <3>1. Len(source) \in Nat /\ Len(bufferedTokens) = 0
      BY <2>1, <2>2
    <3>2. position = Len(source) + 1
      BY <2>1, <3>1 DEF position
    <3>3. QED
      BY <3>1, <3>2 DEF passed
  <2>5. StillOpen = open
    BY <2>2, <2>3, <2>4, OpenedIsStillOpen
  <2>6. open = <<>>
    BY <2>2, <2>3 DEF Owing
  <2>7. QED
    BY <2>5, <2>6
<1>2. QED
  BY <1>1, Invariance, BracketsInBalance, ReadsToTheEnd, PTL DEF Read
=============================================================================
