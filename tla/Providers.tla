----------------------------- MODULE Providers ------------------------------
(***************************************************************************)
(* What the engine asks of its providers: the facts of a conversation      *)
(* (src/core/src/llm.rs), the vectors of texts (src/core/src/embedding.rs) *)
(* and the entities a text mentions (src/core/src/entity.rs).              *)
(*                                                                         *)
(* A message is a sequence of lines, a line a sequence of pieces; a piece  *)
(* is [name, ended], ended when a full stop, an exclamation or a question  *)
(* mark follows it.  A line may start with a label, a text and ": ".       *)
(***************************************************************************)
EXTENDS Integers, Sequences, FiniteSets, SequencesExt

CONSTANT CANDLE_MAX_NEW_TOKENS

Refused(why) == [ok |-> FALSE, why |-> why]
Ok(v) == [ok |-> TRUE, is |-> v]

-----------------------------------------------------------------------------
(* The prompt of an extraction is a heading and the messages, each with    *)
(* its role as the label of its first line.                                *)
Piece(n, e) == [name |-> n, ended |-> e]
Heading == [label |-> FALSE, says |-> <<Piece(<<0, 0>>, FALSE)>>]
Prompt(conversation) ==
    <<Heading>> \o FlattenSeq([m \in DOMAIN conversation |->
        [l \in DOMAIN conversation[m] |->
            IF l = 1 THEN [label |-> TRUE, says |-> conversation[m][1].says] ELSE conversation[m][l]]])

\* The local provider keeps what follows the label of a line and drops the
\* lines without one, the heading among them; with no label at all it keeps
\* the whole text, which is then the heading of an empty conversation.
Labelled(line) == line.label
KeptLines(prompt) == SelectSeq(prompt, Labelled)

\* Pieces up to one that is ended make a sentence, over the ends of lines.
Sentences(pieces) ==
    LET starts == {1} \cup {i \in 2..Len(pieces) : pieces[i - 1].ended}
        from   == SetToSortSeq(starts, LAMBDA a, b : a < b)
        upto(n) == IF n = Len(from) THEN Len(pieces) ELSE from[n + 1] - 1
    IN  IF pieces = <<>> THEN <<>>
        ELSE [n \in DOMAIN from |-> SubSeq(pieces, from[n], upto(n))]

LocalComplete(prompt) ==
    LET labelled == KeptLines(prompt)
        kept == IF labelled = <<>> THEN prompt ELSE labelled
    IN  Sentences(FlattenSeq([l \in DOMAIN kept |-> kept[l].says]))

\* One fact per line of the completion.
extract_facts(conversation) == LocalComplete(Prompt(conversation))

-----------------------------------------------------------------------------
(* Completions.  The model of Ollama answers a request in one of a few     *)
(* ways; the built-in model gives one token after the other, until the one *)
(* that ends or the limit.                                                 *)
Replies == {"timeout", "unreachable", "401", "500", "no json", "no content", "content"}
ollama_complete(messages, reply) ==
    CASE messages = <<>>       -> Refused("EmptyMessages")
      [] messages # <<>> /\ reply = "timeout" -> Refused("Timeout")
      [] messages # <<>> /\ reply \in {"unreachable", "500"} -> Refused("Backend")
      [] messages # <<>> /\ reply = "401" -> Refused("AuthFailure")
      [] messages # <<>> /\ reply \in {"no json", "no content"} -> Refused("Malformed")
      [] messages # <<>> /\ reply = "content" -> Ok("content")

\* tokens is what the model samples, "eos" the token that ends.
candle_complete(messages, tokens) ==
    LET ends == {i \in 1..CANDLE_MAX_NEW_TOKENS : i =< Len(tokens) /\ tokens[i] = "eos"}
        last == IF ends = {} THEN CANDLE_MAX_NEW_TOKENS ELSE (CHOOSE i \in ends : \A j \in ends : i =< j) - 1
    IN  IF messages = <<>> THEN Refused("EmptyMessages") ELSE Ok(SubSeq(tokens, 1, last))

local_complete(messages) == IF messages = <<>> THEN Refused("EmptyMessages") ELSE Ok("sentences")

-----------------------------------------------------------------------------
(* Vectors.  The vector of a text is Vector(t).  A server of embeddings    *)
(* takes batches, or is old and knows none, or answers with too few rows,  *)
(* with rows that are none, with an element that is no number, or not at   *)
(* all.                                                                    *)
Vector(t) == <<[of |-> t, number |-> 1], [of |-> t, number |-> 2]>>
NoNumber == [of |-> "", number |-> 0]
Servers == {"new", "old", "short", "odd", "ragged", "broken", "slow"}
HasEmpty(texts) == \E i \in DOMAIN texts : texts[i] = ""

\* The row a server gives to a text, and what is taken from it: an element that
\* is no number is left out.
Row(t, server) == IF server = "ragged" THEN <<NoNumber>> \o Tail(Vector(t)) ELSE Vector(t)
Numbers(row) == SelectSeq(row, LAMBDA e : e # NoNumber)

\* One text, by the request that every server knows.
ollama_embed(text, server) ==
    CASE text = "" -> Refused("EmptyInput")
      [] text # "" /\ server = "slow" -> Refused("Timeout")
      [] text # "" /\ server \in {"broken", "odd"} -> Refused("Backend")
      [] text # "" /\ server \in {"new", "old", "short", "ragged"} -> Ok(Numbers(Row(text, server)))

\* Every text on its own, up to the first that is refused.
OneByOne(texts, Embed(_)) ==
    LET wrong == {i \in DOMAIN texts : ~Embed(texts[i]).ok}
    IN  IF wrong = {} THEN Ok([i \in DOMAIN texts |-> Embed(texts[i]).is])
        ELSE Embed(texts[CHOOSE i \in wrong : \A j \in wrong : i =< j])

\* What is taken from the rows a server gives to a batch.
Rows(texts, server) ==
    LET n == IF server = "short" THEN Len(texts) - 1 ELSE Len(texts)
    IN  [i \in 1..n |-> Numbers(Row(texts[i], server))]

\* The rows taken as they come.
UncountedRows(texts, server) == Ok(Rows(texts, server))
parse_batch_embeddings_response(texts, server) ==
    IF server = "odd" \/ Len(Rows(texts, server)) # Len(texts) THEN Refused("Backend") ELSE Ok(Rows(texts, server))

ollama_embed_batch(texts, server) ==
    CASE texts = <<>> -> Ok(<<>>)
      [] texts # <<>> /\ HasEmpty(texts) -> Refused("EmptyInput")
      [] texts # <<>> /\ ~HasEmpty(texts) /\ server = "old" -> OneByOne(texts, LAMBDA t : ollama_embed(t, server))
      [] texts # <<>> /\ ~HasEmpty(texts) /\ server = "slow" -> Refused("Timeout")
      [] texts # <<>> /\ ~HasEmpty(texts) /\ server = "broken" -> Refused("Backend")
      [] texts # <<>> /\ ~HasEmpty(texts) /\ server \in {"new", "short", "odd", "ragged"} ->
            parse_batch_embeddings_response(texts, server)

local_embed(text) == IF text = "" THEN Refused("EmptyInput") ELSE Ok(Vector(text))
local_embed_batch(texts) == OneByOne(texts, local_embed)

fastembed_batch(texts, server) ==
    CASE HasEmpty(texts) -> Refused("EmptyInput")
      [] texts = <<>> -> Ok(<<>>)
      [] texts # <<>> /\ ~HasEmpty(texts) ->
            IF server = "broken" THEN Refused("Backend") ELSE Ok([i \in DOMAIN texts |-> Vector(texts[i])])

embed_batch(provider, texts, server) ==
    CASE provider = "local" -> local_embed_batch(texts)
      [] provider = "ollama" -> ollama_embed_batch(texts, server)
      [] provider = "fastembed" -> fastembed_batch(texts, server)

-----------------------------------------------------------------------------
(* Entities.  Proper names are runs of two or more capitalised words in    *)
(* one sentence.  A token is [word, end]: "Cap", "low" or "none" once its  *)
(* punctuation is cut off, and whether it ends a sentence.                 *)
extract_proper_spans(tokens) ==
    {<<i, j>> \in (DOMAIN tokens) \X (DOMAIN tokens) :
        /\ i < j
        /\ \A k \in i..j : tokens[k].word = "Cap"
        /\ \A k \in i..(j - 1) : ~tokens[k].end
        /\ i = 1 \/ tokens[i - 1].word # "Cap" \/ tokens[i - 1].end
        /\ j = Len(tokens) \/ tokens[j + 1].word # "Cap" \/ tokens[j].end}

(* Quotes.  A text is a sequence of characters: the quote ('), a letter, a *)
(* space, one that may only come before a quotation or only after one.     *)
Chars == {"'", "a", " ", "(", "."}
Opens(text, i) == text[i] = "'" /\ (i = 1 \/ text[i - 1] \in {" ", "("})
Closes(text, j) == text[j] = "'" /\ (j = Len(text) \/ text[j + 1] \in {" ", "."})

RECURSIVE SpansFrom(_, _)
SpansFrom(text, i) ==
    LET quotes == {j \in (i + 1)..Len(text) : text[j] = "'"}
        next   == CHOOSE j \in quotes : \A k \in quotes : j =< k
    IN  IF i > Len(text) THEN {}
        ELSE IF Opens(text, i) /\ quotes # {} /\ Closes(text, next)
             THEN {<<i, next>>} \cup SpansFrom(text, next + 1)
             ELSE SpansFrom(text, i + 1)

\* What is in a span without the spaces around it: short ones do not count.
Inner(text, span) ==
    LET full == {k \in (span[1] + 1)..(span[2] - 1) : text[k] # " "}
    IN  IF full = {} THEN 0
        ELSE (CHOOSE k \in full : \A l \in full : k >= l) - (CHOOSE k \in full : \A l \in full : k =< l) + 1
extract_single_quoted_spans(text) == {s \in SpansFrom(text, 1) : Inner(text, s) > 2}

\* Double quotes pair as they come.
extract_quoted_spans(text) ==
    LET quotes == SelectSeq([i \in DOMAIN text |-> i], LAMBDA i : text[i] = "'")
    IN  {s \in {<<quotes[2 * n - 1], quotes[2 * n]>> : n \in 1..(Len(quotes) \div 2)} : Inner(text, s) > 2}

-----------------------------------------------------------------------------
(* The inputs.                                                             *)
Saying(n, ps) == [i \in DOMAIN ps |-> Piece(<<n, i>>, ps[i])]
Line(n, label, ps) == [label |-> label, says |-> Saying(n, ps)]
Ends == {<<>>, <<TRUE>>, <<FALSE>>, <<TRUE, FALSE>>, <<TRUE, TRUE>>}
Conversations ==
    {<<>>}
    \cup {<<<<Line(1, l, p), Line(2, m, q)>>, <<Line(3, FALSE, r)>>>> : l, m \in BOOLEAN, p, q, r \in Ends}
    \cup {<<<<Line(1, l, p)>>, <<Line(2, FALSE, q)>>>> : l \in BOOLEAN, p, q \in Ends}

Batches ==
    {[provider |-> p, texts |-> t, server |-> s] :
        p \in {"local", "ollama", "fastembed"}, t \in UNION {[1..n -> {"", "x", "y"}] : n \in 0..3}, s \in Servers}

Completions ==
    {[messages |-> m, reply |-> r, tokens |-> t] :
        m \in {<<>>, <<"hello">>}, r \in Replies,
        t \in UNION {[1..(CANDLE_MAX_NEW_TOKENS + 1) -> {"eos", "u"}]}}

Sayings == UNION {[1..n -> Chars] : n \in 0..6} \cup {[i \in 1..9 |-> IF i \in q THEN "'" ELSE IF i \in s THEN " " ELSE "a"] :
             q \in SUBSET {1, 3, 5, 9}, s \in SUBSET {2, 4, 6}}
Mentions == {[words |-> w, pre |-> p, post |-> s] :
               w \in UNION {[1..n -> [word : {"Cap"}, end : {FALSE}]] : n \in 1..3},
               p, s \in UNION {[1..n -> [word : {"Cap", "low", "none"}, end : BOOLEAN]] : n \in 0..2}}

-----------------------------------------------------------------------------
\* The facts of a conversation are its sentences in their order, no piece in
\* two of them: nothing that is said in the first line of a message is lost,
\* and a later line is lost only if it has no label.  A message that does not
\* end its last sentence shares a fact with the next one.  A conversation
\* without messages has one fact all the same, the heading of the prompt.
FactsFollowTheText(conversation) ==
    LET facts == extract_facts(conversation)
        told  == FlattenSeq(facts)
        said  == FlattenSeq([m \in DOMAIN conversation |-> FlattenSeq([l \in DOMAIN conversation[m] |-> conversation[m][l].says])])
        lost(p) == \A i \in DOMAIN told : told[i] # p
    IN  /\ told = IF conversation = <<>> THEN Heading.says ELSE SelectSeq(said, LAMBDA p : ~lost(p))
        /\ \A f \in DOMAIN facts : facts[f] # <<>> /\ \A i \in 1..(Len(facts[f]) - 1) : ~facts[f][i].ended
        /\ \A m \in DOMAIN conversation : \A l \in DOMAIN conversation[m] : \A i \in DOMAIN conversation[m][l].says :
              lost(conversation[m][l].says[i]) <=> (l > 1 /\ ~conversation[m][l].label)

\* A batch has one vector per text, that of the text at its place, or is
\* refused as a whole, whatever the server of the embeddings knows; an empty
\* text is refused by every provider.  Only an element that is no number goes
\* unnoticed: its vector is shorter, in a batch as for the text alone.
BatchIsOneByOne(q) ==
    LET b == embed_batch(q.provider, q.texts, q.server)
        ragged == q.provider = "ollama" /\ q.server = "ragged"
    IN  /\ b.ok => b.is = [i \in DOMAIN q.texts |->
                              IF ragged THEN ollama_embed(q.texts[i], q.server).is ELSE Vector(q.texts[i])]
        /\ HasEmpty(q.texts) => b = Refused("EmptyInput")
        /\ ~HasEmpty(q.texts) /\ q.server \in {"new", "old"} => b.ok

\* No provider completes nothing, what went wrong is told apart, and a
\* completion of the built-in model stops before its end token or at the limit.
CompletionsEnd(q) ==
    LET o == ollama_complete(q.messages, q.reply)
        c == candle_complete(q.messages, q.tokens)
    IN  /\ q.messages = <<>> => {o, c, local_complete(q.messages)} = {Refused("EmptyMessages")}
        /\ o.ok <=> (q.messages # <<>> /\ q.reply = "content")
        /\ c.ok => /\ Len(c.is) =< CANDLE_MAX_NEW_TOKENS
                   /\ \A i \in DOMAIN c.is : c.is[i] # "eos"
                   /\ Len(c.is) < CANDLE_MAX_NEW_TOKENS => q.tokens[Len(c.is) + 1] = "eos"

\* Quotations do not overlap, each stands apart from the words around it, and
\* none of a text is missed but one that shares a quote with another.
QuotationsStandApart(text) ==
    LET spans == SpansFrom(text, 1)
        apart(s, t) == s[2] < t[1] \/ t[2] < s[1]
        quotation(i, j) == /\ i < j /\ Opens(text, i) /\ text[j] = "'" /\ (j = Len(text) \/ text[j + 1] \in {" ", "."})
                           /\ \A k \in (i + 1)..(j - 1) : text[k] # "'"
    IN  /\ \A s, t \in spans : s = t \/ apart(s, t)
        /\ \A s \in spans : quotation(s[1], s[2])
        /\ \A i, j \in DOMAIN text :
              quotation(i, j) => \E s \in spans : ~apart(s, <<i, j>>)
        /\ extract_single_quoted_spans(text) \subseteq spans
        /\ \A s, t \in extract_quoted_spans(text) : s = t \/ apart(s, t)
        /\ \A s \in extract_single_quoted_spans(text) \cup extract_quoted_spans(text) : s[2] - s[1] > 3

\* A name between words that are not capitalised, or other sentences, is the
\* same entity wherever it stands, so a question that mentions it finds what a
\* fact that mentions it was linked to; a single word is none.
NamesAreFoundAgain(q) ==
    LET text == q.pre \o q.words \o q.post
        from == Len(q.pre) + 1
        upto == Len(q.pre) + Len(q.words)
        apart == /\ q.pre = <<>> \/ Last(q.pre).word # "Cap" \/ Last(q.pre).end
                 /\ q.post = <<>> \/ Head(q.post).word # "Cap"
    IN  /\ apart /\ Len(q.words) > 1 => <<from, upto>> \in extract_proper_spans(text)
        /\ apart /\ Len(q.words) = 1 => \A s \in extract_proper_spans(text) : s[2] < from \/ s[1] > upto
        /\ \A s, t \in extract_proper_spans(text) : s = t \/ s[2] < t[1] \/ t[2] < s[1]
=============================================================================
