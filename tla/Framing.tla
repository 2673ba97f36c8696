------------------------------ MODULE Framing ------------------------------
(***************************************************************************)
(* The "~~~"-delimited framing of RaceCrypto (formatDelimitedMessage,      *)
(* parseDelimitedExtMessage), as pure operators over strings.  A string is *)
(* a sequence of one-character strings.  Only the message body is free     *)
(* text: it is the application's msg, drawn from {"a", "~"} up to          *)
(* MaxBodyLen characters.  Persona uuids, integers and the JSON committee  *)
(* lists come from configuration and never contain "~"; each is one        *)
(* character standing for its token: From, To, a digit for every integer   *)
(* field, and a JSON list.                                                 *)
(*                                                                         *)
(* The client frames a ClrMsg (7 tokens, led by "clrMsg"), servers frame   *)
(* an ExtClrMsg (13 tokens, led by "extClrMsg"); both are parsed by        *)
(* parseDelimitedExtMessage, which splits with Python's str.split: scan    *)
(* left to right for the first non-overlapping occurrence of the           *)
(* delimiter.                                                              *)
(***************************************************************************)
EXTENDS Integers, Sequences, SequencesExt

CONSTANT MaxBodyLen

Delimiter == <<"~", "~", "~">>

\* Tokens of the configured fields.
ClrTag  == <<"c">>      \* "clrMsg"
ExtTag  == <<"x">>      \* "extClrMsg"
From    == <<"f">>
To      == <<"t">>
IntTok  == <<"0">>
JsonTok == <<"[", "]">>

Bodies == SeqOf({"a", "~"}, MaxBodyLen)

\* int(tok): a nonempty run of digits.  json.loads(tok): a JSON list or a
\* bare integer (which json.loads also accepts).
IsInt(tok)  == tok # <<>> /\ \A i \in DOMAIN tok : tok[i] = "0"
IsJson(tok) == tok = JsonTok \/ IsInt(tok)

\* The fields of a ClrMsg (msg, from, to, time, nonce, ampIndex) and of an
\* ExtClrMsg (those, then uuid, ringTtl, ringIdx, msgType, committeesVisited,
\* committeesSent) carrying body b.
ClrFields(b) == <<b, From, To, IntTok, IntTok, IntTok>>
ExtFields(b) == ClrFields(b) \o <<IntTok, IntTok, IntTok, IntTok, JsonTok, JsonTok>>

\* ExtClrMsg.fromClrMsg: the six ClrMsg fields; uuid is a hash of them and
\* the ring fields take their defaults, all integers.
FromClrMsg(f) == f \o <<IntTok, IntTok, IntTok, IntTok, JsonTok, JsonTok>>

\* "~~~".join(tokens)
RECURSIVE Join(_)
Join(tokens) ==
    IF Len(tokens) = 1 THEN tokens[1]
    ELSE tokens[1] \o Delimiter \o Join(Tail(tokens))

\* Mutant: one delimiter left out of the format, between time and nonce.
FormatDelimitedMessageMissingDelimiter(tag, fields) ==
    Join(<<tag>> \o SubSeq(fields, 1, 3) \o <<fields[4] \o fields[5]>>
                 \o SubSeq(fields, 6, Len(fields)))

\* formatDelimitedMessage: the leading tag, then the fields, joined.
FormatDelimitedMessage(tag, fields) == Join(<<tag>> \o fields)

\* Index of the first occurrence of the delimiter in s, 0 if none.
DelimiterAt(s) ==
    LET hits == {i \in 1..(Len(s) - 2) : SubSeq(s, i, i + 2) = Delimiter}
    IN  IF hits = {} THEN 0 ELSE CHOOSE i \in hits : \A j \in hits : i <= j

\* str.split("~~~")
RECURSIVE Split(_)
Split(s) ==
    LET i == DelimiterAt(s)
    IN  IF i = 0 THEN <<s>>
        ELSE <<SubSeq(s, 1, i - 1)>> \o Split(SubSeq(s, i + 3, Len(s)))

Parsed(fields) == [status |-> "ok", fields |-> fields]
NoMessage      == [status |-> "none"]
Raises         == [status |-> "raise"]

\* parseDelimitedExtMessage.  With 7 or more tokens, tokens[4..6] go through
\* int() first, whatever the count; 7 tokens are a ClrMsg, 13 an ExtClrMsg
\* whose tokens[7..10] go through int() and tokens[11..12] through
\* json.loads; any other count is logged and gives None.  A failing int()
\* or json.loads raises ValueError out of the parser.
ParseDelimitedExtMessage(text) ==
    LET tk == Split(text)
        \* Python's tokens[k]
        tok(k) == tk[k + 1]
    IN  CASE Len(tk) >= 7 /\ ~(\A k \in 4..6 : IsInt(tok(k))) -> Raises
          [] Len(tk) = 7 -> Parsed(FromClrMsg(SubSeq(tk, 2, 7)))
          [] Len(tk) = 13 /\ ~(/\ \A k \in 7..10 : IsInt(tok(k))
                               /\ \A k \in 11..12 : IsJson(tok(k))) -> Raises
          [] Len(tk) = 13 -> Parsed(SubSeq(tk, 2, 13))
          [] OTHER -> NoMessage

-----------------------------------------------------------------------------
(***************************************************************************)
(* Reference definitions, stated without the splitter.                     *)
(***************************************************************************)
ContainsDelimiter(b) == \E i \in 1..(Len(b) - 2) : SubSeq(b, i, i + 2) = Delimiter

\* A body survives the framing when it holds no "~~~" and does not end in
\* "~" (a trailing "~" joins the delimiter that follows it).
SafeBody(b) == ~ContainsDelimiter(b) /\ (b = <<>> \/ Last(b) # "~")

\* The string a hop puts on the wire for body b: the client frames the
\* application's ClrMsg (processClrMsg), a server the ExtClrMsg it forwards.
Framed(hop, b) ==
    IF hop = "client" THEN FormatDelimitedMessage(ClrTag, ClrFields(b))
    ELSE FormatDelimitedMessage(ExtTag, ExtFields(b))

\* What the receiver of a framed message gets from a hop, over every body:
\*  - exactly the message sent, iff the body is safe;
\*  - a ValueError out of parseDelimitedExtMessage (so processEncPkg returns
\*    PLUGIN_FATAL), iff the body contains "~~~";
\*  - never None: a framed message is not dropped as unparseable;
\*  - when it parses, re-framing what was parsed (the server forwarding it)
\*    parses to the same message, so every later hop agrees on it.
FramingOutcome(hop) ==
    \A b \in Bodies :
        LET r == ParseDelimitedExtMessage(Framed(hop, b)) IN
        /\ (r = Parsed(ExtFields(b))) <=> SafeBody(b)
        /\ (r = Raises) <=> ContainsDelimiter(b)
        /\ r # NoMessage
        /\ r.status = "ok" =>
               ParseDelimitedExtMessage(FormatDelimitedMessage(ExtTag, r.fields)) = r

\* The outcome for each kind of hop, a constant computed once.
FramingOutcomeByHop == [hop \in {"client", "server"} |-> FramingOutcome(hop)]

=============================================================================
