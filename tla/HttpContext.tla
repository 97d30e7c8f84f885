------------------------------ MODULE HttpContext ------------------------------
(***************************************************************************)
(* The parser of HTTP requests (src/net/simple_http/HttpContext.cpp and    *)
(* HttpRequest.h) as operators, and a reference for what it should read.   *)
(*                                                                         *)
(* The parser looks for line ends, and in a line for a space, a method, a  *)
(* colon.  A text without line end is one symbol, which stands for all     *)
(* texts that look alike to it; an end of line is two.                     *)
(***************************************************************************)
EXTENDS Naturals, Sequences, FiniteSetsExt

\* "request": method, path and version.  "malformed": a method, and something else.
\* "unknown": no method before its first space.  "field": a header.  "word": no space
\* and no colon.  An "empty" line has no text.
Line == {"request", "malformed", "unknown", "field", "word", "empty"}

HasSpace == {"request", "malformed", "unknown", "field"}
HasMethod == {"request", "malformed"}
HasColon == {"field"}

Symbol == (Line \ {"empty"}) \cup {"cr", "lf"}

Symbols(line) == IF line = "empty" THEN <<"cr", "lf">> ELSE <<line, "cr", "lf">>

\* A context: its state, whether method_ of the request is set, and its headers_.
Context == [state_ : {"ExpectRequestLine", "ExpectHeaders", "GotAll"},
            method_ : BOOLEAN, headers_ : SUBSET HasColon]

NewContext == [state_ |-> "ExpectRequestLine", method_ |-> FALSE, headers_ |-> {}]

\* Mutation: the method of a request stays set.
ResetKeepsMethod(context) ==
    [context EXCEPT !.state_ = "ExpectRequestLine", !.headers_ = {}]

\* HttpContext::reset()
Reset(context) == NewContext

-------------------------------------------------------------------------------
(* The parser.  Its progress is a record p: the context, the readable bytes, *)
(* ok, hasMore, and whether the assertion in setMethod() has failed.         *)

\* Mutation: a carriage return is a line end.
FindCR(in) ==
    LET ends == {i \in 1 .. Len(in) : in[i] = "cr"} IN
    IF ends = {} THEN 0 ELSE Min(ends)

\* Buffer::findCRLF(): the place of the first line end, or 0.
FindCRLF(in) ==
    LET ends == {i \in 1 .. Len(in) - 1 : in[i] = "cr" /\ in[i + 1] = "lf"} IN
    IF ends = {} THEN 0 ELSE Min(ends)

Contains(text, symbols) == \E i \in 1 .. Len(text) : text[i] \in symbols

\* retrieveUntil(crlf + 2)
Retrieved(in, crlf) == SubSeq(in, crlf + 2, Len(in))

\* processRequestLine(): what is left of the text of a bad line stays in the buffer.
ProcessRequestLine(p, crlf) ==
    LET text == SubSeq(p.in, 1, crlf - 1)
        set == [p EXCEPT !.context.method_ = IF Contains(text, HasSpace)
                                               THEN Contains(text, HasMethod) ELSE @] IN
    IF Contains(text, HasSpace) /\ p.context.method_
      THEN [p EXCEPT !.aborted = TRUE, !.hasMore = FALSE]
    ELSE IF text = <<"request">>
      THEN [set EXCEPT !.in = Retrieved(@, crlf), !.context.state_ = "ExpectHeaders"]
    ELSE [set EXCEPT !.ok = FALSE, !.hasMore = FALSE]

\* A line of the header: a field, or the end of the header.
ProcessHeader(p, crlf) ==
    LET text == SubSeq(p.in, 1, crlf - 1) IN
    IF Contains(text, HasColon)
      THEN [p EXCEPT !.context.headers_ = @ \cup (Range(text) \cap HasColon),
                     !.in = Retrieved(@, crlf)]
      ELSE [p EXCEPT !.context.state_ = "GotAll", !.hasMore = FALSE,
                     !.in = Retrieved(@, crlf)]

\* One round of the loop in parseRequest(), with the place of the first line end.
Round(p, crlf) ==
    IF crlf = 0 THEN [p EXCEPT !.hasMore = FALSE]
    ELSE IF p.context.state_ = "ExpectRequestLine" THEN ProcessRequestLine(p, crlf)
    ELSE ProcessHeader(p, crlf)

Progress == [context : Context, in : Seq(Symbol), ok : BOOLEAN, hasMore : BOOLEAN,
             aborted : BOOLEAN]

\* The loop of parseRequest().  It has no case for a context that has got all: it would have
\* more for ever.
Parse[p \in Progress] ==
    IF p.hasMore /\ p.context.state_ # "GotAll" THEN Parse[Round(p, FindCRLF(p.in))] ELSE p

\* parseRequest()
ParseRequest(context, in) ==
    Parse[[context |-> context, in |-> in, ok |-> TRUE, hasMore |-> TRUE, aborted |-> FALSE]]

-------------------------------------------------------------------------------
(* The reference: what lines mean that are read as a whole. *)

\* These lines are a request: a request line, fields, and a line that is none.
IsRequest(lines, first, last) ==
    /\ first < last
    /\ lines[first] = "request" /\ lines[last] \notin HasColon
    /\ \A i \in first + 1 .. last - 1 : lines[i] \in HasColon

\* Where the line is that follows the first n requests.
After(ends, n) == IF n = 0 THEN 1 ELSE ends[n] + 1

\* Where requests end that follow each other from the first line on.  Each has two lines at
\* least.
Cuts(lines) ==
    {ends \in UNION {[1 .. n -> 1 .. Len(lines)] : n \in {m \in 0 .. Len(lines) : 2 * m <= Len(lines)}} :
        \A i \in 1 .. Len(ends) : IsRequest(lines, After(ends, i - 1), ends[i])}

\* The headers of each of these requests.
Fields(lines, ends) ==
    [i \in 1 .. Len(ends) |-> {lines[j] : j \in After(ends, i - 1) + 1 .. ends[i] - 1}]

\* All the requests, and whether a line comes after them that is none.
Reading(lines) ==
    LET cuts == Cuts(lines)
        ends == CHOOSE c \in cuts : \A d \in cuts : Len(d) <= Len(c)
        next == After(ends, Len(ends)) IN
    [requests |-> Fields(lines, ends), bad |-> next <= Len(lines) /\ lines[next] # "request"]
===============================================================================
