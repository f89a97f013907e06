-------------------------- MODULE MCMessageReader --------------------------
(* Instances of MessageReader for TLC. *)
EXTENDS MessageReader

SymbolSet == {"CR", "LF", "S", "L", "T", "chunked", "X", "x", "a", "0", "1", "2", "3", "-1"}
Number == [s \in SymbolSet |->
             CASE s = "1" -> 1 [] s = "2" -> 2 [] s = "3" -> 3
               [] s = "-1" -> NoSize [] OTHER -> 0]

Line(text) == text \o <<"CR", "LF">>
Start == Line(<<"S">>)
Length(n) == Line(<<"L", n>>)
Coding == Line(<<"T", "chunked">>)
Other == Line(<<"X", "x">>)
Blank == Line(<<>>)

\* Responses as the writer produces them; a body may hold line ends.
KnownSizeWires ==
  { Start \o Length("0") \o Blank,
    Start \o Other \o Length("2") \o Blank \o <<"a", "x">>,
    Start \o Length("3") \o Other \o Blank \o <<"CR", "LF", "a">>,
    Start \o Length("1") \o Length("2") \o Blank \o <<"LF">> }

NoWires == {}

\* A chunked response of one chunk.
ChunkedWires ==
  { Start \o Coding \o Blank \o Line(<<"1">>) \o Line(<<"a">>) \o Line(<<"0">>) \o Blank }

\* Everything the reader may meet: chunked bodies, no framing at all, both
\* framings, a length that is none, more data than announced, bare line feeds.
AnyWires ==
  KnownSizeWires \cup ChunkedWires \cup
  { Start \o Other \o Blank \o <<"a">>,
    Start \o Length("3") \o Coding \o Blank \o Line(<<"a">>) \o Blank,
    Start \o Length("1") \o Blank \o <<"a", "x", "x">>,
    Start \o Coding \o Coding \o Line(<<"L">>) \o Blank \o <<"a">>,
    Start \o Length("0") \o Blank \o <<"a">>,
    Start \o Length("-1") \o Blank \o <<"a">>,
    <<"S", "LF", "L", "1", "LF", "LF", "a">> }

============================================================================
