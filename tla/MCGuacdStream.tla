--------------------------- MODULE MCGuacdStream ---------------------------
(***************************************************************************)
(* Instances of GuacdStream for TLC: what guacd sends.  guacd counts       *)
(* characters, which for one-byte characters is what String writes.        *)
(***************************************************************************)
EXTENDS GuacdStream

A == 20
R == 21
I == 22
x == 23
y == 24

ArgsIns == String(<< <<A>>, <<x, y>> >>)
ReadyIns == String(<< <<R>>, <<y>> >>)
Greeting == <<ArgsIns, ReadyIns>>

\* As long as MaxGuacMessage (16), with a two-digit length.
Longest == String(<< <<x, x, y, x, x, y, x, x, y, x, x, y>> >>)
\* An element made of what separates elements.
Tricky == String(<< <<x>>, <<Semicolon, Dot, 1, Comma>> >>)
Info == String(<< <<I>>, <<y>> >>)
Internal == String(<< <<>>, <<x>> >>)

NotANumber == <<x>>
NoTerminator == <<1, Dot, x, x>>
NotInstructions == {NotANumber, NoTerminator}

Sessions == {
    Greeting \o <<Longest, Tricky, Info, Longest, Internal, Longest, Tricky, Tricky>>,
    Greeting \o <<Tricky, Longest, Info, Internal>>,
    Greeting \o <<Tricky, NotANumber>>,
    Greeting \o <<Longest, NoTerminator>>,
    <<ReadyIns, ArgsIns>>,
    <<ArgsIns, Info, Longest>>,
    <<ArgsIns, String(<< <<R>> >>)>> }

ASSUME SessionsPlain ==
    \A s \in Sessions :
       /\ Plain(s)
       /\ \A k \in {1, 2} : Encodes(s[k], Parse(s[k]))

\* copy with two three-byte characters.
Copy == <<1, Dot, x, Comma, 2, Dot, Lead, Cont, Cont, Lead, Cont, Cont, Semicolon>>
WideSession == {Greeting \o <<Copy, Tricky>>}
=============================================================================
