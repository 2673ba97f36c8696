---------------------------- MODULE MCConfigGen ----------------------------
(***************************************************************************)
(* One committee of four servers on one ring and a client entering at s1  *)
(* and s2 and leaving at s1; two direct channels, an indirect and a local  *)
(* one, each with the property sets below, and every selector either      *)
(* empty or naming one channel.                                           *)
(***************************************************************************)
EXTENDS ConfigGen, TLC

CONSTANTS s1, s2, s3, s4, c1

MCServerSeq == <<s1, s2, s3, s4>>
MCClientSeq == <<c1>>
MCEntrance  == c1 :> <<s1, s2>>
MCExit      == c1 :> <<s1>>
MCReachable == [s \in {s1, s2, s3, s4} |-> <<>>]
MCChannelList == <<"a", "b", "i", "l">>
MCConnType == ("a" :> "CT_DIRECT") @@ ("b" :> "CT_DIRECT")
              @@ ("i" :> "CT_INDIRECT") @@ ("l" :> "CT_LOCAL")

Role(name, side, tags) == [name |-> name, side |-> side, tags |-> tags]

Shape(g, dir, mc, on, roles) ==
    [gid |-> g, ctype |-> MCConnType[g], dir |-> dir, multicast |-> mc,
     enabled |-> on, roles |-> roles]

Both(tags)          == <<Role("both", "LS_BOTH", tags)>>
CreatorLoader(tags) == <<Role("creator", "LS_CREATOR", tags), Role("loader", "LS_LOADER", tags)>>

MCShapesOf ==
    ("a" :> {Shape("a", "LD_BIDI", FALSE, TRUE, Both({})),
             Shape("a", "LD_BIDI", FALSE, TRUE, CreatorLoader({"t"}))})
    @@ ("b" :> {Shape("b", "LD_BIDI", FALSE, TRUE, Both({"t"})),
                Shape("b", "LD_LOADER_TO_CREATOR", FALSE, TRUE, CreatorLoader({})),
                Shape("b", "LD_BIDI", FALSE, FALSE, Both({}))})
    @@ ("i" :> {Shape("i", "LD_BIDI", TRUE, TRUE, CreatorLoader({"t"})),
                Shape("i", "LD_BIDI", FALSE, TRUE, Both({})),
                Shape("i", "LD_CREATOR_TO_LOADER", FALSE, TRUE, CreatorLoader({}))})
    @@ ("l" :> {Shape("l", "LD_BIDI", FALSE, TRUE, Both({"u"}))})

MCS2SChoices == {<<>>, <<"a">>, <<"b">>}
MCC2SChoices == {<<>>, <<"i">>}

=============================================================================
