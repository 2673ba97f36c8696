---------------------------- MODULE MCLinkWizard ----------------------------
(***************************************************************************)
(* Client a and servers b and c.  ch1 is an indirect bidirectional channel *)
(* every node can create and load; ch2 is a direct channel in the          *)
(* loader-to-creator direction, where b and c load and create.  a (a      *)
(* client) asks b for a link, b asks c, and c asks a (a client reachable   *)
(* only through ch1).                                                      *)
(***************************************************************************)
EXTENDS LinkWizard, TLC

CONSTANTS a, b, c, ch1, ch2

MCNodes == {a, b, c}
MCChannels == {ch1, ch2}
MCSide == (a :> (ch1 :> "LS_BOTH" @@ ch2 :> "none"))
          @@ (b :> (ch1 :> "LS_BOTH" @@ ch2 :> "LS_LOADER"))
          @@ (c :> (ch1 :> "LS_BOTH" @@ ch2 :> "LS_CREATOR"))
MCDir == ch1 :> "LD_BIDI" @@ ch2 :> "LD_LOADER_TO_CREATOR"
MCConnType == ch1 :> "CT_INDIRECT" @@ ch2 :> "CT_DIRECT"
MCBandwidth == ch1 :> [s \in {"LS_CREATOR", "LS_LOADER"} |-> 10]
               @@ ch2 :> [s \in {"LS_CREATOR", "LS_LOADER"} |-> 100]
MCPType == a :> "P_CLIENT" @@ b :> "P_SERVER" @@ c :> "P_SERVER"
MCMaxLinks == ch1 :> 2 @@ ch2 :> 2

\* a -> b, b -> c, c -> a once each
MCObtainCalls == [np \in MCNodes \X MCNodes |->
                    IF np \in {<<a, b>>, <<b, c>>, <<c, a>>} THEN 1 ELSE 0]
\* a asks b twice (invokeLinkWizard, then the retry hook) before b answers
MCObtainTwice == [np \in MCNodes \X MCNodes |-> IF np = <<a, b>> THEN 2 ELSE 0]
MCMaxLinksOne == ch1 :> 1 @@ ch2 :> 1

=============================================================================
