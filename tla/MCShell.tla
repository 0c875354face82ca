------------------------------- MODULE MCShell -------------------------------
(* One line of up to five tokens, or one of up to three and another one;     *)
(* small limits, which some lines exceed.                                    *)
EXTENDS Shell

CONSTANTS MaxTokens, FewTokens

MCInputs ==
    {<<line>> : line \in SeqOf(Token, MaxTokens)}
    \cup {<<line, <<"a", ";", "a">>>> : line \in SeqOf(Token, FewTokens)}
=============================================================================
