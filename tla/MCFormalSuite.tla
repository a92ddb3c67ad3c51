---------------------------- MODULE MCFormalSuite ---------------------------
\* Instances of FormalSuite for TLC.
EXTENDS FormalSuite, TLC

\* A staged campaign followed by one that rebuilds and hashes its environment.
TwoCampaigns == <<"common", "offshore">>

OneCampaign == <<"common">>

\* The runs are interchangeable, and so are the controllers.
Interchangeable == Permutations(Runs) \cup Permutations(Controllers)
=============================================================================
