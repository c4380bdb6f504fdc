---------------------------- MODULE MCXrtBackend ----------------------------
EXTENDS XrtBackend

ReadFirst == {{"R"}, {"R", "W"}}
AnyMode == {{"R"}, {"W"}, {"R", "W"}}
=============================================================================
