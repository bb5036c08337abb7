---------------------------- MODULE MCUpload ----------------------------
EXTENDS UploadSetup

\* A smallest input, and one with more indices than vertices.
const_Sizes == {[vertices |-> 1, indices |-> 1], [vertices |-> 2, indices |-> 3]}

=============================================================================
