----------------------------- MODULE MCFrameAdmin -----------------------------
EXTENDS FrameAdmin
=============================================================================
