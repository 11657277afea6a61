---------------------------- MODULE MCDraftStream ----------------------------
EXTENDS DraftStream, TLC

ChatSymmetry == Permutations(Chats)
=============================================================================
