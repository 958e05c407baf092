-------------------------- MODULE MCFollowupQueue --------------------------
EXTENDS FollowupQueue, TLC
============================================================================
