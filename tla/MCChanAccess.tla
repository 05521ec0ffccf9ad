---------------------------- MODULE MCChanAccess ----------------------------
(* ChanAccess on small instances.                                          *)
EXTENDS ChanAccess

\* Below SUSPEND, SUSPEND and USERLIST themselves; 0 is refused and 200 is
\* the level of the owner only.
MCLevels == {0, 1, 100, 150, 200}

MCFewLevels == {150}
=============================================================================
