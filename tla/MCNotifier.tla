----------------------------- MODULE MCNotifier -----------------------------
(* Three threads that ping; enough for one to win, one to lose the race and *)
(* one to come late.                                                        *)
EXTENDS Notifier, TLC

Sym == Permutations(Thread)

=============================================================================
