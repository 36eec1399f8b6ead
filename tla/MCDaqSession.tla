---------------------------- MODULE MCDaqSession ----------------------------
\* DaqSession.tla for TLC: the command lines that are tried.
EXTENDS DaqSession, TLC

\* every action, and lines that lack a word or have a number too large
MCCommands ==
  {<<"-r">>, <<"-m">>, <<"-s", "hv2", 3000>>, <<"-r", "xadc", "AI0">>, <<"-w", "cfg", "TRLVL_1", 7>>,
   <<"-s", "t1", 5>>, <<"-s", "ov1", 1200>>, <<"-a">>, <<"-f", "file">>, <<"-i">>,
   <<"-m", 2>>, <<"-m", 3>>, <<"-w", "intc", "IER", 0>>}

\* what an operator does while the program runs
MCBeside == {<<"-a">>, <<"-s", "t1", 5>>}

MCSymmetry == Permutations(Procs) \cup Permutations(Addrs)
=============================================================================
