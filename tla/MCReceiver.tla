---------------------------- MODULE MCReceiver ----------------------------
EXTENDS Receiver, TLC

\* Measured rates: almost, and more than, three times the drain rate.  Above
\* it unsigned differences wrap, and advertised rates rise again.
LoadLevels == {3 * ISO_VQ_DRAIN_RATE_MBPS - 1, 3 * ISO_VQ_DRAIN_RATE_MBPS + 1}

\* A queue with a cap and one without, whose rates do not all fit iph->id.
TwoQueues == {[weight |-> 1, cap |-> 2], [weight |-> 2, cap |-> 0]}

\* No CPU is special: the drain takes them in any order.
CpuSymmetry == Permutations(Cpu)
=============================================================================
