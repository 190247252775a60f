---------------------------- MODULE MCDestState ----------------------------
EXTENDS DestState

Ips == 1..3
\* Destinations 1 and 3 share a bucket of states, 2 and 3 one of limiters.
Collide == <<1, 2, 1>>
CollideRl == <<1, 2, 2>>
\* No two destinations share a bucket of states.
Apart == <<1, 2, 3>>
=============================================================================
