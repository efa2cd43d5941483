---- MODULE MCClientLogger ----
EXTENDS ClientLogger
CONSTANTS a, b, c, s1, s2
====
