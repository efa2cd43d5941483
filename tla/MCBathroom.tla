---- MODULE MCBathroom ----
EXTENDS Bathroom
====
