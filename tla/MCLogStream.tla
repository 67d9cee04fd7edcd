---- MODULE MCLogStream ----
EXTENDS LogStream
====
