---- MODULE MCShellService ----
EXTENDS ShellService
====
