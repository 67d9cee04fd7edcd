---- MODULE MCAgents ----
EXTENDS Agents
====
