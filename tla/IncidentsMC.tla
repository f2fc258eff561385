------------------------------ MODULE IncidentsMC ------------------------------
\* Model-checking instances of Incidents: events and replicas are each
\* interchangeable.
EXTENDS Incidents, TLC

Symmetry == Permutations(Events) \union Permutations(Replicas)
================================================================================
