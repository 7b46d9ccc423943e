\* Two sessions over one database; with time, a change of the manifest and ends
\* of sessions between any two writes.
SPECIFICATION Spec
CHECK_DEADLOCK FALSE
CONSTANTS
    None = None
    g1 = g1
    g2 = g2
    Session = {s1, s2}
    Key = {1, 2}
    Generation = {g1, g2}
    Kind = {"VALIDATION", "OUT_OF_SAMPLE"}
    Profile <- MCProfile
    Policy <- MCPolicy
    ExpiryOf <- MCExpiryOf
    History <- MCHistory
    Compatible = {1}
    StatusOf <- MCStatusOf
    RealizedOf <- MCRealizedOf
    Incident <- MCIncident
    MaxRevisions = 3
    MaxTime = 1
    MaxReassessments = 2
SYMMETRY Sessions
INVARIANTS
    EvidenceChain
    OneVerdict
    EligibleIsEarned
    GatesFailSafe
