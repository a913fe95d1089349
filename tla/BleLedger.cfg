CONSTANT Scenarios <- MCScenarios
SPECIFICATION FairSpec
INVARIANTS
    ManagerTrue
    NeverStuck
PROPERTY RequestsHonoured
