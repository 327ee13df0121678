\* The three prompts the person works with and one of the two notices, which
\* are alike but for the channel that opens them.
CONSTANTS
    Prompts = {"secret", "confirm", "modify", "reconcile"}
    MaxRequests = 1
    Declared = FALSE

SPECIFICATION Spec

INVARIANTS
    StackMirrorsPrompts
    EscapeTakesFront
    SecretForgotten
