\* The Deployment form factor gives way to the Knative service, and back.
SPECIFICATION Spec
CONSTANTS
  Alphabet <- Names
  Ready = "Ready"
  Registrations <- Replacing
  HookTypes <- FromHook
INVARIANTS
  SanitizedListsExpected
