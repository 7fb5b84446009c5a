CONSTANTS
  alice = alice
  app = app
  n1 = n1
  n2 = n2
  n3 = n3
  Person <- Everybody
  App = {app}
  Name = {n1, n2, n3}
  NamesOf <- OwnNames
  Link = {link}
  Bot = Bot
  None = None
SPECIFICATION Spec
INVARIANTS
  EntriesOfOnePerson
  IdentifiersUnique
  IndexesAgree
  Durable
