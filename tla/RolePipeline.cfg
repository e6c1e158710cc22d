\* Every recipe of up to two steps, fitted, saved, changed once, loaded and used.
CONSTANTS
  Filter = "n4m:filter"
  Scaler = "n4m:scaler"
  Snv = "n4m:snv"
  Regressor = "n4m:regressor"
  Kernel = "n4m:kernel"
  Classifier = "n4m:classifier"
  Splitter = "n4m:splitter"
  RoleTokens = {"n4m:filter", "n4m:scaler", "n4m:snv", "n4m:regressor", "n4m:kernel", "n4m:classifier", "n4m:splitter", "n4m:unknown"}
  Resolvable = {"n4m:filter", "n4m:scaler", "n4m:snv", "n4m:regressor", "n4m:kernel", "n4m:classifier", "n4m:splitter"}
  I32Max = 15
  Catalogue <- MCCatalogue
  Recipes <- MCRecipes
  Targets <- MCTargets
  Columns <- MCColumns
  Width = 2
  Tables <- MCTables
  Others <- MCOthers
  MaxEdits = 1
  Malformed = Malformed
  None = None
SPECIFICATION Spec
INVARIANTS EnvelopeFaithful AcceptedSound
