SPECIFICATION InputThreeSpec
CONSTANTS
  Directions <- MCDirections
  Turns <- MCTurns
PROPERTY LoneSetDecides
