SPECIFICATION SchemaSpec
CONSTANTS
  old = old
  new = new
  Processes = {old, new}
  HeadOf <- Heads
  Targets = {1}
  Started <- Databases0
  Arrivals <- NewRows
  Unset = unset
PROPERTIES UnpublishedIsRefused
