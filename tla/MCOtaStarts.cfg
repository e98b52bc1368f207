SPECIFICATION Spec
CONSTANTS
  Files = {main_py, ota_py, controller_py, mqtt_py, utils_py}
  Critical = {main_py, ota_py, controller_py}
  Needed = {main_py, ota_py, controller_py, mqtt_py}
  Main = main_py
  Self = ota_py
  Absent = Absent
  Releases <- ReleasesMade
  MaxBundles = 2
  MaxFaults = 1
  main_py = main_py
  ota_py = ota_py
  controller_py = controller_py
  mqtt_py = mqtt_py
  utils_py = utils_py
INVARIANTS
  AlwaysStarts
CHECK_DEADLOCK FALSE
